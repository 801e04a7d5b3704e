--------------------------- MODULE TicketTtlProofs ---------------------------
(***************************************************************************)
(* Proofs about TicketTtl, for any number of tickets and months, any sizes *)
(* of window and page, and any calls of extend_ttl by others: no entry of  *)
(* the raffle expires, and the rolling window passes over no ticket.       *)
(***************************************************************************)
EXTENDS TicketTtl, SequenceTheorems, TLAPS

\* What docs/STORAGE.md plans with: a refreshed entry and a new one outlive the
\* month (3 months and about 4 in the code and on the network).
MonthlyPlan == Threshold # 0 /\ MinTtl # 0

-----------------------------------------------------------------------------
(* Operators                                                                *)

LEMMA Limits ==
    /\ {MaxTickets, MaxPerTx, Window, PageSize, BumpTo} \subseteq Nat \ {0}
    /\ Threshold \in Nat /\ MinTtl \in Nat /\ MaxTime \in Nat
    /\ Window \in Nat /\ Window > 0 /\ PageSize \in Nat /\ PageSize > 0
    /\ BumpTo \in Nat /\ BumpTo > 0
  BY TtlAssumption

LEMMA MinPair ==
    ASSUME NEW a \in Nat, NEW b \in Nat
    PROVE  Min({a, b}) = IF a <= b THEN a ELSE b
<1> DEFINE m == IF a <= b THEN a ELSE b
<1>1. m \in {a, b} /\ \A y \in {a, b} : m <= y
  OBVIOUS
<1>2. \A x \in {a, b} : (\A y \in {a, b} : x <= y) => x = m
  OBVIOUS
<1> HIDE DEF m
<1>3. Min({a, b}) \in {a, b} /\ \A y \in {a, b} : Min({a, b}) <= y
  BY <1>1 DEF Min
<1> QED BY <1>2, <1>3 DEF m

\* extend_ttl of the storage never takes a lifetime that reaches beyond now, or
\* beyond the month, below that.
LEMMA ExtendedLife ==
    ASSUME now \in Nat, NEW u \in Nat
    PROVE  /\ Extended(u) \in Nat
           /\ u >= now => Extended(u) >= now
           /\ u >= now + 1 => Extended(u) >= now + 1
           /\ MonthlyPlan => Extended(u) >= now + 1
  BY Limits DEF Extended, MonthlyPlan

\* A page of extend_ticket_ttls.
LEMMA ExtendPage ==
    ASSUME now \in Nat, NEW until \in Seq(Nat), NEW start, NEW limit
    PROVE  LET e == ExtendTicketTtls(until, start, limit) IN
           /\ e \in Seq(Nat)
           /\ Len(e) = Len(until)
           /\ \A i \in 1..Len(until) :
                 /\ until[i] >= now => e[i] >= now
                 /\ until[i] >= now + 1 => e[i] >= now + 1
                 /\ MonthlyPlan /\ i \in Refreshed(until, start, limit) => e[i] >= now + 1
<1> DEFINE n == Len(until)
<1> DEFINE e == ExtendTicketTtls(until, start, limit)
<1>1. n \in Nat /\ DOMAIN until = 1..n /\ \A i \in 1..n : until[i] \in Nat
  BY LenProperties, ElementOfSeq
<1>2. e = [i \in 1..n |-> IF i \in Refreshed(until, start, limit)
                           THEN Extended(until[i]) ELSE until[i]]
  BY <1>1 DEF ExtendTicketTtls
<1> HIDE DEF e, n
<1>3. \A i \in 1..n : e[i] = IF i \in Refreshed(until, start, limit)
                              THEN Extended(until[i]) ELSE until[i]
  BY <1>2
<1>4. \A i \in 1..n : e[i] \in Nat
  BY <1>1, <1>3, ExtendedLife
<1>5. e \in [1..n -> Nat]
  BY <1>2, <1>4
<1>6. e \in Seq(Nat) /\ Len(e) = n
  BY <1>1, <1>5
<1>7. ASSUME NEW i \in 1..n
      PROVE  /\ until[i] >= now => e[i] >= now
             /\ until[i] >= now + 1 => e[i] >= now + 1
             /\ MonthlyPlan /\ i \in Refreshed(until, start, limit) => e[i] >= now + 1
  BY <1>1, <1>3, ExtendedLife
<1> QED BY <1>6, <1>7 DEF e, n

\* While nothing is missing a page refreshes all its tickets.
LEMMA RefreshedAll ==
    ASSUME NEW until \in Seq(Nat), \A i \in 1..Len(until) : until[i] >= now,
           NEW start \in Nat \ {0}, NEW limit \in Nat
    PROVE  \A i \in 1..Len(until) :
              i >= start /\ i <= start + limit - 1 => i \in Refreshed(until, start, limit)
<1>1. Len(until) \in Nat /\ DOMAIN until = 1..Len(until)
  BY LenProperties
<1> SUFFICES ASSUME NEW i \in 1..Len(until), i >= start, i <= start + limit - 1
             PROVE  i \in Refreshed(until, start, limit)
  OBVIOUS
<1>2. i \in start..(start + limit - 1)
  BY <1>1
<1>3. \A j \in start..i : j \in 1..Len(until)
  BY <1>1
<1>4. \A j \in start..i : Present(until, j)
  BY <1>1, <1>3 DEF Present
<1> QED BY <1>2, <1>4 DEF Refreshed

\* The window of bump_raffle_ttl, by its effect on the lifetimes.
LEMMA BumpLives ==
    ASSUME now \in Nat, NEW until \in Seq(Nat), BumpRaffleTtl(until)
    PROVE  /\ ticketUntil' \in Seq(Nat)
           /\ Len(ticketUntil') = Len(until)
           /\ \A i \in 1..Len(until) : /\ until[i] >= now => ticketUntil'[i] >= now
                                       /\ until[i] >= now + 1 => ticketUntil'[i] >= now + 1
           /\ instanceUntil' = Extended(instanceUntil)
<1>1. instanceUntil' = Extended(instanceUntil)
  BY DEF BumpRaffleTtl, ExtendInstance
<1>2. CASE Len(until) = 0
  BY <1>1, <1>2 DEF BumpRaffleTtl
<1>3. CASE Len(until) # 0
  <2>1. \E start, limit : ticketUntil' = ExtendTicketTtls(until, start, limit)
    BY <1>3 DEF BumpRaffleTtl
  <2>2. PICK start, limit : ticketUntil' = ExtendTicketTtls(until, start, limit)
    BY <2>1
  <2> QED BY <1>1, <2>2, ExtendPage
<1> QED BY <1>2, <1>3

-----------------------------------------------------------------------------
(* Types, and the lifetimes                                                 *)

TypeInv ==
    /\ ticketUntil \in Seq(Nat)
    /\ instanceUntil \in Nat
    /\ page \in Nat
    /\ now \in Nat

\* Every entry lives; what the operator has refreshed this month lives for
\* another one, and when it is done that is everything.
Lives ==
    /\ instanceUntil >= now
    /\ page # 1 => instanceUntil >= now + 1
    /\ \A i \in 1..Sold : /\ ticketUntil[i] >= now
                          /\ page = 0 \/ i < page => ticketUntil[i] >= now + 1

LifeInv == TypeInv /\ (MonthlyPlan => Lives)

LEMMA LifeInit == Init => LifeInv
<1> SUFFICES ASSUME Init PROVE LifeInv
  OBVIOUS
<1>1. Sold = 0
  BY DEF Init, Sold
<1>2. TypeInv
  BY Limits, EmptySeq DEF Init, TypeInv
<1>3. Lives
  BY <1>1, Limits DEF Init, Lives
<1> QED BY <1>2, <1>3 DEF LifeInv

\* The tickets of a purchase.
LEMMA Bought ==
    ASSUME TypeInv, NEW q \in 1..MaxPerTx
    PROVE  LET u == ticketUntil \o [i \in 1..q |-> now + MinTtl] IN
           /\ u \in Seq(Nat)
           /\ Len(u) = Sold + q
           /\ \A i \in 1..Sold : u[i] = ticketUntil[i]
           /\ \A i \in (Sold + 1)..(Sold + q) : u[i] = now + MinTtl
<1> DEFINE new == [i \in 1..q |-> now + MinTtl]
<1>1. q \in Nat /\ now + MinTtl \in Nat
  BY Limits DEF TypeInv
<1>2. new \in Seq(Nat) /\ Len(new) = q /\ \A i \in 1..q : new[i] = now + MinTtl
  BY <1>1
<1> HIDE DEF new
<1>3. ticketUntil \in Seq(Nat) /\ Sold \in Nat /\ Sold = Len(ticketUntil)
  BY LenProperties DEF TypeInv, Sold
<1> DEFINE u == ticketUntil \o new
<1>4. /\ u \in Seq(Nat)
      /\ Len(u) = Sold + q
      /\ \A i \in 1..(Sold + q) : u[i] = IF i <= Sold THEN ticketUntil[i] ELSE new[i - Sold]
  BY <1>1, <1>2, <1>3, ConcatProperties
<1> HIDE DEF u
<1>5. \A i \in 1..Sold : u[i] = ticketUntil[i]
  BY <1>1, <1>3, <1>4
<1>6. \A i \in (Sold + 1)..(Sold + q) : u[i] = now + MinTtl
  <2> SUFFICES ASSUME NEW i \in (Sold + 1)..(Sold + q) PROVE u[i] = now + MinTtl
    OBVIOUS
  <2>1. i \in 1..(Sold + q) /\ ~(i <= Sold) /\ i - Sold \in 1..q
    BY <1>1, <1>3
  <2> QED BY <1>2, <1>4, <2>1
<1> QED BY <1>4, <1>5, <1>6 DEF u, new

\* What a call that bumps the raffle keeps.
LEMMA BumpKeeps ==
    ASSUME TypeInv, NEW until \in Seq(Nat), BumpRaffleTtl(until), UNCHANGED <<page, now>>,
           MonthlyPlan => /\ Lives
                          /\ \A i \in 1..Len(until) :
                                /\ until[i] >= now
                                /\ page = 0 \/ i < page => until[i] >= now + 1
    PROVE  LifeInv'
<1> USE DEF TypeInv
<1>1. /\ ticketUntil' \in Seq(Nat)
      /\ Len(ticketUntil') = Len(until)
      /\ \A i \in 1..Len(until) : /\ until[i] >= now => ticketUntil'[i] >= now
                                  /\ until[i] >= now + 1 => ticketUntil'[i] >= now + 1
      /\ instanceUntil' = Extended(instanceUntil)
  BY BumpLives
<1>2. TypeInv'
  BY <1>1, ExtendedLife
<1>3. MonthlyPlan => Lives'
  <2> SUFFICES ASSUME MonthlyPlan PROVE Lives'
    OBVIOUS
  <2>1. instanceUntil' >= now + 1 /\ instanceUntil' >= now
    BY <1>1, <1>2, ExtendedLife
  <2>2. Sold' = Len(until)
    BY <1>1 DEF Sold
  <2> QED BY <1>1, <2>1, <2>2 DEF Lives
<1> QED BY <1>2, <1>3 DEF LifeInv

\* A page of extend_ttl, of the operator or of anybody else.
LEMMA PageKeeps ==
    ASSUME TypeInv, NEW start, NEW limit, ExtendTtl(start, limit)
    PROVE  /\ now' = now /\ ticketUntil' \in Seq(Nat) /\ Sold' = Sold /\ instanceUntil' \in Nat
           /\ MonthlyPlan => instanceUntil' >= now + 1 /\ instanceUntil' >= now
           /\ \A i \in 1..Sold :
                 /\ ticketUntil[i] >= now => ticketUntil'[i] >= now
                 /\ ticketUntil[i] >= now + 1 => ticketUntil'[i] >= now + 1
                 /\ MonthlyPlan /\ i \in Refreshed(ticketUntil, start, limit)
                       => ticketUntil'[i] >= now + 1
<1> USE DEF TypeInv
<1>1. now' = now /\ ticketUntil' = ExtendTicketTtls(ticketUntil, start, limit)
      /\ instanceUntil' = Extended(instanceUntil)
  BY DEF ExtendTtl, ExtendInstance
<1>2. instanceUntil' \in Nat /\ (MonthlyPlan => instanceUntil' >= now + 1)
  BY <1>1, ExtendedLife
<1>3. MonthlyPlan => instanceUntil' >= now + 1 /\ instanceUntil' >= now
  BY <1>2
<1> QED BY <1>1, <1>2, <1>3, ExtendPage DEF Sold

LEMMA LifeNext == LifeInv /\ [Next]_vars => LifeInv'
<1> SUFFICES ASSUME LifeInv, [Next]_vars PROVE LifeInv'
  OBVIOUS
<1>t. TypeInv /\ (MonthlyPlan => Lives)
  BY DEF LifeInv
<1>n. now \in Nat /\ page \in Nat /\ Sold \in Nat /\ ticketUntil \in Seq(Nat)
      /\ Sold = Len(ticketUntil) /\ \A i \in 1..Sold : ticketUntil[i] \in Nat
  <2>1. ticketUntil \in Seq(Nat)
    BY <1>t DEF TypeInv
  <2> QED BY <1>t, <2>1, LenProperties, ElementOfSeq DEF TypeInv, Sold
<1>1. ASSUME NEW q \in 1..MaxPerTx, BuyTickets(q)
      PROVE  LifeInv'
  <2> DEFINE u == ticketUntil \o [i \in 1..q |-> now + MinTtl]
  <2>1. BumpRaffleTtl(u) /\ UNCHANGED <<page, now>>
    BY <1>1 DEF BuyTickets
  <2>2. /\ u \in Seq(Nat)
        /\ Len(u) = Sold + q
        /\ \A i \in 1..Sold : u[i] = ticketUntil[i]
        /\ \A i \in (Sold + 1)..(Sold + q) : u[i] = now + MinTtl
    BY <1>t, Bought
  <2> HIDE DEF u
  <2>3. MonthlyPlan => /\ Lives
                       /\ \A i \in 1..Len(u) : /\ u[i] >= now
                                               /\ page = 0 \/ i < page => u[i] >= now + 1
    <3> SUFFICES ASSUME MonthlyPlan, NEW i \in 1..Len(u)
                 PROVE  u[i] >= now /\ (page = 0 \/ i < page => u[i] >= now + 1)
      BY <1>t
    <3>1. CASE i \in 1..Sold
      BY <1>t, <2>2, <3>1 DEF Lives
    <3>2. CASE i \in (Sold + 1)..(Sold + q)
      <4>1. MinTtl \in Nat /\ MinTtl > 0
        BY Limits DEF MonthlyPlan
      <4>2. u[i] = now + MinTtl
        BY <2>2, <3>2
      <4> QED BY <1>n, <4>1, <4>2
    <3>3. q \in Nat
      BY Limits
    <3> QED BY <1>n, <2>2, <3>1, <3>2, <3>3
  <2> QED BY <1>t, <2>1, <2>2, <2>3, BumpKeeps
<1>2. ASSUME NEW W \in SUBSET (1..Sold), Finalize(W)
      PROVE  LifeInv'
  <2>1. BumpRaffleTtl(ticketUntil) /\ UNCHANGED <<page, now>>
    BY <1>2 DEF Finalize
  <2> QED BY <1>t, <1>n, <2>1, BumpKeeps DEF Lives
<1>3. ASSUME NEW p \in OtherPages, ByAnybody(p[1], p[2])
      PROVE  LifeInv'
  <2>1. ExtendTtl(p[1], p[2]) /\ page' = page
    BY <1>3 DEF ByAnybody
  <2>2. /\ now' = now /\ ticketUntil' \in Seq(Nat) /\ Sold' = Sold /\ instanceUntil' \in Nat
        /\ MonthlyPlan => instanceUntil' >= now + 1 /\ instanceUntil' >= now
        /\ \A i \in 1..Sold :
              /\ ticketUntil[i] >= now => ticketUntil'[i] >= now
              /\ ticketUntil[i] >= now + 1 => ticketUntil'[i] >= now + 1
    BY <1>t, <2>1, PageKeeps
  <2>3. TypeInv'
    BY <1>n, <2>1, <2>2 DEF TypeInv
  <2>4. MonthlyPlan => Lives'
    BY <1>t, <2>1, <2>2 DEF Lives
  <2> QED BY <2>3, <2>4 DEF LifeInv
<1>4. CASE ByOperator
  <2>1. ExtendTtl(page, PageSize) /\ page # 0
        /\ page' = IF page + PageSize > Sold THEN 0 ELSE page + PageSize
    BY <1>4 DEF ByOperator
  <2>2. /\ now' = now /\ ticketUntil' \in Seq(Nat) /\ Sold' = Sold /\ instanceUntil' \in Nat
        /\ MonthlyPlan => instanceUntil' >= now + 1 /\ instanceUntil' >= now
        /\ \A i \in 1..Sold :
              /\ ticketUntil[i] >= now => ticketUntil'[i] >= now
              /\ ticketUntil[i] >= now + 1 => ticketUntil'[i] >= now + 1
              /\ MonthlyPlan /\ i \in Refreshed(ticketUntil, page, PageSize)
                    => ticketUntil'[i] >= now + 1
    BY <1>t, <2>1, PageKeeps
  <2>p. PageSize \in Nat /\ PageSize > 0
    BY Limits
  <2>3. TypeInv'
    BY <1>n, <2>1, <2>2, <2>p DEF TypeInv
  <2>4. MonthlyPlan => Lives'
    <3> SUFFICES ASSUME MonthlyPlan PROVE Lives'
      OBVIOUS
    <3> SUFFICES ASSUME NEW i \in 1..Sold
                 PROVE  /\ ticketUntil'[i] >= now
                        /\ page' = 0 \/ i < page' => ticketUntil'[i] >= now + 1
      BY <2>2 DEF Lives
    <3>1. ticketUntil'[i] >= now
      BY <1>t, <2>2 DEF Lives
    <3>2. CASE i < page
      BY <1>t, <2>2, <3>1, <3>2 DEF Lives
    <3>3. CASE i >= page /\ i <= page + PageSize - 1
      <4>1. \A k \in 1..Len(ticketUntil) : ticketUntil[k] >= now
        BY <1>t, <1>n DEF Lives
      <4>2. i \in Refreshed(ticketUntil, page, PageSize)
        BY <1>n, <2>1, <2>p, <3>3, <4>1, RefreshedAll
      <4> QED BY <2>2, <3>1, <4>2
    <3>4. CASE i > page + PageSize - 1
      <4>1. page' # 0 /\ ~(i < page')
        BY <1>n, <2>1, <2>p, <3>4
      <4> QED BY <3>1, <4>1
    <3> QED BY <1>n, <2>p, <3>2, <3>3, <3>4
  <2> QED BY <2>3, <2>4 DEF LifeInv
<1>5. CASE Month
  <2>1. page = 0 /\ now' = now + 1 /\ page' = 1 /\ UNCHANGED <<ticketUntil, instanceUntil>>
    BY <1>5 DEF Month
  <2>2. TypeInv'
    BY <1>t, <2>1 DEF TypeInv
  <2>3. Sold' = Sold
    BY <2>1 DEF Sold
  <2>4. MonthlyPlan => Lives'
    <3> SUFFICES ASSUME MonthlyPlan PROVE Lives'
      OBVIOUS
    <3>1. instanceUntil >= now + 1 /\ \A i \in 1..Sold : ticketUntil[i] >= now + 1
      BY <1>t, <2>1 DEF Lives
    <3>2. \A i \in 1..Sold : ~(i < 1)
      OBVIOUS
    <3> QED BY <2>1, <2>3, <3>1, <3>2 DEF Lives
  <2> QED BY <2>2, <2>4 DEF LifeInv
<1>6. CASE UNCHANGED vars
  BY <1>6 DEF vars, LifeInv, TypeInv, Lives, Sold
<1> QED BY <1>1, <1>2, <1>3, <1>4, <1>5, <1>6 DEF Next

LEMMA LifeAlways == Spec => []LifeInv
  BY LifeInit, LifeNext, PTL DEF Spec

LEMMA LivesPresent == LifeInv /\ MonthlyPlan => NothingExpires
<1> SUFFICES ASSUME LifeInv, MonthlyPlan PROVE NothingExpires
  OBVIOUS
<1>1. ticketUntil \in Seq(Nat) /\ Lives
  BY DEF LifeInv, TypeInv
<1>2. DOMAIN ticketUntil = 1..Sold
  BY <1>1, LenProperties DEF Sold
<1> QED BY <1>1, <1>2 DEF Lives, NothingExpires, InstanceLive, Present

\* With the plan of docs/STORAGE.md, extend_ttl page by page once a month, no
\* entry of a raffle is ever missing, whatever the sizes of page and window,
\* whatever is bought between two pages and whoever else calls extend_ttl.
THEOREM NoEntryExpires == Spec => [](MonthlyPlan => NothingExpires)
  BY LifeAlways, LivesPresent, PTL

-----------------------------------------------------------------------------
(* The rolling window                                                       *)

\* The window stands behind the tickets it has refreshed since it began.
Swept ==
    /\ lastBumped \in Nat /\ lastBumped <= Sold
    /\ cycle = 1..lastBumped
    /\ missed = {}

WindowInv == MonthlyPlan => Swept

LEMMA WindowInit == Init => WindowInv
<1> SUFFICES ASSUME Init PROVE Swept
  BY DEF WindowInv
<1>1. Sold = 0 /\ lastBumped = 0 /\ cycle = {} /\ missed = {}
  BY DEF Init, Sold
<1> QED BY <1>1 DEF Swept

\* One window over tickets that are all present.
LEMMA WindowMoves ==
    ASSUME now \in Nat, NEW until \in Seq(Nat), BumpRaffleTtl(until), Swept,
           Sold <= Len(until), \A i \in 1..Len(until) : until[i] >= now, Sold \in Nat
    PROVE  Swept'
<1> DEFINE total == Len(until)
<1> DEFINE start == Min({lastBumped, total})
<1> DEFINE end == Min({start + Window, total})
<1> DEFINE seen == cycle \cup Refreshed(until, start + 1, end - start)
<1>0. total \in Nat /\ lastBumped \in Nat /\ lastBumped <= Sold /\ Window \in Nat /\ Window > 0
  BY LenProperties, Limits DEF Swept
<1>1. Sold' = total
  BY BumpLives DEF Sold
<1>2. CASE total = 0
  <2>1. UNCHANGED <<lastBumped, cycle, missed>>
    BY <1>2 DEF BumpRaffleTtl
  <2>2. lastBumped <= Sold'
    BY <1>0, <1>1
  <2> QED BY <2>1, <2>2 DEF Swept
<1>3. CASE total # 0
  <2>1. /\ lastBumped' = NextIndex(end, total)
        /\ cycle' = IF end >= total THEN {} ELSE seen
        /\ missed' = IF end >= total THEN missed \cup ((1..total) \ seen) ELSE missed
    BY <1>3 DEF BumpRaffleTtl
  <2>2. start = lastBumped
    BY <1>0, MinPair
  <2>3. end \in Nat /\ start <= end /\ end <= total
    <3>1. start \in Nat /\ start + Window \in Nat /\ start <= total
      BY <1>0, <2>2
    <3> HIDE DEF start, total
    <3> QED BY <1>0, <3>1, MinPair
  <2>4. seen = 1..end
    <3> HIDE DEF end, start
    <3>1. start + 1 \in Nat \ {0} /\ end - start \in Nat
      BY <1>0, <2>2, <2>3
    <3>2. ASSUME NEW i \in 1..end PROVE i \in seen
      <4>1. CASE i <= start
        BY <1>0, <2>2, <4>1 DEF Swept
      <4>2. CASE i > start
        <5>1. i \in 1..total /\ i >= start + 1 /\ i <= (start + 1) + (end - start) - 1
          BY <1>0, <2>2, <2>3, <4>2
        <5>2. i \in Refreshed(until, start + 1, end - start)
          BY <3>1, <5>1, RefreshedAll
        <5> QED BY <5>2
      <4> QED BY <1>0, <2>2, <4>1, <4>2
    <3>3. ASSUME NEW i \in seen PROVE i \in 1..end
      <4>1. CASE i \in cycle
        BY <1>0, <2>2, <2>3, <4>1 DEF Swept
      <4>2. CASE i \in Refreshed(until, start + 1, end - start)
        <5>1. i \in (start + 1)..((start + 1) + (end - start) - 1)
          BY <4>2 DEF Refreshed
        <5> QED BY <1>0, <2>2, <2>3, <5>1
      <4> QED BY <3>3, <4>1, <4>2
    <3> QED BY <3>2, <3>3
  <2> HIDE DEF seen, end, start, total
  <2>5. CASE end >= total
    <3>1. end = total
      BY <1>0, <2>3, <2>5
    <3>2. lastBumped' = 0 /\ cycle' = {} /\ missed' = {}
      BY <2>1, <2>4, <2>5, <3>1 DEF NextIndex, Swept
    <3> QED BY <1>0, <1>1, <3>2 DEF Swept
  <2>6. CASE ~(end >= total)
    <3>1. lastBumped' = end /\ cycle' = 1..end /\ missed' = {}
      BY <2>1, <2>4, <2>6 DEF NextIndex, Swept
    <3> QED BY <1>1, <2>3, <3>1 DEF Swept
  <2> QED BY <2>5, <2>6
<1> QED BY <1>2, <1>3

LEMMA WindowNext == LifeInv /\ WindowInv /\ [Next]_vars => WindowInv'
<1> SUFFICES ASSUME LifeInv, WindowInv, [Next]_vars, MonthlyPlan PROVE Swept'
  BY DEF WindowInv
<1>t. TypeInv /\ Lives /\ Swept
  BY DEF LifeInv, WindowInv
<1>n. now \in Nat /\ Sold \in Nat /\ ticketUntil \in Seq(Nat) /\ Sold = Len(ticketUntil)
      /\ \A i \in 1..Sold : ticketUntil[i] >= now
  BY <1>t, LenProperties DEF TypeInv, Sold, Lives
<1>1. ASSUME NEW q \in 1..MaxPerTx, BuyTickets(q)
      PROVE  Swept'
  <2> DEFINE u == ticketUntil \o [i \in 1..q |-> now + MinTtl]
  <2>1. BumpRaffleTtl(u)
    BY <1>1 DEF BuyTickets
  <2>2. /\ u \in Seq(Nat)
        /\ Len(u) = Sold + q
        /\ \A i \in 1..Sold : u[i] = ticketUntil[i]
        /\ \A i \in (Sold + 1)..(Sold + q) : u[i] = now + MinTtl
    BY <1>t, Bought
  <2> HIDE DEF u
  <2>3. q \in Nat /\ MinTtl \in Nat
    BY Limits
  <2>4. ASSUME NEW i \in 1..Len(u) PROVE u[i] >= now
    <3>1. CASE i \in 1..Sold
      BY <1>n, <2>2, <3>1
    <3>2. CASE i \in (Sold + 1)..(Sold + q)
      <4>1. u[i] = now + MinTtl
        BY <2>2, <3>2
      <4> QED BY <1>n, <2>3, <4>1
    <3> QED BY <1>n, <2>2, <2>3, <3>1, <3>2
  <2>5. Sold <= Len(u)
    BY <1>n, <2>2, <2>3
  <2> QED BY <1>t, <1>n, <2>1, <2>2, <2>4, <2>5, WindowMoves
<1>2. ASSUME NEW W \in SUBSET (1..Sold), Finalize(W)
      PROVE  Swept'
  <2>1. BumpRaffleTtl(ticketUntil) /\ Sold <= Sold
    BY <1>n, <1>2 DEF Finalize
  <2> QED BY <1>t, <1>n, <2>1, WindowMoves
<1>3. ASSUME NEW start, NEW limit, ExtendTtl(start, limit)
      PROVE  Swept'
  <2>1. UNCHANGED <<lastBumped, cycle, missed>>
    BY <1>3 DEF ExtendTtl
  <2>2. Sold' = Sold
    BY <1>t, <1>3, PageKeeps
  <2> QED BY <1>t, <2>1, <2>2 DEF Swept
<1>4. CASE Month \/ UNCHANGED vars
  BY <1>t, <1>4 DEF Month, vars, Swept, Sold
<1>5. CASE \E p \in OtherPages : ByAnybody(p[1], p[2])
  BY <1>3, <1>5 DEF ByAnybody
<1>6. CASE ByOperator
  BY <1>3, <1>6 DEF ByOperator
<1> QED BY <1>1, <1>2, <1>4, <1>5, <1>6 DEF Next

\* bump_raffle_ttl passes over no ticket: whenever LastBumpedIndex returns to the
\* start, every ticket sold by then has been refreshed since it left it, although
\* purchases lengthen the list while the window is under way.
THEOREM WindowIsComplete == Spec => [](MonthlyPlan => WindowSkipsNothing)
<1>1. WindowInv => (MonthlyPlan => WindowSkipsNothing)
  BY DEF WindowInv, Swept, WindowSkipsNothing
<1> QED BY <1>1, WindowInit, WindowNext, LifeAlways, PTL DEF Spec

=============================================================================
