--------------------------- MODULE MCFactoryStats ---------------------------
(* Constants of the run on the factory's counters, boards and views.        *)
EXTENDS FactoryStats, TLC

CONSTANTS c1, c2, b1, b2, t1, p1, p2

\* Results that rank differently by two metrics and tie in the third: one ticket
\* at its full price, two at half of it.
TwoResults ==
    {[tickets |-> 1, prize |-> 2, price |-> 2, maxTickets |-> 2, ebPct |-> 0, ebBp |-> 0],
     [tickets |-> 2, prize |-> 1, price |-> 2, maxTickets |-> 4, ebPct |-> 50, ebBp |-> 5000]}

\* Creators, buyers and partners are interchangeable, and the run has invariants
\* only.
StatsSymmetry ==
    Permutations(Creators) \cup Permutations(Buyers) \cup Permutations(Partners)

=============================================================================
