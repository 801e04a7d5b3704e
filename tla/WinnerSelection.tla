--------------------------- MODULE WinnerSelection ---------------------------
(***************************************************************************)
(* The selection of winning tickets from a 64-bit seed: the aggregation of *)
(* quorum seeds and OracleSeedWinnerSelection of raffle-instance's         *)
(* randomness.rs.  A word has Words values instead of 2^64; arithmetic     *)
(* wraps around at Words as wrapping_mul and wrapping_add do at 2^64.      *)
(*                                                                         *)
(* The selector is a partial Fisher-Yates shuffle of a deck that is never  *)
(* built: the swap log holds the positions whose card is not their own     *)
(* number.  A word is used only if it lies below the largest multiple of   *)
(* the deck's size; a refused word is replaced by the next one of an LCG.  *)
(***************************************************************************)
EXTENDS Integers, Sequences, SequencesExt, FiniteSets, FiniteSetsExt

CONSTANTS
    Words,          \* number of values of a word, 2^64 in the code
    Multiplier,     \* of the LCG, 6364136223846793005
    Increment,      \* of the LCG, 1442695040888963407
    MaxTickets,     \* bound on tickets and on winners
    Oracles,        \* the quorum's oracles, numbered in the order of their XDR bytes
    QuorumK,        \* seeds needed
    QuorumWords,    \* the seeds oracles send
    Digest(_)       \* external: the first eight bytes of a SHA-256 hash over words

ASSUME WordsAssumption == Words \in Nat \ {0, 1} /\ MaxTickets \in 0 .. Words - 1
\* Tickets are counted in half the bits of a word: u32 and u64.
ASSUME PairsAssumption == MaxTickets * (MaxTickets - 1) < Words
ASSUME LcgAssumption   == Multiplier \in Nat /\ Increment \in Nat
ASSUME QuorumAssumption == /\ Oracles \subseteq Nat
                           /\ QuorumK \in Nat \ {0}
                           /\ QuorumWords \subseteq 0 .. Words - 1
ASSUME DigestAssumption == \A w \in [1 .. QuorumK -> QuorumWords] : Digest(w) \in 0 .. Words - 1

VARIABLES
    total, count,   \* the arguments of the selector
    seeds,          \* quorum submissions in the order they came
    sorted,         \* the copy that aggregate_quorum_seeds sorts
    cursor,         \* its loop variables i and j
    seed,           \* the word the selector was given, -1 before that
    deal            \* the selector's current_seed, remaining, swaps and indices

vars == <<total, count, seeds, sorted, cursor, seed, deal>>

Word == 0 .. Words - 1

-----------------------------------------------------------------------------
(* The word generator and the rejection of the biased tail.                *)

\* Mutant: the generator repeats its word.
LcgStuck(s) == s

Lcg(s) == (s * Multiplier + Increment) % Words

\* Mutant: no word is refused.
LargestMultipleUnchecked(n) == Words

\* u64::MAX is Words - 1, so the last multiple below it, not below Words, counts.
LargestMultiple(n) == ((Words - 1) \div n) * n

\* Mutant: the last position is never hit.
ResidueShort(s, n) == IF n = 1 THEN 0 ELSE s % (n - 1)

Residue(s, n) == s % n

-----------------------------------------------------------------------------
(* The virtual deck.                                                       *)

Fresh(s, n) == [seed |-> s, remaining |-> n, swaps |-> <<>>, indices |-> <<>>]

\* Mutant: the swap log is not consulted.
CardUnmoved(d, p) == p

Card(d, p) == IF p \in DOMAIN d.swaps THEN d.swaps[p] ELSE p

\* One iteration of the loop: position r gives its card and takes the last one.
Take(d) ==
    LET r    == Residue(d.seed, d.remaining)
        last == Card(d, d.remaining - 1)
    IN  [d EXCEPT !.indices = Append(@, Card(d, r)),
                  !.swaps = [p \in DOMAIN @ \cup {r} |-> IF p = r THEN last ELSE @[p]],
                  !.remaining = @ - 1]

\* The end of the inner loop: at most d.remaining words lie in the refused tail, and
\* the LCG passes through every word before it repeats one.
Settled(d) ==
    LET word[i \in 0 .. d.remaining] ==
            IF i = 0 THEN d.seed
            ELSE IF word[i - 1] < LargestMultiple(d.remaining) THEN word[i - 1]
            ELSE Lcg(word[i - 1])
    IN  [d EXCEPT !.seed = word[d.remaining]]

\* The selector as a function of its arguments, for statements about all seeds.
SelectWinnerIndices(s, n, k) ==
    LET d[i \in 0 .. Min({n, k})] == IF i = 0 THEN Fresh(s, n) ELSE Take(Settled(d[i - 1]))
    IN  d[Min({n, k})].indices

-----------------------------------------------------------------------------
(* The seed: one word from an oracle, the ledger or the commitments, or a  *)
(* quorum of words.                                                        *)

Init ==
    /\ total \in 0 .. MaxTickets /\ count \in 0 .. MaxTickets
    /\ seeds = <<>> /\ sorted = <<>> /\ cursor = [i |-> 2, j |-> 2]
    /\ seed = -1 /\ deal = Fresh(0, 0)

Select(s) == seed' = s /\ deal' = Fresh(s, total)

DeliverSeed(s) ==
    /\ seed = -1 /\ seeds = <<>>
    /\ Select(s)
    /\ UNCHANGED <<total, count, seeds, sorted, cursor>>

\* provide_quorum_randomness: the submission that completes the quorum starts the sort.
SubmitSeed(o, s) ==
    /\ seed = -1 /\ Len(seeds) < QuorumK
    /\ \A i \in DOMAIN seeds : seeds[i].oracle # o
    /\ seeds' = Append(seeds, [oracle |-> o, word |-> s])
    /\ sorted' = IF Len(seeds') = QuorumK THEN seeds' ELSE <<>>
    /\ UNCHANGED <<total, count, cursor, seed, deal>>

\* Mutant: the sort compares the words.
BeforeBySeed(a, b) == a.word < b.word

Before(a, b) == a.oracle < b.oracle

\* The inner while loop of the insertion sort: carry entry j down past larger ones.
SortStep ==
    /\ seed = -1 /\ sorted # <<>> /\ cursor.i <= Len(sorted)
    /\ LET j == cursor.j IN
       IF j > 1 /\ Before(sorted[j], sorted[j - 1])
       THEN /\ sorted' = [sorted EXCEPT ![j] = sorted[j - 1], ![j - 1] = sorted[j]]
            /\ cursor' = [cursor EXCEPT !.j = @ - 1]
       ELSE /\ cursor' = [i |-> cursor.i + 1, j |-> cursor.i + 1]
            /\ UNCHANGED sorted
    /\ UNCHANGED <<total, count, seeds, seed, deal>>

\* The concatenation of the words.
WordsOf(entries) == [i \in DOMAIN entries |-> entries[i].word]

AggregateQuorumSeeds ==
    /\ seed = -1 /\ sorted # <<>> /\ cursor.i > Len(sorted)
    /\ Select(Digest(WordsOf(sorted)))
    /\ UNCHANGED <<total, count, seeds, sorted, cursor>>

-----------------------------------------------------------------------------
(* The loop of select_winner_indices.                                      *)

Drawing == seed # -1 /\ Len(deal.indices) < Min({total, count})

RejectWord ==
    /\ Drawing /\ deal.seed >= LargestMultiple(deal.remaining)
    /\ deal' = [deal EXCEPT !.seed = Lcg(@)]
    /\ UNCHANGED <<total, count, seeds, sorted, cursor, seed>>

TakeCard ==
    /\ Drawing /\ deal.seed < LargestMultiple(deal.remaining)
    /\ deal' = Take(deal)
    /\ UNCHANGED <<total, count, seeds, sorted, cursor, seed>>

Next ==
    \/ \E s \in Word : DeliverSeed(s)
    \/ \E o \in Oracles, s \in QuorumWords : SubmitSeed(o, s)
    \/ SortStep
    \/ AggregateQuorumSeeds
    \/ RejectWord
    \/ TakeCard

\* The selector runs to its end inside one call; nothing obliges a seed to come.
Spec == Init /\ [][Next]_vars /\ WF_vars(RejectWord) /\ WF_vars(TakeCard)

-----------------------------------------------------------------------------
(* Properties.                                                             *)

\* Types, and the bookkeeping of the loop: the cards still in the deck and the
\* ones already taken are the tickets, and no ticket is in two places.
TypeOK ==
    /\ total \in 0 .. MaxTickets /\ count \in 0 .. MaxTickets
    /\ seed \in Word \cup {-1} /\ deal.seed \in Word
    /\ seed # -1 =>
        LET deck == {Card(deal, p) : p \in 0 .. deal.remaining - 1}
            out  == ToSet(deal.indices)
        IN  /\ deal.remaining + Len(deal.indices) = total
            /\ Cardinality(deck) = deal.remaining
            /\ deck \cup out = 0 .. total - 1

Urn == INSTANCE DrawWithoutReplacement WITH seeded <- seed # -1, drawn <- deal.indices

\* Refinement: the swap log and the rejection loop implement a draw without
\* replacement that returns exactly min(count, total) tickets and always ends.
DrawsWithoutReplacement == Urn!Spec

\* The words that are accepted for a deck of any size it passes through fall
\* equally often on each of its positions.
Unbiased ==
    Drawing => \A r, q \in 0 .. deal.remaining - 1 :
        LET Hits(p) == {s \in Word : s < LargestMultiple(deal.remaining)
                                     /\ Residue(s, deal.remaining) = p}
        IN  Cardinality(Hits(r)) = Cardinality(Hits(q))

\* The submissions, each once, in the order of their oracles.
InOracleOrder(entries) ==
    /\ DOMAIN entries = DOMAIN seeds
    /\ \A i, j \in DOMAIN entries : i < j => entries[i].oracle < entries[j].oracle

\* The quorum's seed depends on who sent which word, not on the order in which
\* the submissions were included: it is the digest of the words in the order of
\* the oracles, which is one order.
OrderIndependent ==
    (seed # -1 /\ seeds # <<>>) =>
        \E entries \in [DOMAIN seeds -> ToSet(seeds)] :
            InOracleOrder(entries) /\ seed = Digest(WordsOf(entries))

Orders(k) == {f \in [1 .. k -> 0 .. total - 1] : \A i, j \in 1 .. k : f[i] = f[j] => i = j}

\* With one or two tiers, every order of winners is open before the seed is known:
\* some seed leads to it.  A draw takes its position from the seed that the draw
\* before it used, so this rests on the sizes of two successive decks having no
\* common divisor.
EveryPairPossible ==
    (seed = -1 /\ seeds = <<>> /\ count \in 1 .. 2 /\ count <= total) =>
        {SelectWinnerIndices(s, total, count) : s \in Word} = Orders(count)

\* What the documentation of WinnerSelectionStrategy claims for every number of
\* tiers: tickets are chosen uniformly at random, so every order must be open.
EveryOrderPossible ==
    (seed = -1 /\ seeds = <<>> /\ count <= total) =>
        {SelectWinnerIndices(s, total, count) : s \in Word} = Orders(count)
=============================================================================
