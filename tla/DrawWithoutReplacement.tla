----------------------- MODULE DrawWithoutReplacement -----------------------
(***************************************************************************)
(* What the trait WinnerSelectionStrategy promises of a selection: once    *)
(* the seed is known, min(count, total) tickets are taken one by one, each *)
(* from the tickets still in the urn, and the selection comes to an end.   *)
(***************************************************************************)
EXTENDS Integers, Sequences, FiniteSetsExt, Functions

VARIABLES
    total,      \* tickets in the urn at the start
    count,      \* winners asked for
    seeded,     \* is there a seed to draw with?
    drawn       \* the tickets taken so far, in order

vars == <<total, count, seeded, drawn>>

Wanted == Min({total, count})

Init == /\ total \in Nat /\ count \in Nat
        /\ seeded \in BOOLEAN /\ drawn = <<>>

Seed == /\ ~seeded /\ seeded' = TRUE
        /\ UNCHANGED <<total, count, drawn>>

Draw == /\ seeded /\ Len(drawn) < Wanted
        /\ \E t \in (0 .. total - 1) \ Range(drawn) : drawn' = Append(drawn, t)
        /\ UNCHANGED <<total, count, seeded>>

Spec == Init /\ [][Seed \/ Draw]_vars /\ WF_vars(Draw)
=============================================================================
