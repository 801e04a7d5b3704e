--------------------------- MODULE MCRaffleFactory ---------------------------
(* Constants of the factory runs.                                           *)
EXTENDS RaffleFactory

CONSTANTS a1, a2, self, c1, c2, d1, d2, h1, h2

InitialSettings == [fee |-> 100, treasury |-> a1, wasm |-> h1]

=============================================================================
