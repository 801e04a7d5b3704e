-------------------------- MODULE MCRaffleInstance --------------------------
(***************************************************************************)
(* Constant values for model checking RaffleInstance.  Amounts are in      *)
(* stroops: ticket prices start at MIN_TICKET_PRICE = 10000.               *)
(***************************************************************************)
EXTENDS RaffleInstance, TLC

OneTier  == <<10000>>
TwoTiers == <<6000, 4000>>

\* Buyers are interchangeable: no run that uses this set checks a liveness
\* property or names a buyer.
BuyerSymmetry == Permutations(Buyers)
=============================================================================
