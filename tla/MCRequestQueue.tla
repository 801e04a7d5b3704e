--------------------------- MODULE MCRequestQueue ---------------------------
(***************************************************************************)
(* Constant values for model checking RequestQueue.                        *)
(***************************************************************************)
EXTENDS RequestQueue, TLC

\* Jobs are interchangeable: the run checks no liveness property.
JobSymmetry == Permutations(Jobs)
=============================================================================
