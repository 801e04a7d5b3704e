------------------------- MODULE MCWinnerSelection -------------------------
(***************************************************************************)
(* Constant values for model checking WinnerSelection: the multiplier and  *)
(* the increment of the code, reduced to the width of a word.              *)
(***************************************************************************)
EXTENDS WinnerSelection

\* Stands for the hash: it depends on every word and on their order.
SomeDigest(words) == FoldLeft(LAMBDA h, s : (h * 5 + s + 1) % Words, 3, words)

=============================================================================
