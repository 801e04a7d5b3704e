---------------------------- MODULE MCTicketTtl ----------------------------
(* Constants of the run on lifetimes.                                       *)
EXTENDS TicketTtl

\* A page past the end, a page of nothing, and one in the middle.
SomePages == {<<2, 1>>, <<1, 0>>, <<4, 3>>}

=============================================================================
