------------------------------- MODULE Selection -------------------------------
(****************************************************************************)
(* What is picked from a sequence, written as a recursive function so that  *)
(* it can be reasoned about: the selection of files for the repository map  *)
(* and of events for a prompt.                                              *)
(****************************************************************************)
EXTENDS Naturals, Sequences

\* The elements of S as they come in an order.
InOrder(order, S) ==
    LET kept[n \in 0 .. Len(order)] ==
            IF n = 0 THEN <<>>
            ELSE IF order[n] \in S THEN Append(kept[n - 1], order[n]) ELSE kept[n - 1]
    IN  kept[Len(order)]
================================================================================
