----------------------------- MODULE Selections -----------------------------
(***************************************************************************)
(* What is left of a list when some places are taken out of it, in order.  *)
(* It is the SelectSeq of module Sequences by place instead of by value,   *)
(* as a recursive function that can be reasoned about.                     *)
(***************************************************************************)
EXTENDS Naturals, Sequences

\* The kept places among the first n, for every n.
Thinned(list, places) ==
    LET P[n \in 0 .. Len(list)] ==
            IF n = 0 THEN <<>>
            ELSE IF n \in places THEN Append(P[n - 1], list[n])
            ELSE P[n - 1]
    IN  P

Kept(list, places) == Thinned(list, places)[Len(list)]
=============================================================================
