----------------------------- MODULE Selections -----------------------------
(***************************************************************************)
(* What a filter keeps of a sequence (Iterator::filter, Vec::retain), given *)
(* the positions it keeps.                                                  *)
(***************************************************************************)
EXTENDS Integers, Sequences

\* The elements of s at the positions in K, in their order.
SelectAt(s, K) ==
  LET kept[n \in 0..Len(s)] ==
        IF n = 0 THEN <<>>
        ELSE IF n \in K THEN Append(kept[n - 1], s[n]) ELSE kept[n - 1]
  IN  kept[Len(s)]
=============================================================================
