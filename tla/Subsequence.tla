----------------------------- MODULE Subsequence -----------------------------
(***************************************************************************)
(* What a loop with a condition, or a list comprehension with one, makes   *)
(* of a list.                                                              *)
(*                                                                         *)
(* It is what SelectSeq makes of it, with a set for the condition and a    *)
(* recursive function for the loop, so that there are proofs about it.     *)
(***************************************************************************)
EXTENDS Naturals, Sequences

\* The elements of s that are in S, in their order.
Those(s, S) ==
    LET those[n \in 0..Len(s)] == IF n = 0 THEN <<>>
                                  ELSE IF s[n] \in S THEN Append(those[n - 1], s[n])
                                  ELSE those[n - 1]
    IN those[Len(s)]
==============================================================================
