----------------------------- MODULE Selections -----------------------------
(* SelectSeq of the standard module Sequences, written as a recursive        *)
(* function on a set: TLAPS knows nothing of SelectSeq.                      *)
EXTENDS Naturals, SequencesExt

\* The elements of s that are in S, in their order.
Kept(s, S) ==
    LET Upto[n \in 0 .. Len(s)] ==
          IF n = 0 THEN <<>>
          ELSE IF s[n] \in S THEN Append(Upto[n - 1], s[n]) ELSE Upto[n - 1]
    IN  Upto[Len(s)]

Selected(s, Test(_)) == Kept(s, {x \in ToSet(s) : Test(x)})
=============================================================================
