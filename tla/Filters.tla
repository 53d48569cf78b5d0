------------------------------ MODULE Filters ------------------------------
(***************************************************************************)
(* Filtering a sequence by a set.  What SelectSeq does with a test, in a   *)
(* form that can be reasoned about as well as evaluated.                   *)
(***************************************************************************)
EXTENDS Integers, Sequences

\* The subsequence of s of the members that are in S.
Keep(s, S) ==
    LET kept[i \in 0 .. Len(s)] ==
            IF i = 0 THEN <<>>
            ELSE IF s[i] \in S THEN Append(kept[i - 1], s[i]) ELSE kept[i - 1]
    IN  kept[Len(s)]
=============================================================================
