----------------------------- MODULE Subsequences -----------------------------
(***************************************************************************)
(* Keep(q, S) is the sequence of the elements of q that are in S, in their *)
(* order: SelectSeq for a set, written as a recursive function so that its *)
(* laws can be proved.                                                     *)
(***************************************************************************)
EXTENDS Naturals, Sequences

Keep(q, S) ==
    LET kept[n \in 0..Len(q)] ==
            IF n = 0 THEN <<>>
            ELSE IF q[n] \in S THEN Append(kept[n - 1], q[n]) ELSE kept[n - 1]
    IN  kept[Len(q)]
=============================================================================
