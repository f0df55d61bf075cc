------------------------------ MODULE Filtering ------------------------------
(* The elements of a sequence that are in a set, in their order: what a    *)
(* comprehension with a condition keeps.                                   *)
EXTENDS Integers, Sequences

Elements(s) == {s[i] : i \in DOMAIN s}

Filtered(s, S) ==
    LET kept[n \in 0..Len(s)] ==
          IF n = 0 THEN <<>>
          ELSE IF s[n] \in S THEN Append(kept[n - 1], s[n]) ELSE kept[n - 1]
    IN  kept[Len(s)]
=============================================================================
