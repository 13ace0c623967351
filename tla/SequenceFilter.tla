--------------------------- MODULE SequenceFilter ---------------------------
(***************************************************************************)
(* The elements of a sequence that belong to a set, in their order:        *)
(* SelectSeq as a recursive function, which the proofs can look inside.    *)
(***************************************************************************)
EXTENDS Naturals, Sequences

Kept(seq, set) ==
    LET first[n \in 0..Len(seq)] ==
            IF n = 0 THEN <<>>
            ELSE IF seq[n] \in set THEN Append(first[n - 1], seq[n]) ELSE first[n - 1]
    IN  first[Len(seq)]
=============================================================================
