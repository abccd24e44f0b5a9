------------------------------- MODULE Retain -------------------------------
(* Vec::retain: what is left of a sequence, in its order, when only the     *)
(* elements of a set are kept.                                              *)
EXTENDS Naturals, Sequences

Retained(s, keep) ==
    LET upTo[n \in 0 .. Len(s)] ==
            IF n = 0 THEN <<>>
            ELSE IF s[n] \in keep THEN Append(upTo[n - 1], s[n])
            ELSE upTo[n - 1]
    IN  upTo[Len(s)]
=============================================================================
