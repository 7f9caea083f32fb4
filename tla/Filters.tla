------------------------------- MODULE Filters -------------------------------
(* The elements of a sequence that pass a test, in their order. It is what   *)
(* SelectSeq gives, of which the provers know no definition.                 *)
EXTENDS Naturals, Sequences

(* The elements at some places.                                              *)
Taken(s, places) ==
    LET taken[i \in 0..Len(s)] ==
            IF i = 0 THEN <<>>
            ELSE IF i \in places THEN Append(taken[i - 1], s[i]) ELSE taken[i - 1]
    IN  taken[Len(s)]

Only(s, Test(_)) == Taken(s, {i \in DOMAIN s : Test(s[i])})
=============================================================================
