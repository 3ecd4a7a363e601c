---------------------------- MODULE Subsequences ----------------------------
(***************************************************************************)
(* What is left of a sequence when elements are dropped from it: those in  *)
(* a given set, or any.                                                    *)
(***************************************************************************)
EXTENDS Integers, Sequences

\* The elements of s that are in C, in the order of s.
Only(s, C) ==
    LET kept[n \in 0..Len(s)] ==
            IF n = 0 THEN <<>>
            ELSE IF s[n] \in C THEN Append(kept[n - 1], s[n]) ELSE kept[n - 1]
    IN  kept[Len(s)]

\* q is what is left of s: each element of q is at a place of s, in the order of s.
LeftOf(q, s) ==
    \/ q = s
    \/ \E at \in [DOMAIN q -> DOMAIN s] :
          /\ \A i \in DOMAIN q : q[i] = s[at[i]]
          /\ \A i, j \in DOMAIN q : i < j => at[i] < at[j]
=============================================================================
