------------------------------ MODULE Selections ------------------------------
(***************************************************************************)
(* What two of the program's loops do: they go through a list in its order *)
(* and append to another one what belongs to a set.                        *)
(***************************************************************************)
EXTENDS Naturals, Sequences

\* The elements of s that are in S, in the order of s.
Selected(s, S) ==
  LET f[k \in 0..Len(s)] ==
        IF k = 0 THEN <<>>
        ELSE IF s[k] \in S THEN Append(f[k - 1], s[k]) ELSE f[k - 1]
  IN  f[Len(s)]
=============================================================================
