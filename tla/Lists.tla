------------------------------- MODULE Lists --------------------------------
(***************************************************************************)
(* Lists as the Python code of src/ walks them: what a comprehension keeps.*)
(***************************************************************************)
EXTENDS Integers, Sequences

\* The elements of s at the positions in T, in their order.
At(s, T) ==
  LET taken[i \in 0..Len(s)] ==
        IF i = 0 THEN <<>> ELSE IF i \in T THEN Append(taken[i - 1], s[i]) ELSE taken[i - 1]
  IN taken[Len(s)]
=============================================================================
