------------------------------- MODULE Picks -------------------------------
(***************************************************************************)
(* The elements of a sequence at some of its positions, in their order:    *)
(* what the list comprehensions of the code leave.  A recursive function,  *)
(* so that it can be reasoned about.                                       *)
(***************************************************************************)
EXTENDS Naturals, Sequences

Pick(s, places) ==
  LET first[n \in 0..Len(s)] ==
        IF n = 0 THEN <<>>
        ELSE IF n \in places THEN Append(first[n - 1], s[n]) ELSE first[n - 1]
  IN  first[Len(s)]

=============================================================================
