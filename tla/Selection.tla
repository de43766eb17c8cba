----------------------------- MODULE Selection -----------------------------
(***************************************************************************)
(* The list comprehensions of the server: what they keep of a list, in its *)
(* order.  SelectSeq says the same, but the provers know nothing of it.    *)
(***************************************************************************)
EXTENDS Naturals, Sequences

\* The elements of list at the places kept.
Selected(list, kept) ==
    LET upto[n \in 0..Len(list)] ==
            IF n = 0 THEN << >>
            ELSE IF n \in kept THEN Append(upto[n - 1], list[n])
            ELSE upto[n - 1]
    IN  upto[Len(list)]
=============================================================================
