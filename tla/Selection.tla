----------------------------- MODULE Selection ------------------------------
(***************************************************************************)
(* The elements of a sequence that are in a set, in their order: SelectSeq *)
(* for a set, as a recursive function, which can be reasoned about.        *)
(***************************************************************************)
EXTENDS Naturals, Sequences

Selected(s, S) ==
    LET last[n \in 0 .. Len(s)] ==   \* of the last n elements
            IF n = 0 THEN <<>>
            ELSE LET x == s[Len(s) - n + 1]
                 IN  IF x \in S THEN <<x>> \o last[n - 1] ELSE last[n - 1]
    IN  last[Len(s)]

=============================================================================
