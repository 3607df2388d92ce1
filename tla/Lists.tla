------------------------------- MODULE Lists -------------------------------
(***************************************************************************)
(* What the filtered lists of internal/tui/model.go have in common: one    *)
(* pass over a list that appends what passes to a list of its own.         *)
(***************************************************************************)
EXTENDS Naturals, Sequences

(* T has what passes.                                                      *)
Passing(list, T) ==
    LET upTo[n \in 0..Len(list)] ==
            IF n = 0 THEN <<>>
            ELSE IF list[n] \in T THEN Append(upTo[n - 1], list[n]) ELSE upTo[n - 1]
    IN upTo[Len(list)]
=============================================================================
