------------------------------- MODULE Filters -------------------------------
(* What a list comprehension "[x for x in xs if ...]" of the program keeps,   *)
(* by the set of elements that are wanted.                                    *)
EXTENDS SequencesExt

Kept(seq, wanted) ==
    FoldLeft(LAMBDA kept, e : IF e \in wanted THEN Append(kept, e) ELSE kept, <<>>, seq)

=============================================================================
