------------------------- MODULE MC_DocumentQueue --------------------------
(* DocumentQueue for TLC. Documents and tasks are interchangeable; the      *)
(* symmetry is used for the safety run only.                                *)
EXTENDS DocumentQueue, TLC

Symmetry == Permutations(Docs) \union Permutations(Tasks)

=============================================================================
