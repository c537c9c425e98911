--------------------------- MODULE MC_Concurrency --------------------------
(* Four worker tasks, two of which may parse, embed or describe at once.    *)
EXTENDS PipelineConcurrency

MCLimit == [g \in Gates |-> 2]

=============================================================================
