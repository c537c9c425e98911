------------------------ MODULE PipelineConcurrency ------------------------
(***************************************************************************)
(* The tasks of one worker process at the semaphores of                    *)
(* processing/concurrency.py, each of which is to cap how many documents   *)
(* are inside a heavy part of the pipeline at once.  A gate is a module    *)
(* variable holding a semaphore; the functions parse_semaphore,            *)
(* embedding_semaphore and table_semaphore make one when there is none or  *)
(* when the one there belongs to another event loop.                       *)
(***************************************************************************)
EXTENDS Integers, Sequences, FiniteSets

CONSTANTS
    Tasks,     \* worker_concurrency tasks, one document each at a time
    Limit,     \* [Gates -> Nat \ {0}]: parse_, embedding_, table_llm_concurrency
    MaxMade    \* bound: semaphores made for a gate

Gates == {"parse", "embed", "table"}

\* What process_document enters and leaves: classify_pdf, partition,
\* enrich_tables with the description of the tables inside it, embed_texts.
Program ==
    << <<"enter", "parse">>, <<"leave", "parse">>,
       <<"enter", "parse">>, <<"leave", "parse">>,
       <<"enter", "parse">>, <<"enter", "table">>,
       <<"leave", "table">>, <<"leave", "parse">>,
       <<"enter", "embed">>, <<"leave", "embed">> >>

VARIABLES
    sems,   \* [Gates -> Seq]: the semaphores made; a gate holds the last one
    pc,     \* [Tasks -> Nat]: the next step of the task's Program; 0 is idle
    inside, \* [Tasks -> [Gates -> Nat]]: the semaphore a task has acquired
    waits   \* [Tasks -> Nat]: the one it waits for at its next step

gates == <<sems, pc, inside, waits>>

GatesInit ==
    /\ sems = [g \in Gates |-> <<>>]
    /\ pc = [t \in Tasks |-> 0]
    /\ inside = [t \in Tasks |-> [g \in Gates |-> 0]]
    /\ waits = [t \in Tasks |-> 0]

-----------------------------------------------------------------------------
\* The semaphores after a call of the gate's function.  A semaphore gets its
\* _loop only when somebody has to wait for it.
Made(g) ==
    IF sems[g] = <<>> \/ ~sems[g][Len(sems[g])].bound
      THEN Append(sems[g], [free |-> Limit[g], bound |-> FALSE])
      ELSE sems[g]

After(t) == IF pc[t] = Len(Program) THEN 0 ELSE pc[t] + 1

StartDocument(t) ==
    /\ pc[t] = 0
    /\ pc' = [pc EXCEPT ![t] = 1]
    /\ UNCHANGED <<sems, inside, waits>>

\* async with ..._semaphore(): acquired at once, or the loop is bound and the
\* task waits.
Enter(t, g) ==
    LET made == Made(g)
        n == Len(made) IN
    /\ pc[t] # 0 /\ Program[pc[t]] = <<"enter", g>> /\ waits[t] = 0 /\ n <= MaxMade
    /\ IF made[n].free > 0
         THEN /\ sems' = [sems EXCEPT ![g] = [made EXCEPT ![n].free = @ - 1]]
              /\ inside' = [inside EXCEPT ![t][g] = n]
              /\ pc' = [pc EXCEPT ![t] = After(t)]
              /\ UNCHANGED waits
         ELSE /\ sems' = [sems EXCEPT ![g] = [made EXCEPT ![n].bound = TRUE]]
              /\ waits' = [waits EXCEPT ![t] = n]
              /\ UNCHANGED <<pc, inside>>

Wake(t, g) ==
    /\ waits[t] # 0 /\ Program[pc[t]] = <<"enter", g>> /\ sems[g][waits[t]].free > 0
    /\ sems' = [sems EXCEPT ![g][waits[t]].free = @ - 1]
    /\ inside' = [inside EXCEPT ![t][g] = waits[t]]
    /\ waits' = [waits EXCEPT ![t] = 0]
    /\ pc' = [pc EXCEPT ![t] = After(t)]

Leave(t, g) ==
    /\ pc[t] # 0 /\ Program[pc[t]] = <<"leave", g>>
    /\ sems' = [sems EXCEPT ![g][inside[t][g]].free = @ + 1]
    /\ inside' = [inside EXCEPT ![t][g] = 0]
    /\ pc' = [pc EXCEPT ![t] = After(t)]
    /\ UNCHANGED waits

\* No table to describe, or no chunk to embed.
Skip(t, g) ==
    /\ g \in {"table", "embed"} /\ pc[t] # 0
    /\ Program[pc[t]] = <<"enter", g>> /\ waits[t] = 0
    /\ pc' = [pc EXCEPT ![t] = IF g = "embed" THEN 0 ELSE pc[t] + 2]
    /\ UNCHANGED <<sems, inside, waits>>

\* An error or the processing timeout leaves every async with.
Abort(t) ==
    /\ pc[t] # 0
    /\ sems' = [g \in Gates |-> IF inside[t][g] = 0 THEN sems[g]
                                ELSE [sems[g] EXCEPT ![inside[t][g]].free = @ + 1]]
    /\ inside' = [inside EXCEPT ![t] = [g \in Gates |-> 0]]
    /\ waits' = [waits EXCEPT ![t] = 0]
    /\ pc' = [pc EXCEPT ![t] = 0]

GatesNext ==
    \E t \in Tasks :
      \/ StartDocument(t)
      \/ \E g \in Gates : Enter(t, g) \/ Wake(t, g) \/ Leave(t, g) \/ Skip(t, g)
      \/ Abort(t)

GatesSpec == GatesInit /\ [][GatesNext]_gates

-----------------------------------------------------------------------------
(* What the code says of itself *)

\* concurrency.py: the semaphores cap the parsing and the embedding "so that
\* parallel documents cannot saturate threads or upstream services".
GatesAreCapped ==
    \A g \in Gates : Cardinality({t \in Tasks : inside[t][g] # 0}) <= Limit[g]

=============================================================================
