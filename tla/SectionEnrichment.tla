-------------------------- MODULE SectionEnrichment --------------------------
(***************************************************************************)
(* Summaries and keywords of the sections of one document, by a language   *)
(* model (processing/metadata.py, build_enrichment). The sections are      *)
(* packed into groups and each group is one concurrent call; OpenRouter    *)
(* gets a second try, and when no group of it answers the whole document   *)
(* goes to Ollama in batches. What no answer names is filled in from the   *)
(* text of the section or, without text, from its title.                   *)
(*                                                                         *)
(* An answer is the set of sections it names, its own or others', and      *)
(* whether what it says of them is blank; a malformed one has keywords     *)
(* that are no list.                                                       *)
(***************************************************************************)
EXTENDS Integers, Sequences, FiniteSets, SequencesExt

CONSTANTS
    MaxSections,   \* bound
    BodySizes,     \* tokens of a section's text, 0 without text
    TokenBudget,   \* metadata_openrouter_input_token_budget
    MaxPerGroup,   \* metadata_openrouter_max_sections_per_chunk
    BatchSize,     \* metadata_ollama_batch_size
    CallLimit,     \* metadata_concurrency
    NoAnswer

ASSUME EnrichmentAssumption ==
    /\ MaxSections \in Nat /\ BodySizes \subseteq Nat
    /\ {TokenBudget, MaxPerGroup, BatchSize, CallLimit} \subseteq Nat \ {0}

VARIABLES
    bodies,     \* the sections of walk_sections, by the size of their text
    provider,
    groups,     \* chunks or batches
    calls,      \* of each group: where its call is
    answers,    \* of each group
    index,      \* the index of sections that results
    enStep

enrichment == <<bodies, provider, groups, calls, answers, index, enStep>>

Tries == 2
Named == SUBSET DOMAIN bodies
GoodAnswers == [named : Named, blank : BOOLEAN, malformed : {FALSE}]
Malformed == [named |-> {}, blank |-> FALSE, malformed |-> TRUE]

EnrichmentTypeOK ==
    /\ provider \in {"openrouter", "ollama"}
    /\ \A g \in DOMAIN groups : Range(groups[g]) \subseteq DOMAIN bodies
    /\ calls \in [DOMAIN groups -> {"waiting", "first", "second", "ended"}]
    /\ answers \in [DOMAIN groups -> GoodAnswers \union {NoAnswer, Malformed}]
    /\ enStep \in {"pack", "calls", "done", "raised"}

EnrichmentInit ==
    /\ bodies \in UNION {[1..n -> BodySizes] : n \in 0..MaxSections}
    /\ provider \in {"openrouter", "ollama"}
    /\ groups = <<>> /\ calls = <<>> /\ answers = <<>> /\ index = <<>> /\ enStep = "pack"

Positions(seq) == [i \in DOMAIN seq |-> i]
Size(group) == FoldLeft(LAMBDA n, s : n + bodies[s], 0, group)

\* pack_section_chunks: everything in one prompt when it fits, else sections
\* are added to a group as long as it stays within the budget; a section that
\* is too large on its own still gets a group.
Fits(group) == Size(group) <= TokenBudget /\ Len(group) <= MaxPerGroup
Packed ==
    IF Fits(Positions(bodies)) THEN <<Positions(bodies)>>
    ELSE FoldLeft(LAMBDA gs, s :
                      IF gs # <<>> /\ Fits(Append(Last(gs), s))
                      THEN Append(Front(gs), Append(Last(gs), s))
                      ELSE Append(gs, <<s>>),
                  <<>>, Positions(bodies))

\* build_sections_index cuts them by number.
Batches ==
    [b \in 1..((Len(bodies) + BatchSize - 1) \div BatchSize) |->
        SubSeq(Positions(bodies), (b - 1) * BatchSize + 1,
               IF b * BatchSize < Len(bodies) THEN b * BatchSize ELSE Len(bodies))]

CallAll(gs) ==
    /\ groups' = gs
    /\ calls' = [g \in DOMAIN gs |-> "waiting"]
    /\ answers' = [g \in DOMAIN gs |-> NoAnswer]

Pack ==
    /\ enStep = "pack"
    /\ IF bodies = <<>> THEN enStep' = "done" /\ UNCHANGED <<groups, calls, answers>>
       ELSE enStep' = "calls" /\ CallAll(IF provider = "openrouter" THEN Packed ELSE Batches)
    /\ UNCHANGED <<bodies, provider, index>>

(* ------------------------------- the calls ------------------------------ *)
Running == {g \in DOMAIN calls : calls[g] \in {"first", "second"}}

\* Ollama is not asked about a batch that has no text at all.
Start(g) ==
    /\ enStep = "calls" /\ calls[g] = "waiting" /\ Cardinality(Running) < CallLimit
    /\ calls' = [calls EXCEPT ![g] = IF provider = "ollama" /\ Size(groups[g]) = 0
                                     THEN "ended" ELSE "first"]
    /\ UNCHANGED <<bodies, provider, groups, answers, index, enStep>>

Answer(g, a) ==
    /\ enStep = "calls" /\ g \in Running
    /\ calls' = [calls EXCEPT ![g] = "ended"]
    /\ answers' = [answers EXCEPT ![g] = a]
    /\ UNCHANGED <<bodies, provider, groups, index, enStep>>

\* No JSON: one repair-retry, with OpenRouter. A call that raises is not retried.
NoJson(g) ==
    /\ enStep = "calls" /\ g \in Running
    /\ calls' = [calls EXCEPT ![g] =
                    IF provider = "openrouter" /\ calls[g] = "first" THEN "second" ELSE "ended"]
    /\ UNCHANGED <<bodies, provider, groups, answers, index, enStep>>

CallRaises(g) ==
    /\ enStep = "calls" /\ g \in Running /\ provider = "openrouter"
    /\ calls' = [calls EXCEPT ![g] = "ended"]
    /\ UNCHANGED <<bodies, provider, groups, answers, index, enStep>>

(* ------------------------- the index of sections ------------------------ *)
FromText(s) == [by |-> 0, says |-> IF bodies[s] > 0 THEN "text" ELSE "title"]
From(g) == [by |-> g, says |-> IF answers[g].blank THEN "nothing" ELSE "summary"]
Answered == {g \in DOMAIN groups : answers[g] # NoAnswer}

\* Mutant of MergedByOpenRouter: the first answer that names a section is kept
MergedByFirstAnswer ==
    FoldLeft(LAMBDA known, g :
                 [s \in DOMAIN bodies |->
                     IF g \in Answered /\ s \in answers[g].named /\ known[s].by = 0 THEN From(g) ELSE known[s]],
             [s \in DOMAIN bodies |-> FromText(s)], Positions(groups))

\* merge_parsed_openrouter_index: in the order of the groups, a later answer
\* over an earlier one; then the heuristics for sections nobody named.
MergedByOpenRouter ==
    FoldLeft(LAMBDA known, g :
                 IF g \notin Answered THEN known
                 ELSE [s \in DOMAIN bodies |-> IF s \in answers[g].named THEN From(g) ELSE known[s]],
             [s \in DOMAIN bodies |-> FromText(s)], Positions(groups))

\* enrich_batch fills in its own sections before the batches are merged, and
\* takes no blank entry.
MergedByOllama ==
    FoldLeft(LAMBDA known, g :
                 [s \in DOMAIN bodies |->
                     IF g \in Answered /\ s \in answers[g].named /\ ~answers[g].blank THEN From(g)
                     ELSE IF s \in Range(groups[g]) THEN FromText(s) ELSE known[s]],
             [s \in DOMAIN bodies |-> FromText(s)], Positions(groups))

AllEnded == enStep = "calls" /\ \A g \in DOMAIN calls : calls[g] = "ended"

FallBack ==
    /\ AllEnded /\ provider = "openrouter" /\ Answered = {}
    /\ provider' = "ollama" /\ CallAll(Batches)
    /\ UNCHANGED <<bodies, index, enStep>>

\* One malformed answer raises out of the merge and ends the enrichment.
Gather ==
    /\ AllEnded /\ (provider = "ollama" \/ Answered # {})
    /\ IF Malformed \in Range(answers) THEN enStep' = "raised" /\ UNCHANGED index
       ELSE /\ enStep' = "done"
            /\ index' = IF provider = "openrouter" THEN MergedByOpenRouter ELSE MergedByOllama
    /\ UNCHANGED <<bodies, provider, groups, calls, answers>>

CallStep(g) ==
    \/ Start(g) \/ NoJson(g) \/ CallRaises(g)
    \/ \E a \in GoodAnswers \union {Malformed} : Answer(g, a)

EnrichmentNext ==
    \/ Pack
    \/ \E g \in DOMAIN groups : CallStep(g)
    \/ FallBack
    \/ Gather

EnrichmentSpec == EnrichmentInit /\ [][EnrichmentNext]_enrichment

(* ------------------------------ Properties ------------------------------ *)
GroupOf(s) == CHOOSE g \in DOMAIN groups : s \in Range(groups[g])

\* The groups are the sections in their order, cut into pieces that respect
\* the budget (pack_section_chunks, build_sections_index). The index has the
\* entry of the last group in that order that names a section, however the
\* calls overlapped, and an entry made from the section itself only when no
\* answer names it; with Ollama a batch also prevails over what earlier
\* batches said of its sections.
IndexFollowsTheGroups ==
    /\ groups # <<>> => FlattenSeq(groups) = Positions(bodies)
    /\ provider = "openrouter" => \A g \in DOMAIN groups : Fits(groups[g]) \/ Len(groups[g]) = 1
    /\ enStep = "done" => DOMAIN index = DOMAIN bodies /\ \A s \in DOMAIN index :
        LET naming == {g \in Answered : s \in answers[g].named
                          /\ (provider = "ollama" => g >= GroupOf(s) /\ ~answers[g].blank)}
        IN index[s] = IF naming = {} THEN FromText(s)
                      ELSE From(CHOOSE g \in naming : \A h \in naming : h <= g)

=============================================================================
