----------------------------- MODULE AgentGraph -----------------------------
(***************************************************************************)
(* One chat request: the stream of events the client gets and the graph of *)
(* agent nodes that runs beside it as a task of its own.  Every call of a  *)
(* language model may give any answer of its schema or fail; what is found *)
(* and answered is abstracted to whether it is empty and which retrieval   *)
(* it comes from.  The stream is what the client gets: chat_stream_ndjson  *)
(* inside chat_stream_with_usage, which adds events of its own.            *)
(***************************************************************************)
EXTENDS Integers, Sequences, SequencesExt

CONSTANTS
    Nothing,
    AgentMaxRetries,      \* settings.agent_max_retries
    RetrievalMaxRetries   \* settings.retrieval_max_retries

Routes == {"structural", "semantic", "hybrid"}

\* Under the headings a plan names, and by the meaning of the question.
Ways == {"sections", "meaning"}

Nodes == {"guardrail", "router", "retrieve", "vision", "retrieval_judge", "answerer",
          "judge", "bump_attempts", "reject"}
Ended == {"end", "raised", "cancelled"}
Texts == {"empty", "text", "refusal"}
Events == {"error", "stage", "content", "limit_reached", "meta", "usage"}
JudgeVerdicts == {"pass", "retry", "reject"}

ASSUME RetryAssumption ==
    /\ AgentMaxRetries \in Nat /\ RetrievalMaxRetries \in Nat
    /\ Nothing \notin Nodes \union Ended \union Routes \union JudgeVerdicts

VARIABLES
    stream,   \* where the generator of the events is
    sent,     \* events yielded so far
    counted,  \* words of the answer were counted
    node,     \* the node the graph runs next, or how it ended
    plan,     \* the router's plan, and whether it names headings
    attempts, retrievalAttempts, sufficient, gap,
    found,    \* retrieved: whether it has entries, and an unanalysed image
    answer,   \* the answer, and the retrieval it is made from
    verdict,  \* the verdict of the judge, and the answer's retrieval
    steps,    \* history: nodes executed
    searched, \* history: the ways the last retrieval searched
    tried     \* history: those of the attempt before, and of its plan

graph == <<plan, attempts, retrievalAttempts, sufficient, gap, found, answer, verdict>>
events == <<stream, sent, counted>>
history == <<steps, searched, tried>>
vars == <<events, node, graph, history>>

TypeOK ==
    /\ stream \in {"check", "start", "wait", "content", "limit", "meta", "usage", "closed"}
    /\ sent \in Seq(Events) /\ counted \in BOOLEAN
    /\ node \in Nodes \union Ended \union {Nothing}
    /\ plan \in [route : Routes \union {Nothing}, sections : BOOLEAN, vision : BOOLEAN]
    /\ attempts \in 0..AgentMaxRetries
    /\ retrievalAttempts \in Nat /\ steps \in Nat
    /\ sufficient \in BOOLEAN /\ gap \in BOOLEAN
    /\ found \in [any : BOOLEAN, image : BOOLEAN]
    /\ answer \in [text : Texts, from : Nat]
    /\ verdict \in [verdict : JudgeVerdicts \union {Nothing}, of : Nat]
    /\ searched \subseteq Ways
    /\ tried \in [ways : SUBSET Ways, sections : BOOLEAN]

Init ==
    /\ stream = "check" /\ sent = <<>> /\ counted = FALSE /\ node = Nothing
    /\ plan = [route |-> Nothing, sections |-> FALSE, vision |-> FALSE]
    /\ attempts = 0 /\ retrievalAttempts = 0 /\ sufficient = TRUE /\ gap = FALSE
    /\ found = [any |-> FALSE, image |-> FALSE]
    /\ answer = [text |-> "empty", from |-> 0]
    /\ verdict = [verdict |-> Nothing, of |-> 0]
    /\ steps = 0 /\ searched = {} /\ tried = [ways |-> {}, sections |-> FALSE]

-----------------------------------------------------------------------------
(* Edges *)

RetrievalCap == IF RetrievalMaxRetries > 1 THEN RetrievalMaxRetries ELSE 1

\* After the retrieval: a plan that needs vision or a high-scoring image.
AfterRetrieve(p, f) == IF p.vision \/ f.image THEN "vision" ELSE "retrieval_judge"

AfterRetrievalJudge(enough) ==
    IF ~enough /\ retrievalAttempts < RetrievalCap THEN "retrieve" ELSE "answerer"

AfterJudge(v) == IF v = "retry" /\ attempts < AgentMaxRetries THEN "bump_attempts" ELSE "end"

\* Most nodes a run of the graph executes.
StepBound == 4 + 3 * RetrievalCap + 7 * AgentMaxRetries

\* The history of nodes is counted up to one more than the bound.
Run(n) ==
    /\ node = n
    /\ steps' = IF steps <= StepBound THEN steps + 1 ELSE steps
    /\ UNCHANGED events

-----------------------------------------------------------------------------
(* Nodes *)

\* A classifier that fails allows.
Guardrail ==
    /\ Run("guardrail")
    /\ node' \in {"router", "reject"}
    /\ UNCHANGED <<graph, searched, tried>>

Reject ==
    /\ Run("reject")
    /\ answer' = [text |-> "refusal", from |-> 0]
    /\ node' = "end"
    /\ UNCHANGED <<plan, attempts, retrievalAttempts, sufficient, gap, found, verdict, searched, tried>>

\* Mutant of Chosen: the route of the round before is forgotten.
ChosenAgain(route, sections) ==
    IF route = "structural" /\ ~sections THEN "semantic" ELSE route

\* A route already tried becomes hybrid, a structural one without sections
\* semantic.
Chosen(route, sections) ==
    LET other == IF attempts > 0 /\ route = plan.route THEN "hybrid" ELSE route IN
    IF other = "structural" /\ ~sections THEN "semantic" ELSE other

\* The model's plan, at the second try, or the fallback's.
Router ==
    \E route \in Routes, sections, vision \in BOOLEAN :
      /\ Run("router")
      /\ plan' = [route |-> Chosen(route, sections), sections |-> sections, vision |-> vision]
      /\ tried' = [ways |-> searched, sections |-> plan.sections]
      /\ node' = "retrieve"
      /\ UNCHANGED <<attempts, retrievalAttempts, sufficient, gap, found, answer, verdict, searched>>

\* What a plan searches: too few excerpts under the headings of a structural
\* plan are augmented by a semantic search, and a hybrid one that names no
\* headings is left with the semantic half.
WaysOf(p, few) ==
    (IF p.route # "semantic" /\ p.sections THEN {"sections"} ELSE {})
      \union (IF p.route = "structural" /\ ~few THEN {} ELSE {"meaning"})

\* Mutant of Retrieve: the retrieval is not counted.
RetrieveUncounted ==
    \E any, image, few \in BOOLEAN :
      /\ Run("retrieve")
      /\ image => any
      /\ searched' = WaysOf(plan, few)
      /\ found' = [any |-> any, image |-> image]
      /\ node' = AfterRetrieve(plan, found')
      /\ UNCHANGED <<plan, attempts, retrievalAttempts, sufficient, gap, answer, verdict, tried>>

\* Enough excerpts under the headings are some excerpts.
Retrieve ==
    \E any, image, few \in BOOLEAN :
      /\ Run("retrieve")
      /\ image => any
      /\ plan.route = "structural" /\ ~any => few
      /\ searched' = WaysOf(plan, few)
      /\ found' = [any |-> any, image |-> image]
      /\ retrievalAttempts' = retrievalAttempts + 1
      /\ node' = AfterRetrieve(plan, found')
      /\ UNCHANGED <<plan, attempts, sufficient, gap, answer, verdict, tried>>

\* Analyses, if there are any, are appended to what was retrieved.
Vision ==
    /\ Run("vision")
    /\ \E analysed \in BOOLEAN : found' = [found EXCEPT !.any = @ \/ analysed]
    /\ node' = "retrieval_judge"
    /\ UNCHANGED <<plan, attempts, retrievalAttempts, sufficient, gap, answer, verdict, searched, tried>>

\* The verdict on the excerpts: what the filters or the model say, unless the
\* retrievals are used up or nothing was found.
Verdicts ==
    IF retrievalAttempts >= RetrievalCap THEN {[enough |-> TRUE, gap |-> FALSE]}
    ELSE IF ~found.any THEN {[enough |-> FALSE, gap |-> TRUE]}
    ELSE {[enough |-> TRUE, gap |-> FALSE], [enough |-> FALSE, gap |-> TRUE]}

RetrievalJudge ==
    \E v \in Verdicts :
      /\ Run("retrieval_judge")
      /\ sufficient' = v.enough /\ gap' = v.gap
      /\ node' = AfterRetrievalJudge(v.enough)
      /\ UNCHANGED <<plan, attempts, retrievalAttempts, found, answer, verdict, searched, tried>>

\* An answerer that fails or runs out of time answers with what it has.
Answerer ==
    /\ Run("answerer")
    /\ \E text \in {"empty", "text"} : answer' = [text |-> text, from |-> retrievalAttempts]
    /\ node' = "judge"
    /\ UNCHANGED <<plan, attempts, retrievalAttempts, sufficient, gap, found, verdict, searched, tried>>

\* A judge that fails passes; a retry is passed when the answer is not
\* grounded or the attempts are used up.
Judge ==
    \E v \in {"pass", "reject"} \union (IF attempts < AgentMaxRetries THEN {"retry"} ELSE {}) :
      /\ Run("judge")
      /\ verdict' = [verdict |-> v, of |-> answer.from]
      /\ node' = AfterJudge(v)
      /\ UNCHANGED <<plan, attempts, retrievalAttempts, sufficient, gap, found, answer, searched, tried>>

BumpAttempts ==
    /\ Run("bump_attempts")
    /\ attempts' = attempts + 1
    /\ node' = "router"
    /\ UNCHANGED <<plan, retrievalAttempts, sufficient, gap, found, answer, verdict, searched, tried>>

\* A node raises where nothing catches it: a model that is not configured, a
\* database or an embedding service that does not answer.
NodeRaises ==
    /\ node \in {"guardrail", "router", "retrieve", "answerer", "judge"}
    /\ node' = "raised"
    /\ UNCHANGED <<events, graph, history>>

GraphStep ==
    \/ Guardrail \/ Reject \/ Router \/ Retrieve \/ Vision
    \/ RetrievalJudge \/ Answerer \/ Judge \/ BumpAttempts

-----------------------------------------------------------------------------
(* The stream *)

Yield(event, next) == sent' = Append(sent, event) /\ stream' = next

\* A document in scope is unknown, failed or not ready.
NotReady ==
    /\ stream = "check"
    /\ Yield("error", "closed")
    /\ UNCHANGED <<node, graph, history, counted>>

\* The graph becomes a task and the first event is sent.
StartGraph ==
    /\ stream = "check"
    /\ node' = "guardrail"
    /\ Yield("stage", "start")
    /\ UNCHANGED <<graph, history, counted>>

AwaitGraph ==
    /\ stream = "start"
    /\ stream' = "wait"
    /\ UNCHANGED <<sent, node, graph, history, counted>>

\* Mutant of GraphTimeout: what there is by then is sent.
AnswerAtTimeout ==
    /\ stream = "wait" /\ node \notin Ended
    /\ node' = "cancelled"
    /\ stream' = "content"
    /\ UNCHANGED <<sent, graph, history, counted>>

\* wait_for gives up after 300 s and cancels the task.
GraphTimeout ==
    /\ stream = "wait" /\ node \notin Ended
    /\ node' = "cancelled"
    /\ Yield("error", "closed")
    /\ UNCHANGED <<graph, history, counted>>

\* Mutant of GraphFailed: no return after the error event.
FailedGoesOn ==
    /\ stream = "wait" /\ node = "raised"
    /\ Yield("error", "content")
    /\ UNCHANGED <<node, graph, history, counted>>

GraphFailed ==
    /\ stream = "wait" /\ node = "raised"
    /\ Yield("error", "closed")
    /\ UNCHANGED <<node, graph, history, counted>>

GraphDone ==
    /\ stream = "wait" /\ node = "end"
    /\ stream' = "content"
    /\ UNCHANGED <<sent, node, graph, history, counted>>

\* What an answer counts: no word, some, or all that the day had left.
Counts == {"blank", "some", "limit"}

\* The final answer, when there is one, in one event.
Content ==
    /\ stream = "content"
    /\ IF answer.text = "empty"
         THEN stream' = "meta" /\ UNCHANGED <<sent, counted>>
         ELSE \E words \in Counts :
                /\ answer.text = "refusal" => words # "blank"
                /\ counted' = (words # "blank")
                /\ Yield("content", IF words = "limit" THEN "limit" ELSE "meta")
    /\ UNCHANGED <<node, graph, history>>

\* The wrapper speaks before the next event of the stream inside.
LimitReached ==
    /\ stream = "limit"
    /\ Yield("limit_reached", "meta")
    /\ UNCHANGED <<node, graph, history, counted>>

\* The trace is saved, whether that works or not, and the last event of the
\* stream inside sent.
Meta ==
    /\ stream = "meta"
    /\ Yield("meta", IF counted THEN "usage" ELSE "closed")
    /\ UNCHANGED <<node, graph, history, counted>>

\* What the answer cost, last. The meter itself is UsageMetering's.
Usage ==
    /\ stream = "usage"
    /\ Yield("usage", "closed")
    /\ UNCHANGED <<node, graph, history, counted>>

\* The client goes away.  Cancelling wait_for cancels the task; a generator
\* closed at its first event leaves the task running.
Disconnect ==
    /\ stream \in {"start", "wait", "content", "limit", "meta", "usage"}
    /\ stream' = "closed"
    /\ node' = IF stream = "wait" /\ node \notin Ended THEN "cancelled" ELSE node
    /\ UNCHANGED <<sent, graph, history, counted>>

StreamStep ==
    \/ StartGraph \/ AwaitGraph \/ GraphFailed \/ GraphDone
    \/ Content \/ LimitReached \/ Meta \/ Usage

Next == GraphStep \/ NodeRaises \/ StreamStep \/ NotReady \/ GraphTimeout \/ Disconnect

Spec == Init /\ [][Next]_vars

\* Nodes and generator run on; no timeout is needed for the graph to end.
ChatFairness == WF_vars(GraphStep) /\ WF_vars(StreamStep \/ NotReady)

FairSpec == Spec /\ ChatFairness

-----------------------------------------------------------------------------
(* Properties *)

\* The answer that is sent is the last one, from the last retrieval, and the
\* judge has seen it - or it is the refusal of a query that was never looked up.
SentAnswerWasJudged ==
    "content" \in ToSet(sent) =>
      \/ answer.text = "refusal" /\ retrievalAttempts = 0
      \/ /\ answer.from = retrievalAttempts /\ verdict.of = retrievalAttempts
         /\ verdict.verdict \in {"pass", "reject"} /\ sufficient /\ ~gap

\* A retry searches in other ways than the attempt that failed, unless that
\* one searched in all ways already, or one of the two plans names no headings,
\* which leaves the search by meaning, and that is the one that failed.
RetryChangesTheSearch ==
    attempts > 0 /\ node \in {"vision", "retrieval_judge", "answerer", "judge"} =>
      \/ searched # tried.ways
      \/ tried.ways = Ways
      \/ tried.ways = {"meaning"} /\ ~(plan.sections /\ tried.sections)

\* The client sees at most one answer and none beside an error; an error is
\* the last event; the meta event is followed by nothing but the usage of an
\* answer that was sent, and a limit that is reached directly follows the
\* answer that reaches it.
StreamIsWellFormed ==
    /\ \A i, j \in DOMAIN sent : sent[i] = "content" /\ sent[j] \in {"content", "error"} => i = j
    /\ \A i \in DOMAIN sent :
         /\ sent[i] \in {"error", "usage"} => i = Len(sent)
         /\ sent[i] = "meta" => i = Len(sent) \/ sent[i + 1] = "usage"
         /\ sent[i] = "usage" => sent[i - 1] = "meta" /\ "content" \in ToSet(sent)
         /\ sent[i] = "limit_reached" => sent[i - 1] = "content"

\* The graph of a chat ends, whatever its models answer and even if nobody
\* waits for it any more, and within a number of nodes that the default retry
\* settings keep below the 25 at which the graph library gives up (17): the two
\* retry loops share a counter of retrievals that the outer one never resets.
GraphEnds == stream = "start" ~> node \in Ended /\ steps <= StepBound

=============================================================================
