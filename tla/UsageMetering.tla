--------------------------- MODULE UsageMetering ---------------------------
(***************************************************************************)
(* Uploads and chats of one user against the daily quotas of the plan.     *)
(* Every request checks the meter of the day it starts in and adds to the  *)
(* meter of the day it ends in; requests run concurrently.  An upload      *)
(* keeps the connection of its session, taken from the pool at the check,  *)
(* until its last commit, and takes a second one for each transaction in   *)
(* between.  A limit below 0 is no limit.                                  *)
(***************************************************************************)
EXTENDS Integers, FiniteSets, FiniteSetsExt

CONSTANTS
    Null,
    Requests,                               \* requests of the user, one each
    WordsPerDay, UploadsPerDay, BytesPerDay, \* limits of the plan
    PoolSize,                               \* connections of the engine
    Sizes, Answers,                         \* file sizes, words of an answer
    LastDay,                                \* bound: midnights
    MaxFails                                \* bound: statements that raise

ASSUME PlanAssumption ==
    /\ Null \notin Int /\ IsFiniteSet(Requests) /\ PoolSize \in Nat \ {0}
    /\ {WordsPerDay, UploadsPerDay, BytesPerDay} \subseteq Int
    /\ Sizes \subseteq Nat \ {0} /\ Answers \subseteq Nat
    /\ LastDay \in Nat /\ MaxFails \in Nat

VARIABLES
    meter,   \* usage_meters: the user's row of each day
    today,   \* utc_today()
    req,     \* the requests
    wrote,   \* what each upload has left in the storage and the database
    fails,
    peak     \* history: most requests that were in progress at once

vars == <<meter, today, req, wrote, fails, peak>>

Days == 0..LastDay
UploadHolds == {"save", "status", "owner", "meter"}
Waiting == {"check", "status", "owner", "record"}
Ended == {"answered", "recorded", "refused", "failed"}

New == [pc |-> "new", kind |-> Null, size |-> 0, used |-> 0, words |-> 0, shown |-> Null]

Meters == [words : Nat, uploads : Nat, bytes : Nat]

RequestStates ==
    [pc : {"new", "check", "stream", "usage", "record"} \union UploadHolds \union Ended,
     kind : {"upload", "chat", Null}, size : Sizes \union {0},
     used : Nat, words : Nat, shown : Nat \union {Null}]

TypeOK ==
    /\ meter \in [Days -> Meters]
    /\ today \in Days
    /\ req \in [Requests -> RequestStates]
    /\ wrote \in [Requests -> SUBSET {"blob", "row", "owner"}]
    /\ fails \in 0..MaxFails
    /\ peak \in 0..Cardinality(Requests)

Init ==
    /\ meter = [d \in Days |-> [words |-> 0, uploads |-> 0, bytes |-> 0]]
    /\ today = 0
    /\ req = [r \in Requests |-> New]
    /\ wrote = [r \in Requests |-> {}]
    /\ fails = 0
    /\ peak = 0

-----------------------------------------------------------------------------
(* Quotas *)

Unlimited(limit) == limit < 0

\* check_word_quota
WordsLeft(usage) == Unlimited(WordsPerDay) \/ usage.words < WordsPerDay

\* Mutant of UploadLeft: off by one.
UploadLeftOffByOne(usage, extra) ==
    /\ Unlimited(UploadsPerDay) \/ usage.uploads <= UploadsPerDay
    /\ Unlimited(BytesPerDay) \/ usage.bytes + extra <= BytesPerDay

\* check_upload_quota
UploadLeft(usage, extra) ==
    /\ Unlimited(UploadsPerDay) \/ usage.uploads < UploadsPerDay
    /\ Unlimited(BytesPerDay) \/ usage.bytes + extra <= BytesPerDay

\* The words of an answer that are metered: no more than the quota had left
\* when the request was checked.
Counted(words, used) ==
    IF Unlimited(WordsPerDay) THEN words ELSE Min({words, Max({0, WordsPerDay - used})})

\* Mutant of Add: read, add and write back.
AddToSnapshot(r, words, uploads, bytes) ==
    meter' = [meter EXCEPT ![today].words = IF words > 0 THEN req[r].used + words ELSE @,
                           ![today].uploads = @ + uploads,
                           ![today].bytes = @ + bytes]

\* UsageMeterRepository.increment: one upsert, added to what the row holds.
Add(r, words, uploads, bytes) ==
    meter' = [meter EXCEPT ![today].words = @ + words,
                           ![today].uploads = @ + uploads,
                           ![today].bytes = @ + bytes]

-----------------------------------------------------------------------------
(* Requests *)

Goto(r, pc) == req' = [req EXCEPT ![r].pc = pc]

\* The request is over; nothing of it is needed any more.
End(r, pc) == req' = [req EXCEPT ![r] = [New EXCEPT !.pc = pc]]

InProgress == {r \in Requests : req[r].pc \notin Ended \union {"new"}}

\* A pooled connection nobody holds.
ConnectionFree ==
    Cardinality({r \in Requests : req[r].kind = "upload" /\ req[r].pc \in UploadHolds}) < PoolSize

Arrive(r, kind, size) ==
    /\ req[r].pc = "new"
    /\ req' = [req EXCEPT ![r] = [New EXCEPT !.pc = "check", !.kind = kind, !.size = size]]
    /\ peak' = Max({peak, Cardinality(InProgress) + 1})
    /\ UNCHANGED <<meter, today, wrote, fails>>

\* Not a PDF, too large, too many files in scope, documents not ready.
RefusedOtherwise(r) ==
    /\ req[r].pc = "check" /\ ConnectionFree
    /\ End(r, "refused")
    /\ UNCHANGED <<meter, today, wrote, fails, peak>>

UploadCheck(r) ==
    /\ req[r].pc = "check" /\ req[r].kind = "upload" /\ ConnectionFree
    /\ IF UploadLeft(meter[today], req[r].size) THEN Goto(r, "save") ELSE End(r, "refused")
    /\ UNCHANGED <<meter, today, wrote, fails, peak>>

\* put_source_pdf_bytes
SavePdf(r) ==
    /\ req[r].pc = "save"
    /\ wrote' = [wrote EXCEPT ![r] = @ \union {"blob"}]
    /\ Goto(r, "status")
    /\ UNCHANGED <<meter, today, fails, peak>>

\* set_status(queued), in a transaction of its own
QueueRow(r) ==
    /\ req[r].pc = "status" /\ ConnectionFree
    /\ wrote' = [wrote EXCEPT ![r] = @ \union {"row"}]
    /\ Goto(r, "owner")
    /\ UNCHANGED <<meter, today, fails, peak>>

\* _record_user_upload, in a transaction of its own
RecordOwner(r) ==
    /\ req[r].pc = "owner" /\ ConnectionFree
    /\ wrote' = [wrote EXCEPT ![r] = @ \union {"owner"}]
    /\ Goto(r, "meter")
    /\ UNCHANGED <<meter, today, fails, peak>>

\* The increment in the session of the request, its commit and the answer.
MeterUpload(r) ==
    /\ req[r].pc = "meter"
    /\ Add(r, 0, 1, req[r].size)
    /\ Goto(r, "answered")
    /\ UNCHANGED <<today, wrote, fails, peak>>

ChatCheck(r) ==
    /\ req[r].pc = "check" /\ req[r].kind = "chat" /\ ConnectionFree
    /\ IF WordsLeft(meter[today])
         THEN req' = [req EXCEPT ![r].pc = "stream", ![r].used = meter[today].words]
         ELSE End(r, "refused")
    /\ UNCHANGED <<meter, today, wrote, fails, peak>>

\* The one content event of the stream; with no words nothing is recorded.
Answer(r, words) ==
    /\ req[r].pc = "stream"
    /\ req' = [req EXCEPT ![r].words = Counted(words, req[r].used),
                          ![r].pc = IF words = 0 THEN "answered" ELSE "usage"]
    /\ UNCHANGED <<meter, today, wrote, fails, peak>>

\* The usage event that ends the stream.
ShowUsage(r) ==
    /\ req[r].pc = "usage"
    /\ req' = [req EXCEPT ![r].pc = "record", ![r].shown = req[r].used + req[r].words]
    /\ UNCHANGED <<meter, today, wrote, fails, peak>>

\* The client goes away.  The finally of a generator that is collected later
\* runs and records; one that is cancelled inside an await does not.
Disconnect(r) ==
    /\ req[r].pc \in {"stream", "usage", "record"}
    /\ \/ req[r].pc = "usage" /\ Goto(r, "record")
       \/ End(r, "failed")
    /\ UNCHANGED <<meter, today, wrote, fails, peak>>

\* _record_word_usage
RecordWords(r) ==
    /\ req[r].pc = "record" /\ ConnectionFree
    /\ Add(r, req[r].words, 0, 0)
    /\ req' = [req EXCEPT ![r].pc = "recorded", ![r].used = 0, ![r].shown = Null]
    /\ UNCHANGED <<today, wrote, fails, peak>>

\* Mutant of PoolTimeout: only the first connection is waited for in vain.
PoolTimeoutOfCheck(r) ==
    /\ req[r].pc \in {"check", "record"} /\ ~ConnectionFree
    /\ End(r, "failed")
    /\ UNCHANGED <<meter, today, wrote, fails, peak>>

\* No connection becomes free within the pool's timeout.
PoolTimeout(r) ==
    /\ req[r].pc \in Waiting /\ ~ConnectionFree
    /\ End(r, "failed")
    /\ UNCHANGED <<meter, today, wrote, fails, peak>>

\* A statement or the storage raises; the request's own transaction rolls back.
Fail(r) ==
    /\ r \in InProgress /\ fails < MaxFails
    /\ fails' = fails + 1
    /\ End(r, "failed")
    /\ UNCHANGED <<meter, today, wrote, peak>>

Midnight ==
    /\ today < LastDay
    /\ today' = today + 1
    /\ UNCHANGED <<meter, req, wrote, fails, peak>>

Steps(r) ==
    \/ UploadCheck(r)
    \/ SavePdf(r)
    \/ QueueRow(r)
    \/ RecordOwner(r)
    \/ MeterUpload(r)
    \/ ChatCheck(r)
    \/ \E words \in Answers : Answer(r, words)
    \/ ShowUsage(r)
    \/ RecordWords(r)
    \/ PoolTimeout(r)

Next ==
    \/ \E r \in Requests :
         \/ \E size \in Sizes : Arrive(r, "upload", size)
         \/ Arrive(r, "chat", 0)
         \/ Steps(r)
         \/ RefusedOtherwise(r)
         \/ Disconnect(r)
         \/ Fail(r)
    \/ Midnight

Spec == Init /\ [][Next]_vars

\* A request runs on, and waits no longer than the pool lets it.
MeteringFairness == \A r \in Requests : WF_vars(Steps(r))

FairSpec == Spec /\ MeteringFairness

-----------------------------------------------------------------------------
(* Properties *)

Total(field(_)) == MapThenSumSet(LAMBDA d : field(meter[d]), Days)

\* Whatever the requests do concurrently, the quota of a day is overrun by no
\* more than what the others in progress were each allowed at their check: a
\* user with one request at a time never exceeds it.
OverrunIsBoundedByOverlap ==
    peak > 0 => \A d \in Days :
      /\ Unlimited(WordsPerDay) \/ meter[d].words <= peak * WordsPerDay
      /\ Unlimited(UploadsPerDay) \/ meter[d].uploads <= UploadsPerDay + peak - 1
      /\ Unlimited(BytesPerDay) \/ meter[d].bytes <= peak * BytesPerDay

\* An upload that is metered is stored, queued and listed.
MeteredIsStored ==
    \A r \in Requests :
      req[r].pc = "answered" /\ req[r].kind = "upload" => wrote[r] = {"blob", "row", "owner"}

\* Concurrent increments lose nothing, across midnight too: the meters add up
\* to exactly what the finished requests counted.
MetersAddUp ==
    LET finished(pc) == {r \in Requests : req[r].pc = pc}
        uploaded == {r \in finished("answered") : req[r].kind = "upload"} IN
    /\ Total(LAMBDA m : m.words) = MapThenSumSet(LAMBDA r : req[r].words, finished("recorded"))
    /\ MeteredIsStored
    /\ Total(LAMBDA m : m.uploads) = Cardinality(uploaded)
    /\ Total(LAMBDA m : m.bytes) = MapThenSumSet(LAMBDA r : req[r].size, uploaded)

\* Every request ends (each is made once, so in the end none is in progress),
\* even when uploads hold all connections of the pool and each waits for one
\* more.
EveryRequestEnds == <>[](InProgress = {})

-----------------------------------------------------------------------------
(* What the code says of itself, and concurrent requests break *)

\* enforcement.py: what the usage event shows and what the meter holds after
\* the write "can never drift".
ShownIsPersisted ==
    [][\A r \in Requests :
         req'[r].pc = "recorded" /\ req[r].pc = "record" /\ req[r].shown # Null
           => meter'[today].words = req[r].shown]_vars

=============================================================================
