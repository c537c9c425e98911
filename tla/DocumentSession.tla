-------------------------- MODULE DocumentSession --------------------------
(***************************************************************************)
(* The browser's DocumentSessionService: the documents open as tabs, how   *)
(* they are opened and uploaded, and the polling of their status.          *)
(* JavaScript runs one callback at a time; an action is what runs between  *)
(* two awaits, so requests of the server, timers and clicks interleave.    *)
(***************************************************************************)
EXTENDS Integers, Sequences, SequencesExt

CONSTANTS
    Null,
    Remote,     \* documents of the user's library
    Uploads,    \* ids the server gives to uploaded files, each once
    MaxFiles,   \* bound: the files of one upload
    MaxClicks   \* bound: what the user does

Docs == Remote \union Uploads

\* done stands for every one of TERMINAL_STATUSES.
Statuses == {"processing", "done"}

\* A call of uploadPdfsFromFiles: how many files it has not come to, and
\* whether one of the others was uploaded.
UploadCall == [append : BOOLEAN, files : 0..MaxFiles, uploaded : BOOLEAN]

ASSUME SessionAssumption ==
    /\ MaxFiles \in Nat /\ MaxClicks \in Nat
    /\ Remote \intersect Uploads = {}
    /\ Null \notin Docs \union Statuses

VARIABLES
    server,    \* the status the server gives of each document
    open,      \* openDocuments
    active,    \* activeDocumentId
    uploading, activeRemoteOpenId,
    opens,     \* openRemotePdf calls in progress, a bag
    uploads,   \* uploadPdfsFromFiles calls in progress, a bag
    polls,     \* rounds of status requests in flight, a bag: what was known then
    timer,     \* statusPollTimer is set
    leaked,    \* timers set and no longer referred to
    clicks,    \* user actions so far
    overlapped \* history: documents opened twice at the same time

polling == <<polls, timer, leaked>>
loading == <<uploading, activeRemoteOpenId, opens, uploads, overlapped>>
tabs == <<server, open, active, polling, loading, clicks>>

Terminal(status) == status = "done"

Pending(docs) == {docs[i].id : i \in {j \in DOMAIN docs : ~Terminal(docs[j].status)}}
Ids(docs) == {docs[i].id : i \in DOMAIN docs}

TabsTypeOK ==
    /\ server \in [Docs -> Statuses \union {Null}]
    /\ open \in Seq([id : Docs, status : Statuses])
    /\ active \in Docs \union {Null}
    /\ uploading \in BOOLEAN
    /\ activeRemoteOpenId \in Remote \union {Null}
    /\ IsABag(opens) /\ BagToSet(opens) \subseteq [id : Remote, append : BOOLEAN]
    /\ IsABag(uploads) /\ BagToSet(uploads) \subseteq UploadCall
    /\ IsABag(polls) /\ \A round \in BagToSet(polls) : DOMAIN round \subseteq Docs
    /\ timer \in BOOLEAN /\ leaked \in Nat /\ clicks \in 0..MaxClicks /\ overlapped \subseteq Remote

TabsInit ==
    /\ server \in {f \in [Docs -> Statuses \union {Null}] :
                     \A d \in Docs : f[d] = Null <=> d \notin Remote}
    /\ open = <<>> /\ active = Null
    /\ uploading = FALSE /\ activeRemoteOpenId = Null /\ opens = EmptyBag /\ uploads = EmptyBag
    /\ polls = EmptyBag /\ timer = FALSE /\ leaked = 0
    /\ clicks = 0 /\ overlapped = {}

Click == clicks < MaxClicks /\ clicks' = clicks + 1

-----------------------------------------------------------------------------
(* Status polling *)

\* One round of requests for the documents that are not done.
Ask(docs, known) ==
    polls' = IF Pending(docs) = {} THEN polls
             ELSE polls (+) SetToBag({[d \in Pending(docs) |-> known[d]]})

\* startStatusPolling: what is in flight stays in flight.
StartPolling(docs, known) == Ask(docs, known) /\ timer' = FALSE /\ UNCHANGED leaked

\* Mutant of Answered: an error replaces the status.
AnsweredByError(docs, answers) ==
    [i \in DOMAIN docs |->
       IF docs[i].id \in DOMAIN answers
         THEN [docs[i] EXCEPT !.status = answers[docs[i].id]] ELSE docs[i]]

\* Mutant of Answered: by position in the list instead of by document.
AnsweredByPosition(docs, answers) ==
    [i \in DOMAIN docs |->
       IF i = 1 /\ \E d \in DOMAIN answers : answers[d] # Null
         THEN [docs[i] EXCEPT !.status =
                 answers[CHOOSE d \in DOMAIN answers : answers[d] # Null]]
         ELSE docs[i]]

\* The answers are written to the first entry of each document; an error is
\* no answer.  Answers may be as old as the request.
Answered(docs, answers) ==
    [i \in DOMAIN docs |->
       IF docs[i].id \in DOMAIN answers /\ answers[docs[i].id] # Null
          /\ \A j \in 1..(i - 1) : docs[j].id # docs[i].id
         THEN [docs[i] EXCEPT !.status = answers[docs[i].id]] ELSE docs[i]]

\* The round ends: polling stops when all open documents are done, else the
\* next round is due, whether or not another one is.
PollAnswers(round, answers) ==
    /\ open' = Answered(open, answers)
    /\ polls' = polls (-) SetToBag({round})
    /\ IF Pending(open') = {}
         THEN timer' = FALSE /\ UNCHANGED leaked
         ELSE timer' = TRUE /\ leaked' = IF timer THEN leaked + 1 ELSE leaked
    /\ UNCHANGED <<server, active, loading, clicks>>

Poll(round) ==
    \E answers \in [DOMAIN round -> Statuses \union {Null}] :
      /\ \A d \in DOMAIN answers : answers[d] \in {round[d], server[d], Null}
      /\ PollAnswers(round, answers)

\* A round in which every request is answered as of now.
FreshPoll(round) == PollAnswers(round, [d \in DOMAIN round |-> server[d]])

TimerFires ==
    /\ \/ timer /\ timer' = FALSE /\ UNCHANGED leaked
       \/ leaked > 0 /\ leaked' = leaked - 1 /\ UNCHANGED timer
    /\ Ask(open, server)
    /\ UNCHANGED <<server, open, active, loading, clicks>>

-----------------------------------------------------------------------------
(* Opening and closing documents *)

\* Mutant of OpenRemote: the open documents are not looked at.
OpenRemoteBlindly(d, append) ==
    /\ Click /\ (uploading => append \in {TRUE, open # <<>>})
    /\ uploading' = TRUE /\ activeRemoteOpenId' = d
    /\ opens' = opens (+) SetToBag({[id |-> d, append |-> append]})
    /\ overlapped' = IF \E op \in BagToSet(opens) : op.id = d THEN overlapped \union {d} ELSE overlapped
    /\ UNCHANGED <<active, uploads, server, open, polling>>

\* openRemotePdf up to its first await.  The lists look at uploading first;
\* the dialog, which appends when documents are open, does not.
OpenRemote(d, append) ==
    /\ Click
    /\ uploading => append \in {TRUE, open # <<>>}
    /\ IF append /\ d \in Ids(open)
         THEN active' = d /\ UNCHANGED loading
         ELSE /\ uploading' = TRUE /\ activeRemoteOpenId' = d
              /\ opens' = opens (+) SetToBag({[id |-> d, append |-> append]})
              /\ overlapped' = IF \E op \in BagToSet(opens) : op.id = d THEN overlapped \union {d} ELSE overlapped
              /\ UNCHANGED <<active, uploads>>
    /\ UNCHANGED <<server, open, polling>>

\* finally of openRemotePdf
OpenEnds(op) ==
    /\ opens' = opens (-) SetToBag({op})
    /\ uploading' = FALSE
    /\ activeRemoteOpenId' = IF activeRemoteOpenId = op.id THEN Null ELSE activeRemoteOpenId
    /\ UNCHANGED <<uploads, overlapped>>

\* The file is there, its status too or not.
Opened(op) ==
    LET entry(status) == [id |-> op.id, status |-> status] IN
    /\ \E status \in {server[op.id], "processing"} :
         open' = IF op.append /\ open # <<>> THEN Append(open, entry(status)) ELSE <<entry(status)>>
    /\ active' = op.id
    /\ StartPolling(open', server)
    /\ OpenEnds(op)
    /\ UNCHANGED <<server, clicks>>

OpenFails(op) ==
    /\ OpenEnds(op)
    /\ UNCHANGED <<server, open, active, polling, clicks>>

\* The callers append when documents are open; the batch page always does.
\* Nothing keeps a call from starting while others run: only one button does.
StartUpload ==
    /\ Click
    /\ \E append \in {TRUE, open # <<>>}, n \in 1..MaxFiles :
         uploads' = uploads (+) SetToBag({[append |-> append, files |-> n, uploaded |-> FALSE]})
    /\ uploading' = TRUE /\ activeRemoteOpenId' = Null
    /\ UNCHANGED <<server, open, active, polling, opens, overlapped>>

\* A call is done with its next file.
NextFile(call, uploaded) ==
    /\ call.files > 0
    /\ uploads' = (uploads (-) SetToBag({call}))
                    (+) SetToBag({[call EXCEPT !.files = @ - 1, !.uploaded = uploaded]})

\* The server keeps the file under a fresh id. The first file of a call that
\* does not append replaces the open documents.
UploadFile(call) ==
    LET kept == call.append \/ call.uploaded IN
    /\ NextFile(call, TRUE)
    /\ \E d \in Uploads :
         /\ server[d] = Null
         /\ server' = [server EXCEPT ![d] = "processing"]
         /\ open' = Append(IF kept THEN open ELSE <<>>, [id |-> d, status |-> "processing"])
         /\ active' = d
    /\ timer' = (kept /\ timer)
    /\ UNCHANGED <<polls, leaked, uploading, activeRemoteOpenId, opens, overlapped, clicks>>

\* Refused by the server, too large, or unreadable: the next file follows.
UploadFileFails(call) ==
    /\ NextFile(call, call.uploaded)
    /\ UNCHANGED <<server, open, active, polling, uploading, activeRemoteOpenId,
                   opens, overlapped, clicks>>

\* Mutant of UploadEnds: the chain that polls is expected to run already.
UploadEndsQuietly(call) ==
    /\ call.files = 0
    /\ uploads' = uploads (-) SetToBag({call}) /\ uploading' = FALSE
    /\ UNCHANGED <<server, open, active, polling, activeRemoteOpenId, opens,
                   overlapped, clicks>>

\* uploading becomes false even if another call runs on.
UploadEnds(call) ==
    /\ call.files = 0
    /\ IF call.uploaded THEN StartPolling(open, server) ELSE UNCHANGED polling
    /\ uploads' = uploads (-) SetToBag({call}) /\ uploading' = FALSE
    /\ UNCHANGED <<server, open, active, activeRemoteOpenId, opens, overlapped, clicks>>

UploadStep ==
    \E call \in BagToSet(uploads) : UploadFile(call) \/ UploadFileFails(call) \/ UploadEnds(call)

ClearSession ==
    /\ Click
    /\ timer' = FALSE /\ UNCHANGED <<polls, leaked>>
    /\ open' = <<>> /\ active' = Null
    /\ activeRemoteOpenId' = Null /\ UNCHANGED <<uploading, opens, uploads, overlapped>>
    /\ UNCHANGED server

RemoveOpenDocument(d) ==
    /\ Click /\ d \in Ids(open)
    /\ open' = RemoveAt(open, SelectInSeq(open, LAMBDA o : o.id = d))
    /\ active' = IF open' = <<>> THEN Null ELSE IF active = d THEN open'[1].id ELSE active
    /\ UNCHANGED <<server, polling, loading>>

\* A tab, or a source of an answer in an open document.
SelectDocument(d) ==
    /\ Click /\ d \in Ids(open)
    /\ active' = d
    /\ UNCHANGED <<server, open, polling, loading>>

ServerFinishes(d) ==
    /\ server[d] = "processing"
    /\ server' = [server EXCEPT ![d] = "done"]
    /\ UNCHANGED <<open, active, polling, loading, clicks>>

TabsNext ==
    \/ \E round \in BagToSet(polls) : Poll(round)
    \/ TimerFires
    \/ \E d \in Remote, append \in BOOLEAN : OpenRemote(d, append)
    \/ \E op \in BagToSet(opens) : Opened(op) \/ OpenFails(op)
    \/ StartUpload
    \/ UploadStep
    \/ ClearSession
    \/ \E d \in Docs : RemoveOpenDocument(d) \/ SelectDocument(d) \/ ServerFinishes(d)

TabsSpec == TabsInit /\ [][TabsNext]_tabs

\* Timers fire, uploads end, and requests of the status keep being answered.
TabsFairness ==
    /\ WF_tabs(TimerFires)
    /\ WF_tabs(UploadStep)
    /\ WF_tabs(\E round \in BagToSet(polls) : Poll(round))
    /\ SF_tabs(\E round \in BagToSet(polls) : FreshPoll(round))

-----------------------------------------------------------------------------
(* Properties *)

\* While a document is open and not done, somebody asks for its status: a
\* request or a timer is on its way, or an upload that will start one. Uploads
\* overlap each other and the opening of documents; each may stop the timer or
\* replace the documents another one is waiting to poll.
PendingIsPolled ==
    Pending(open) # {} =>
      polls # EmptyBag \/ timer \/ leaked > 0 \/ \E call \in BagToSet(uploads) : call.uploaded

\* A document is open twice only if it was being opened twice at once, which
\* the check at the start of openRemotePdf does not see.
TwiceOnlyByOverlap ==
    \A i, j \in DOMAIN open : i # j /\ open[i].id = open[j].id => open[i].id \in overlapped

\* What the server says of a finished document reaches its tab, whatever
\* rounds of polling overlap, unless the document is open twice.
StatusReachesTheTab ==
    LET pending(d) == \E i \in DOMAIN open : open[i] = [id |-> d, status |-> "processing"] IN
    \A d \in Docs :
      (server[d] = "done" /\ pending(d)) ~> (~pending(d) \/ d \in overlapped)

=============================================================================
