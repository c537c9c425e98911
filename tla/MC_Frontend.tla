----------------------------- MODULE MC_Frontend ----------------------------
(* What a reader of documents meets, each part on its own: the tabs of the   *)
(* browser, over a library of two documents, one of them done, and over      *)
(* uploads of several files at once; its questions and answers; the PDF     *)
(* viewer, given two documents in turn, one of them damaged; the session and *)
(* the billing status of two users of one browser; and one question inside   *)
(* the API, as its client sees it.                                           *)
EXTENDS DocumentSession, Conversation, PdfViewer, BrowserAccount, AgentGraph

CONSTANTS d1, d2, u1, u2, v1, v2, Parts

VARIABLE part

MCUsers == {v1, v2}

MCInit ==
    /\ part \in Parts
    /\ TabsInit
    /\ \A d \in Remote :
         server[d] = IF part = "uploads" \/ d = d2 THEN "done" ELSE "processing"
    /\ ConversationInit
    /\ ViewerInit
    /\ AccountInit /\ token # v2    \* the two users are alike
    /\ Init

\* The library with at most one upload, and calls of one file.
WithLibrary == server'[u2] = Null /\ \A call \in BagToSet(uploads') : call.files <= 1

\* Uploads alone, of one or two files.
WithoutLibrary == opens' = EmptyBag

MCNext ==
    /\ UNCHANGED part
    /\ \/ /\ part = "tabs" /\ TabsNext /\ WithLibrary
          /\ UNCHANGED <<conversation, viewer, account, vars>>
       \/ /\ part = "uploads" /\ TabsNext /\ WithoutLibrary
          /\ UNCHANGED <<conversation, viewer, account, vars>>
       \/ part = "conversation" /\ ConversationNext /\ UNCHANGED <<tabs, viewer, account, vars>>
       \/ part = "viewer" /\ ViewerNext /\ UNCHANGED <<tabs, conversation, account, vars>>
       \/ part = "account" /\ AccountNext /\ UNCHANGED <<tabs, conversation, viewer, vars>>
       \/ part = "chat" /\ Next /\ UNCHANGED <<tabs, conversation, viewer, account>>

\* The fairness of the tabs asks nothing while another part runs, that of the
\* chat (ChatFairness) would.
MCSpec ==
    /\ MCInit /\ [][MCNext]_<<part, tabs, conversation, viewer, account, vars>>
    /\ TabsFairness
    /\ WF_vars(part = "chat" /\ GraphStep)
    /\ WF_vars(part = "chat" /\ (StreamStep \/ NotReady))

\* Every part's variables keep their types.
ReaderTypeOK == TabsTypeOK /\ ConversationTypeOK /\ ViewerTypeOK /\ AccountTypeOK /\ TypeOK

=============================================================================
