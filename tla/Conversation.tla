---------------------------- MODULE Conversation ----------------------------
(***************************************************************************)
(* The conversation of the browser's DocumentSessionService: questions,    *)
(* the answers streamed to them and the trust report of each answer.  The  *)
(* session, its documents and messages may be replaced while an answer is  *)
(* streaming; the handlers of the stream still write where it began.       *)
(***************************************************************************)
EXTENDS Integers, Sequences, FiniteSetsExt

CONSTANTS
    NoChat,
    MaxQuestions,    \* bound: questions asked
    MaxReplacements  \* bound: sessions replaced

Messages == [chat : 1..MaxQuestions, role : {"user", "assistant"}, text : 0..MaxQuestions]

Chats == [n : 1..MaxQuestions, index : 2..(2 * MaxQuestions), pc : {"asked", "answered", "meta"}]

ASSUME ConversationAssumption ==
    MaxQuestions \in Nat /\ MaxReplacements \in Nat /\ NoChat \notin Chats

VARIABLES
    messages,
    messageMeta,  \* index of a message |-> the question its report is for
    chat,         \* the runStreamingChat in progress, or NoChat
    sending,
    asked,        \* questions so far; they number the chats
    replaced      \* sessions replaced so far

conversation == <<messages, messageMeta, chat, sending, asked, replaced>>

ConversationTypeOK ==
    /\ messages \in Seq(Messages)
    /\ messageMeta \in [DOMAIN messageMeta -> 1..MaxQuestions]
    /\ chat \in Chats \union {NoChat}
    /\ sending \in BOOLEAN
    /\ asked \in 0..MaxQuestions /\ replaced \in 0..MaxReplacements

ConversationInit ==
    /\ messages = <<>> /\ messageMeta = <<>> /\ chat = NoChat /\ sending = FALSE
    /\ asked = 0 /\ replaced = 0

-----------------------------------------------------------------------------
(* What happens to the session *)

Replace == replaced < MaxReplacements /\ replaced' = replaced + 1 /\ messages' = <<>>

\* clearSession, and openRemotePdf of a document that is not appended.
NewSession ==
    /\ Replace
    /\ messageMeta' = <<>>
    /\ UNCHANGED <<chat, sending, asked>>

\* uploadPdfsFromFiles without append: the reports stay.
NewSessionByUpload ==
    /\ Replace
    /\ UNCHANGED <<messageMeta, chat, sending, asked>>

-----------------------------------------------------------------------------
(* Questions and answers *)

\* send and the start of runStreamingChat; the documents in scope are ready.
Send ==
    /\ ~sending /\ asked < MaxQuestions
    /\ asked' = asked + 1
    /\ messages' = messages \o <<[chat |-> asked', role |-> "user", text |-> asked'],
                                 [chat |-> asked', role |-> "assistant", text |-> 0]>>
    /\ chat' = [n |-> asked', index |-> Len(messages'), pc |-> "asked"]
    /\ sending' = TRUE
    /\ UNCHANGED <<messageMeta, replaced>>

Finish == chat' = NoChat /\ sending' = FALSE

\* splice(first, count): what is removed is what is there.
Spliced(seq, first, count) ==
    SubSeq(seq, 1, Min({first - 1, Len(seq)})) \o SubSeq(seq, first + count, Len(seq))

\* Mutant of ChatThrows: the answer is removed and its question stays.
ChatThrowsHalf ==
    /\ chat # NoChat
    /\ messages' = Spliced(messages, chat.index, 1)
    /\ Finish
    /\ UNCHANGED <<messageMeta, asked, replaced>>

\* The request fails, the stream brings an error or a handler raises: the
\* question and its answer are removed from where they were.
ChatThrows ==
    /\ chat # NoChat
    /\ messages' = Spliced(messages, chat.index - 1, 2)
    /\ Finish
    /\ UNCHANGED <<messageMeta, asked, replaced>>

\* onDelta reads the message it appends to: without it the handler raises.
Delta ==
    /\ chat # NoChat /\ chat.pc = "asked" /\ chat.index \in DOMAIN messages
    /\ messages' = [messages EXCEPT ![chat.index] = [@ EXCEPT !.role = "assistant", !.text = chat.n]]
    /\ chat' = [chat EXCEPT !.pc = "answered"]
    /\ UNCHANGED <<messageMeta, sending, asked, replaced>>

\* Mutant of MetaArrives: a message that has a report keeps it.
MetaArrivesOnce ==
    /\ chat # NoChat /\ chat.pc \in {"asked", "answered"}
    /\ messageMeta' = [i \in DOMAIN messageMeta \union {chat.index} |->
                         IF i \in DOMAIN messageMeta THEN messageMeta[i] ELSE chat.n]
    /\ chat' = [chat EXCEPT !.pc = "meta"]
    /\ UNCHANGED <<messages, sending, asked, replaced>>

\* onMeta needs no message, and comes without an answer when that is empty.
MetaArrives ==
    /\ chat # NoChat /\ chat.pc \in {"asked", "answered"}
    /\ messageMeta' = [i \in DOMAIN messageMeta \union {chat.index} |->
                         IF i = chat.index THEN chat.n ELSE messageMeta[i]]
    /\ chat' = [chat EXCEPT !.pc = "meta"]
    /\ UNCHANGED <<messages, sending, asked, replaced>>

StreamEnds ==
    /\ chat # NoChat /\ chat.pc = "meta"
    /\ Finish
    /\ UNCHANGED <<messages, messageMeta, asked, replaced>>

ConversationNext ==
    \/ NewSession
    \/ NewSessionByUpload
    \/ Send
    \/ Delta
    \/ MetaArrives
    \/ StreamEnds
    \/ ChatThrows

ConversationSpec == ConversationInit /\ [][ConversationNext]_conversation

-----------------------------------------------------------------------------
(* Properties *)

\* However sessions are replaced while an answer streams in, the conversation
\* is questions each followed by its own answer.  Only the one that is
\* streaming and one whose empty answer was reported on have no text.
AnswersFollowTheirQuestions ==
    /\ Len(messages) % 2 = 0
    /\ \A k \in 1..(Len(messages) \div 2) :
         LET question == messages[2 * k - 1]
             reply == messages[2 * k] IN
         /\ question.role = "user" /\ reply.role = "assistant" /\ question.chat = reply.chat
         /\ reply.text \in {0, question.chat}
         /\ reply.text = 0 =>
              \/ sending /\ chat.n = question.chat
              \/ 2 * k \in DOMAIN messageMeta /\ messageMeta[2 * k] = question.chat

\* When no answer is streaming, the trust report shown under an answer is the
\* one made for it, although reports outlive the messages they were for.
TrustBelongsToItsAnswer ==
    ~sending => \A i \in DOMAIN messages \intersect DOMAIN messageMeta :
                  messageMeta[i] = messages[i].chat

=============================================================================
