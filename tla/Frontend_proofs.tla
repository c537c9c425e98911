-------------------------- MODULE Frontend_proofs --------------------------
(***************************************************************************)
(* What the browser guarantees, for any library, uploads, questions, users *)
(* and documents and any number of clicks, requests and loads: answers     *)
(* stand beside their questions and their trust reports, open documents    *)
(* are asked about until they are done, a document has one tab unless      *)
(* calls overlapped, the account on show is that of the reader, and the    *)
(* viewer shows the document given to it last.                             *)
(* And what it is sent, for any retry settings: the answer of a chat       *)
(* request was judged, a retry searches differently, the stream is well    *)
(* formed, and the graph runs no more nodes than a bound that is linear in *)
(* the settings.                                                           *)
(***************************************************************************)
EXTENDS MC_Frontend, SequenceTheorems, WellFoundedInduction, TLAPS

-----------------------------------------------------------------------------
(* The conversation: inductive invariant *)

\* A question is in progress where its answer is the last message, unless the
\* session was replaced meanwhile and has no messages yet.
ChatInv ==
    /\ sending <=> chat # NoChat
    /\ Len(messages) <= 2 * asked
    /\ chat # NoChat /\ messages # <<>> =>
         /\ chat.index = Len(messages) /\ messages[chat.index].chat = chat.n
         /\ chat.pc = "meta" => chat.index \in DOMAIN messageMeta /\ messageMeta[chat.index] = chat.n

\* Questions stand before their answers, by twos.
TurnsInv ==
    /\ Len(messages) % 2 = 0
    /\ \A i \in DOMAIN messages : i % 2 = 0 =>
         /\ messages[i - 1].role = "user" /\ messages[i].role = "assistant"
         /\ messages[i - 1].chat = messages[i].chat
         /\ messages[i].text \in {0, messages[i].chat}
         /\ messages[i].text = 0 =>
              \/ chat # NoChat /\ i = chat.index
              \/ i \in DOMAIN messageMeta /\ messageMeta[i] = messages[i].chat

\* Reports are of answers.  One that was left by an earlier message stands
\* where the answer in progress is, and only until its own comes.
ReportsInv ==
    /\ chat # NoChat => chat.index % 2 = 0
    /\ \A i \in DOMAIN messageMeta : i \in Int /\ i % 2 = 0
    /\ \A i \in DOMAIN messages \intersect DOMAIN messageMeta :
         \/ messageMeta[i] = messages[i].chat
         \/ chat # NoChat /\ i = chat.index /\ chat.pc # "meta"

ConversationInv == ConversationTypeOK /\ ChatInv /\ TurnsInv /\ ReportsInv

USE ConversationAssumption DEF ConversationAssumption

LEMMA ConversationTypes ==
    ASSUME ConversationTypeOK
    PROVE  /\ messages \in Seq(Messages) /\ Len(messages) \in Nat /\ DOMAIN messages = 1..Len(messages)
           /\ \A i \in DOMAIN messages : messages[i] \in Messages
           /\ chat # NoChat => chat \in Chats
           /\ asked \in 0..MaxQuestions /\ replaced \in 0..MaxReplacements /\ sending \in BOOLEAN
           /\ messageMeta \in [DOMAIN messageMeta -> 1..MaxQuestions]
  BY DEF ConversationTypeOK

LEMMA EvenPlaces ==
    ASSUME NEW n \in Nat, n % 2 = 0, NEW i \in 1..(n + 2), i % 2 = 0
    PROVE  /\ i \in 1..n \/ i = n + 2
           /\ i - 1 \in 1..(n + 1)
  OBVIOUS

LEMMA MinOfTwo ==
    ASSUME NEW a \in Int, NEW b \in Int, a <= b
    PROVE  Min({a, b}) = a
<1>1. \A x \in {a, b} : (\A y \in {a, b} : x <= y) => x = a
  OBVIOUS
<1>2. \E x \in {a, b} : \A y \in {a, b} : x <= y
  OBVIOUS
<1>3. Min({a, b}) \in {a, b} /\ \A y \in {a, b} : Min({a, b}) <= y
  BY <1>2 DEF Min
<1> QED
  BY <1>1, <1>3

\* The splice of a question and its answer removes the last two messages, and
\* nothing where there is none.
LEMMA SpliceOfNone ==
    ASSUME NEW first \in Nat \ {0}
    PROVE  Spliced(<<>>, first, 2) = <<>>
<1>1. Min({first - 1, Len(<<>>)}) = 0
  <2>1. {first - 1, Len(<<>>)} = {0, first - 1}
    OBVIOUS
  <2> QED
    BY <2>1, MinOfTwo
<1>2. SubSeq(<<>>, 1, 0) = <<>> /\ SubSeq(<<>>, first + 2, Len(<<>>)) = <<>>
  OBVIOUS
<1> QED
  BY <1>1, <1>2 DEF Spliced

LEMMA SpliceOfLast ==
    ASSUME NEW s \in Seq(Messages), Len(s) >= 2
    PROVE  /\ Spliced(s, Len(s) - 1, 2) \in Seq(Messages)
           /\ Len(Spliced(s, Len(s) - 1, 2)) = Len(s) - 2
           /\ \A i \in 1..(Len(s) - 2) : Spliced(s, Len(s) - 1, 2)[i] = s[i]
<1> DEFINE before == SubSeq(s, 1, Len(s) - 2)
           after == SubSeq(s, Len(s) + 1, Len(s))
<1>0. Len(s) \in Nat /\ \A i \in 1..Len(s) : s[i] \in Messages
  OBVIOUS
<1>1. Min({(Len(s) - 1) - 1, Len(s)}) = Len(s) - 2
  BY <1>0, MinOfTwo
<1>2. Spliced(s, Len(s) - 1, 2) = before \o after
  <2>1. (Len(s) - 1) + 2 = Len(s) + 1
    BY <1>0
  <2> QED
    BY <1>1, <2>1 DEF Spliced
<1>3. before \in Seq(Messages) /\ Len(before) = Len(s) - 2 /\ \A i \in 1..(Len(s) - 2) : before[i] = s[i]
  <2>1. \A i \in 1..(Len(s) - 2) : s[i] \in Messages /\ s[1 + i - 1] = s[i]
    BY <1>0
  <2>2. Len(s) - 2 \in Int /\ (Len(s) - 2) - 1 + 1 = Len(s) - 2
    BY <1>0
  <2>3. /\ before \in Seq(Messages) /\ Len(before) = IF 1 <= Len(s) - 2 THEN (Len(s) - 2) - 1 + 1 ELSE 0
        /\ \A i \in 1..((Len(s) - 2) - 1 + 1) : before[i] = s[1 + i - 1]
    BY <2>1, <2>2, SubSeqProperties
  <2> QED
    BY <1>0, <2>1, <2>2, <2>3
<1>4. after \in Seq(Messages) /\ Len(after) = 0
  BY <1>0, SubSeqProperties
<1> HIDE DEF before, after
<1>5. /\ before \o after \in Seq(Messages) /\ Len(before \o after) = Len(s) - 2
      /\ \A i \in 1..(Len(s) - 2) : (before \o after)[i] = before[i]
  BY <1>0, <1>3, <1>4, ConcatProperties
<1> QED
  BY <1>2, <1>3, <1>5

-----------------------------------------------------------------------------
(* The conversation: steps *)

LEMMA ReplacedStep ==
    ASSUME ConversationInv, NewSession \/ NewSessionByUpload
    PROVE  ConversationInv'
<1> USE ConversationTypes DEF ConversationInv
<1>1. /\ messages' = <<>> /\ replaced' \in 0..MaxReplacements
      /\ UNCHANGED <<chat, sending, asked>>
      /\ messageMeta' = <<>> \/ messageMeta' = messageMeta
  BY DEF NewSession, NewSessionByUpload, Replace
<1>2. /\ messageMeta' \in [DOMAIN messageMeta' -> 1..MaxQuestions]
      /\ \A i \in DOMAIN messageMeta' : i \in DOMAIN messageMeta
  <2>1. CASE messageMeta' = messageMeta
    BY <2>1
  <2>2. CASE messageMeta' = <<>>
    BY <2>2
  <2> QED
    BY <1>1, <2>1, <2>2
<1>3. messages' \in Seq(Messages) /\ Len(messages') = 0 /\ DOMAIN messages' = {}
  BY <1>1
<1>4. ConversationTypeOK'
  BY <1>1, <1>2, <1>3 DEF ConversationTypeOK
<1>5. ChatInv' /\ TurnsInv'
  BY <1>1, <1>3 DEF ChatInv, TurnsInv
<1>6. ReportsInv'
  BY <1>1, <1>2, <1>3 DEF ReportsInv
<1> QED
  BY <1>4, <1>5, <1>6

LEMMA SendStep ==
    ASSUME ConversationInv, Send
    PROVE  ConversationInv'
<1> DEFINE question == [chat |-> asked', role |-> "user", text |-> asked']
           reply == [chat |-> asked', role |-> "assistant", text |-> 0]
           added == <<question, reply>>
           size == Len(messages)
<1> USE ConversationTypes DEF ConversationInv
<1>1. /\ ~sending /\ chat = NoChat /\ asked' = asked + 1 /\ asked' \in 1..MaxQuestions
      /\ messages' = messages \o added
      /\ chat' = [n |-> asked', index |-> Len(messages'), pc |-> "asked"]
      /\ sending' = TRUE /\ UNCHANGED <<messageMeta, replaced>>
  BY DEF Send, ChatInv
<1>2. question \in Messages /\ reply \in Messages
  BY <1>1 DEF Messages
<1>3. added \in Seq(Messages) /\ Len(added) = 2 /\ added[1] = question /\ added[2] = reply
  BY <1>2
<1>4. /\ question.chat = asked' /\ question.role = "user"
      /\ reply.chat = asked' /\ reply.role = "assistant" /\ reply.text = 0
  OBVIOUS
<1> HIDE DEF added, question, reply
<1>5. /\ messages' \in Seq(Messages) /\ Len(messages') = size + 2
      /\ \A i \in 1..(size + 2) : messages'[i] = IF i <= size THEN messages[i] ELSE added[i - size]
  <2>1. /\ messages \o added \in Seq(Messages) /\ Len(messages \o added) = Len(messages) + Len(added)
        /\ \A i \in 1..(Len(messages) + Len(added)) :
             (messages \o added)[i] = IF i <= Len(messages) THEN messages[i] ELSE added[i - Len(messages)]
    BY <1>3, ConcatProperties
  <2> QED
    BY <1>1, <1>3, <2>1
<1>6. /\ \A i \in 1..size : messages'[i] = messages[i]
      /\ messages'[size + 1] = question /\ messages'[size + 2] = reply
      /\ DOMAIN messages' = 1..(size + 2)
  <2>1. DOMAIN messages' = 1..(size + 2)
    BY <1>5
  <2>2. /\ 1..size \subseteq 1..(size + 2)
        /\ size + 1 \in 1..(size + 2) /\ ~(size + 1 <= size) /\ (size + 1) - size = 1
        /\ size + 2 \in 1..(size + 2) /\ ~(size + 2 <= size) /\ (size + 2) - size = 2
    OBVIOUS
  <2>3. messages'[size + 1] = added[(size + 1) - size] /\ messages'[size + 2] = added[(size + 2) - size]
    BY <1>5, <2>2
  <2>4. \A i \in 1..size : messages'[i] = messages[i]
    BY <1>5, <2>2
  <2> QED
    BY <1>3, <2>1, <2>2, <2>3, <2>4
<1>7. chat' \in Chats /\ chat'.n = asked' /\ chat'.index = size + 2 /\ chat'.pc = "asked" /\ chat' # NoChat
  <2>1. size + 2 \in 2..(2 * MaxQuestions)
    BY <1>1 DEF ChatInv
  <2> QED
    BY <1>1, <1>5, <2>1 DEF Chats
<1>8. size % 2 = 0 /\ (size + 2) % 2 = 0
  BY DEF TurnsInv
<1>9. ConversationTypeOK'
  BY <1>1, <1>5, <1>7 DEF ConversationTypeOK
<1>10. ChatInv'
  <2>1. messages'[size + 2].chat = asked' /\ Len(messages') <= 2 * asked'
    BY <1>1, <1>4, <1>5, <1>6 DEF ChatInv
  <2> QED
    BY <1>1, <1>5, <1>7, <2>1 DEF ChatInv
<1>11. TurnsInv'
  <2>1. ASSUME NEW i \in 1..size, i % 2 = 0
        PROVE  /\ messages'[i - 1].role = "user" /\ messages'[i].role = "assistant"
               /\ messages'[i - 1].chat = messages'[i].chat
               /\ messages'[i].text \in {0, messages'[i].chat}
               /\ messages'[i].text = 0 => i \in DOMAIN messageMeta /\ messageMeta[i] = messages'[i].chat
    <3>1. i - 1 \in 1..size
      BY <2>1
    <3> QED
      BY <1>1, <1>6, <2>1, <3>1 DEF TurnsInv
  <2>2. ASSUME NEW i \in DOMAIN messages', i % 2 = 0 PROVE i \in 1..size \/ i = size + 2
    BY <1>6, <1>8, <2>2
  <2>3. (size + 2) - 1 = size + 1
    OBVIOUS
  <2>4. /\ messages'[(size + 2) - 1].role = "user" /\ messages'[size + 2].role = "assistant"
        /\ messages'[(size + 2) - 1].chat = messages'[size + 2].chat
        /\ messages'[size + 2].text = 0
    BY <1>4, <1>6, <2>3
  <2>5. ASSUME NEW i \in DOMAIN messages', i % 2 = 0
        PROVE  /\ messages'[i - 1].role = "user" /\ messages'[i].role = "assistant"
               /\ messages'[i - 1].chat = messages'[i].chat
               /\ messages'[i].text \in {0, messages'[i].chat}
               /\ messages'[i].text = 0 =>
                    \/ chat' # NoChat /\ i = chat'.index
                    \/ i \in DOMAIN messageMeta' /\ messageMeta'[i] = messages'[i].chat
    BY <1>1, <1>7, <2>1, <2>2, <2>4, <2>5
  <2> QED
    BY <1>5, <1>8, <2>5 DEF TurnsInv
<1>12. ReportsInv'
  <2>1. chat'.index % 2 = 0
    BY <1>7, <1>8
  <2>2. ASSUME NEW i \in DOMAIN messages' \intersect DOMAIN messageMeta, i # size + 2
        PROVE  messageMeta[i] = messages'[i].chat
    <3>1. i \in 1..(size + 2) /\ i % 2 = 0
      BY <1>6, <2>2 DEF ReportsInv
    <3>2. i \in 1..size
      BY <1>8, <2>2, <3>1, EvenPlaces
    <3> QED
      BY <1>1, <1>6, <2>2, <3>2 DEF ReportsInv
  <2> QED
    BY <1>1, <1>7, <2>1, <2>2 DEF ReportsInv
<1> QED
  BY <1>9, <1>10, <1>11, <1>12

LEMMA DeltaStep ==
    ASSUME ConversationInv, Delta
    PROVE  ConversationInv'
<1> DEFINE k == chat.index
<1> USE ConversationTypes DEF ConversationInv
<1>1. /\ chat \in Chats /\ chat # NoChat /\ k \in DOMAIN messages
      /\ messages' = [messages EXCEPT ![k] = [@ EXCEPT !.role = "assistant", !.text = chat.n]]
      /\ chat' = [chat EXCEPT !.pc = "answered"]
      /\ UNCHANGED <<messageMeta, sending, asked, replaced>>
  BY DEF Delta
<1>2. k = Len(messages) /\ messages[k].chat = chat.n /\ k % 2 = 0
  BY <1>1 DEF ChatInv, ReportsInv
<1>3. chat' \in Chats /\ chat'.n = chat.n /\ chat'.index = k /\ chat'.pc = "answered" /\ chat' # NoChat
  BY <1>1 DEF Chats
<1>4. /\ messages'[k] = [chat |-> chat.n, role |-> "assistant", text |-> chat.n]
      /\ \A i \in DOMAIN messages : i # k => messages'[i] = messages[i]
      /\ DOMAIN messages' = DOMAIN messages
  BY <1>1, <1>2 DEF Messages
<1>5. messages' \in Seq(Messages) /\ Len(messages') = Len(messages)
  <2>1. messages'[k] \in Messages
    <3>1. chat.n \in 1..MaxQuestions /\ chat.n \in 0..MaxQuestions
      BY <1>1 DEF Chats
    <3> QED
      BY <1>4, <3>1 DEF Messages
  <2>2. messages' \in [1..Len(messages) -> Messages]
    BY <1>1, <1>4, <2>1
  <2>3. Len(messages) \in Nat
    OBVIOUS
  <2> QED
    BY <2>2, <2>3, SeqDef
<1>6. /\ messages'[k].chat = chat.n /\ messages'[k].role = "assistant" /\ messages'[k].text = chat.n
      /\ \A i \in DOMAIN messages : messages'[i].chat = messages[i].chat
  BY <1>2, <1>4
<1>7. ConversationTypeOK'
  BY <1>1, <1>3, <1>5 DEF ConversationTypeOK
<1>8. ChatInv'
  BY <1>1, <1>2, <1>3, <1>5, <1>6 DEF ChatInv
<1>9. TurnsInv'
  <2>1. ASSUME NEW i \in DOMAIN messages, i % 2 = 0
        PROVE  /\ messages'[i - 1].role = "user" /\ messages'[i].role = "assistant"
               /\ messages'[i - 1].chat = messages'[i].chat
               /\ messages'[i].text \in {0, messages'[i].chat}
               /\ messages'[i].text = 0 => i = k \/ (i \in DOMAIN messageMeta /\ messageMeta[i] = messages'[i].chat)
    <3>1. i - 1 \in DOMAIN messages /\ i - 1 # k
      BY <1>2, <2>1
    <3>2. messages'[i - 1] = messages[i - 1]
      BY <1>4, <3>1
    <3>3. CASE i = k
      BY <1>6, <2>1, <3>2, <3>3 DEF TurnsInv
    <3>4. CASE i # k
      BY <1>1, <1>4, <2>1, <3>2, <3>4 DEF TurnsInv
    <3> QED
      BY <3>3, <3>4
  <2>2. Len(messages') % 2 = 0
    BY <1>5 DEF TurnsInv
  <2> QED
    BY <1>1, <1>3, <1>4, <2>1, <2>2 DEF TurnsInv
<1>10. ReportsInv'
  BY <1>1, <1>2, <1>3, <1>4, <1>6 DEF ReportsInv
<1> QED
  BY <1>7, <1>8, <1>9, <1>10

\* The report takes the place of whatever an earlier message left there.
LEMMA MetaArrivesStep ==
    ASSUME ConversationInv, MetaArrives
    PROVE  ConversationInv'
<1> DEFINE k == chat.index
<1> USE ConversationTypes DEF ConversationInv
<1>1. /\ chat \in Chats /\ chat # NoChat
      /\ messageMeta' = [i \in DOMAIN messageMeta \union {k} |-> IF i = k THEN chat.n ELSE messageMeta[i]]
      /\ chat' = [chat EXCEPT !.pc = "meta"]
      /\ UNCHANGED <<messages, sending, asked, replaced>>
  BY DEF MetaArrives
<1>2. chat' \in Chats /\ chat'.n = chat.n /\ chat'.index = k /\ chat'.pc = "meta" /\ chat' # NoChat
  BY <1>1 DEF Chats
<1>3. /\ DOMAIN messageMeta' = DOMAIN messageMeta \union {k} /\ messageMeta'[k] = chat.n
      /\ \A i \in DOMAIN messageMeta : i # k => messageMeta'[i] = messageMeta[i]
      /\ messageMeta' \in [DOMAIN messageMeta' -> 1..MaxQuestions]
  BY <1>1 DEF Chats
<1>4. k \in Int /\ k % 2 = 0
  BY <1>1 DEF ReportsInv, Chats
<1>5. ConversationTypeOK'
  BY <1>1, <1>2, <1>3 DEF ConversationTypeOK
<1>6. ChatInv'
  BY <1>1, <1>2, <1>3 DEF ChatInv
<1>7. TurnsInv'
  BY <1>1, <1>2, <1>3 DEF TurnsInv
<1>8. ReportsInv'
  <2>1. ASSUME NEW i \in DOMAIN messages \intersect DOMAIN messageMeta' PROVE messageMeta'[i] = messages[i].chat
    <3>1. CASE i = k
      BY <1>1, <1>3, <2>1, <3>1 DEF ChatInv
    <3>2. CASE i # k
      BY <1>1, <1>3, <2>1, <3>2 DEF ReportsInv
    <3> QED
      BY <3>1, <3>2
  <2>2. \A i \in DOMAIN messageMeta' : i \in Int /\ i % 2 = 0
    BY <1>3, <1>4 DEF ReportsInv
  <2> QED
    BY <1>1, <1>2, <1>4, <2>1, <2>2 DEF ReportsInv
<1> QED
  BY <1>5, <1>6, <1>7, <1>8

LEMMA StreamEndsStep ==
    ASSUME ConversationInv, StreamEnds
    PROVE  ConversationInv'
<1> USE ConversationTypes DEF ConversationInv
<1>1. /\ chat # NoChat /\ chat.pc = "meta" /\ chat' = NoChat /\ sending' = FALSE
      /\ UNCHANGED <<messages, messageMeta, asked, replaced>>
  BY DEF StreamEnds, Finish
<1>2. ConversationTypeOK'
  BY <1>1 DEF ConversationTypeOK
<1>3. ChatInv'
  BY <1>1 DEF ChatInv
<1>4. TurnsInv'
  <2>1. ASSUME NEW i \in DOMAIN messages, i = chat.index
        PROVE  i \in DOMAIN messageMeta /\ messageMeta[i] = messages[i].chat
    BY <1>1, <2>1 DEF ChatInv
  <2> QED
    BY <1>1, <2>1 DEF TurnsInv
<1>5. ReportsInv'
  BY <1>1 DEF ReportsInv
<1> QED
  BY <1>2, <1>3, <1>4, <1>5

LEMMA ChatThrowsStep ==
    ASSUME ConversationInv, ChatThrows
    PROVE  ConversationInv'
<1> USE ConversationTypes DEF ConversationInv
<1>1. /\ chat # NoChat /\ chat \in Chats /\ chat' = NoChat /\ sending' = FALSE
      /\ messages' = Spliced(messages, chat.index - 1, 2)
      /\ UNCHANGED <<messageMeta, asked, replaced>>
  BY DEF ChatThrows, Finish
<1>2. /\ messages' \in Seq(Messages) /\ Len(messages') \in Nat
      /\ Len(messages') % 2 = 0 /\ Len(messages') <= Len(messages)
      /\ \A i \in 1..Len(messages') : messages'[i] = messages[i] /\ i # chat.index
  <2>1. CASE messages = <<>>
    <3>1. messages' = <<>>
      BY <1>1, <2>1, SpliceOfNone DEF Chats
    <3> QED
      BY <2>1, <3>1
  <2>2. CASE messages # <<>>
    <3>1. chat.index = Len(messages) /\ Len(messages) >= 2 /\ Len(messages) % 2 = 0
      BY <1>1, <2>2 DEF ChatInv, TurnsInv, Chats
    <3>2. /\ messages' \in Seq(Messages) /\ Len(messages') = Len(messages) - 2
          /\ \A i \in 1..(Len(messages) - 2) : messages'[i] = messages[i]
      BY <1>1, <3>1, SpliceOfLast
    <3> QED
      BY <3>1, <3>2
  <2> QED
    BY <2>1, <2>2
<1>3. DOMAIN messages' = 1..Len(messages') /\ \A i \in DOMAIN messages' : i \in DOMAIN messages
  <2>1. messages \in Seq(Messages) /\ Len(messages) \in Nat
    BY DEF ConversationTypeOK
  <2> HIDE DEF ConversationInv
  <2>2. DOMAIN messages = 1..Len(messages) /\ DOMAIN messages' = 1..Len(messages')
    BY <1>2, <2>1
  <2>3. 1..Len(messages') \subseteq 1..Len(messages)
    BY <1>2, <2>1
  <2> QED
    BY <2>2, <2>3
<1>4. ConversationTypeOK'
  BY <1>1, <1>2 DEF ConversationTypeOK
<1>5. ChatInv'
  <2>1. Len(messages) <= 2 * asked
    BY DEF ChatInv
  <2>2. asked' = asked
    BY <1>1
  <2>3. Len(messages') <= 2 * asked'
    <3>1. Len(messages) \in Nat /\ asked \in Nat
      OBVIOUS
    <3>2. Len(messages') \in Nat /\ Len(messages') <= Len(messages)
      BY <1>2
    <3> HIDE DEF ConversationInv
    <3> QED
      BY <2>1, <2>2, <3>1, <3>2
  <2> QED
    BY <1>1, <2>3 DEF ChatInv
<1>6. TurnsInv'
  <2>1. ASSUME NEW i \in DOMAIN messages', i % 2 = 0
        PROVE  /\ messages'[i - 1].role = "user" /\ messages'[i].role = "assistant"
               /\ messages'[i - 1].chat = messages'[i].chat
               /\ messages'[i].text \in {0, messages'[i].chat}
               /\ messages'[i].text = 0 => i \in DOMAIN messageMeta /\ messageMeta[i] = messages'[i].chat
    <3>1. i - 1 \in 1..Len(messages')
      BY <1>2, <1>3, <2>1, EvenPlaces
    <3> QED
      BY <1>2, <1>3, <2>1, <3>1 DEF TurnsInv
  <2> QED
    BY <1>1, <1>2, <2>1 DEF TurnsInv
<1>7. ReportsInv'
  BY <1>1, <1>2, <1>3 DEF ReportsInv
<1> QED
  BY <1>4, <1>5, <1>6, <1>7

-----------------------------------------------------------------------------
(* The conversation: theorems *)

\* What the panel rests on, in every conversation: questions, answers and
\* their trust stay in the order they were asked for.
THEOREM ConversationInvariant == ConversationSpec => []ConversationInv
<1>1. ConversationInit => ConversationInv
  <2> SUFFICES ASSUME ConversationInit PROVE ConversationInv
    OBVIOUS
  <2>1. /\ messages = <<>> /\ Len(messages) = 0 /\ DOMAIN messages = {} /\ messages \in Seq(Messages)
        /\ messageMeta = <<>> /\ DOMAIN messageMeta = {} /\ messageMeta \in [DOMAIN messageMeta -> 1..MaxQuestions]
    BY DEF ConversationInit
  <2>2. ConversationTypeOK
    <3>1. chat \in Chats \union {NoChat} /\ sending \in BOOLEAN
      BY DEF ConversationInit
    <3>2. asked \in 0..MaxQuestions /\ replaced \in 0..MaxReplacements
      BY DEF ConversationInit
    <3> QED
      BY <2>1, <3>1, <3>2 DEF ConversationTypeOK
  <2>3. ChatInv
    BY <2>1 DEF ConversationInit, ChatInv
  <2>4. TurnsInv /\ ReportsInv
    BY <2>1 DEF ConversationInit, TurnsInv, ReportsInv
  <2> QED
    BY <2>2, <2>3, <2>4 DEF ConversationInv
<1>2. ConversationInv /\ [ConversationNext]_conversation => ConversationInv'
  <2> SUFFICES ASSUME ConversationInv, [ConversationNext]_conversation PROVE ConversationInv'
    OBVIOUS
  <2>1. CASE NewSession \/ NewSessionByUpload
    BY <2>1, ReplacedStep
  <2>2. CASE Send
    BY <2>2, SendStep
  <2>3. CASE Delta
    BY <2>3, DeltaStep
  <2>4. CASE MetaArrives
    BY <2>4, MetaArrivesStep
  <2>5. CASE StreamEnds
    BY <2>5, StreamEndsStep
  <2>6. CASE ChatThrows
    BY <2>6, ChatThrowsStep
  <2>7. CASE UNCHANGED conversation
    BY <2>7 DEF conversation, ConversationInv, ConversationTypeOK, ChatInv, TurnsInv, ReportsInv
  <2> QED
    BY <2>1, <2>2, <2>3, <2>4, <2>5, <2>6, <2>7 DEF ConversationNext
<1> QED
  BY <1>1, <1>2, PTL DEF ConversationSpec

\* Messages, reports and the question in progress are values the code can
\* hold (DocumentSessionService).
THEOREM ConversationTypeCorrect == ConversationSpec => []ConversationTypeOK
<1>1. ConversationInv => ConversationTypeOK
  BY DEF ConversationInv
<1> QED
  BY <1>1, ConversationInvariant, PTL

\* For any number of questions and replaced sessions: the conversation is
\* questions each followed by its own answer, and only the one that is
\* streaming or one reported on without text is empty (send,
\* runStreamingChat).
THEOREM AnswersFollow == ConversationSpec => []AnswersFollowTheirQuestions
<1>1. ConversationInv => AnswersFollowTheirQuestions
  <2> SUFFICES ASSUME ConversationInv PROVE AnswersFollowTheirQuestions
    OBVIOUS
  <2> USE ConversationTypes DEF ConversationInv
  <2>1. Len(messages) % 2 = 0
    BY DEF TurnsInv
  <2>2. ASSUME NEW k \in 1..(Len(messages) \div 2)
        PROVE  /\ messages[2 * k - 1].role = "user" /\ messages[2 * k].role = "assistant"
               /\ messages[2 * k - 1].chat = messages[2 * k].chat
               /\ messages[2 * k].text \in {0, messages[2 * k - 1].chat}
               /\ messages[2 * k].text = 0 =>
                    \/ sending /\ chat.n = messages[2 * k - 1].chat
                    \/ 2 * k \in DOMAIN messageMeta /\ messageMeta[2 * k] = messages[2 * k - 1].chat
    <3>1. 2 * k \in DOMAIN messages /\ (2 * k) % 2 = 0 /\ messages # <<>>
      BY <2>2
    <3>2. chat # NoChat /\ 2 * k = chat.index => sending /\ chat.n = messages[2 * k].chat
      BY <3>1 DEF ChatInv
    <3> QED
      BY <3>1, <3>2 DEF TurnsInv
  <2> QED
    BY <2>1, <2>2 DEF AnswersFollowTheirQuestions
<1> QED
  BY <1>1, ConversationInvariant, PTL

\* For any number of questions and replaced sessions: with no answer
\* streaming, the report at an answer's place is its own (onMeta,
\* clearSession, uploadPdfsFromFiles).
THEOREM TrustBelongs == ConversationSpec => []TrustBelongsToItsAnswer
<1>1. ConversationInv => TrustBelongsToItsAnswer
  BY DEF ConversationInv, ChatInv, ReportsInv, TrustBelongsToItsAnswer
<1> QED
  BY <1>1, ConversationInvariant, PTL

-----------------------------------------------------------------------------
(* The tabs: inductive invariant *)

Tabs == [id : Docs, status : Statuses]
Opens == [id : Remote, append : BOOLEAN]

\* The documents that have two tabs.
Twice(docs) ==
    {d \in Docs : \E i, j \in DOMAIN docs : i # j /\ docs[i].id = d /\ docs[j].id = d}

\* What is in the library or in a tab is known to the server.
KnownInv == \A d \in Remote \union Ids(open) : server[d] # Null

\* A call that passed the check for an open document finds it open only if
\* another call of the document overlapped.
OpeningInv ==
    \A op \in BagToSet(opens) : op.append /\ op.id \in Ids(open) => op.id \in overlapped

\* Two calls in progress for one document overlap.
OverlapInv ==
    /\ \A op1, op2 \in BagToSet(opens) : op1 # op2 /\ op1.id = op2.id => op1.id \in overlapped
    /\ \A op \in BagToSet(opens) : opens[op] > 1 => op.id \in overlapped

TwiceInv == Twice(open) \subseteq overlapped

TabsInv ==
    /\ TabsTypeOK /\ PendingIsPolled
    /\ KnownInv /\ OpeningInv /\ OverlapInv /\ TwiceInv

HIDE ConversationAssumption DEF ConversationAssumption
USE SessionAssumption DEF SessionAssumption

-----------------------------------------------------------------------------
(* The tabs: bags and lists *)

LEMMA BagAdd ==
    ASSUME NEW b, IsABag(b), NEW x
    PROVE  /\ IsABag(b (+) SetToBag({x}))
           /\ BagToSet(b (+) SetToBag({x})) = BagToSet(b) \union {x}
           /\ \A y \in BagToSet(b) : y # x => (b (+) SetToBag({x}))[y] = b[y]
           /\ x \notin BagToSet(b) => (b (+) SetToBag({x}))[x] = 1
           /\ b (+) SetToBag({x}) # EmptyBag
<1>1. b \in [DOMAIN b -> {n \in Nat : n > 0}]
  BY DEF IsABag
<1> QED
  BY <1>1 DEF IsABag, BagToSet, SetToBag, (+), EmptyBag

LEMMA BagRemove ==
    ASSUME NEW b, IsABag(b), NEW x \in BagToSet(b)
    PROVE  /\ IsABag(b (-) SetToBag({x}))
           /\ BagToSet(b (-) SetToBag({x})) \subseteq BagToSet(b)
           /\ \A y \in BagToSet(b (-) SetToBag({x})) : b[y] \in Nat /\ (b (-) SetToBag({x}))[y] \in Nat
                                                      /\ (b (-) SetToBag({x}))[y] <= b[y]
           /\ x \in BagToSet(b (-) SetToBag({x})) => b[x] > 1
           /\ \A y \in BagToSet(b) : y # x => y \in BagToSet(b (-) SetToBag({x}))
<1>1. b \in [DOMAIN b -> {n \in Nat : n > 0}]
  BY DEF IsABag
<1> DEFINE c == [e \in DOMAIN b |-> IF e \in {x} THEN b[e] - 1 ELSE b[e]]
<1>2. b (-) SetToBag({x}) = [e \in {d \in DOMAIN c : c[d] > 0} |-> c[e]]
  BY DEF SetToBag, (-)
<1> DEFINE r == [e \in {d \in DOMAIN c : c[d] > 0} |-> c[e]]
<1>3. \A y \in DOMAIN r : /\ y \in DOMAIN b /\ r[y] = c[y] /\ c[y] > 0 /\ c[y] \in Nat /\ b[y] \in Nat
                          /\ c[y] <= b[y] /\ (y = x => c[y] = b[y] - 1)
  BY <1>1
<1>4. IsABag(r)
  BY <1>3 DEF IsABag
<1>7. \A y \in DOMAIN b : y # x => y \in DOMAIN r
  BY <1>1
<1> HIDE DEF r, c
<1>5. x \in DOMAIN r => b[x] > 1
  BY <1>3
<1>6. DOMAIN r \subseteq DOMAIN b /\ \A y \in DOMAIN r : b[y] \in Nat /\ r[y] \in Nat /\ r[y] <= b[y]
  BY <1>3
<1> QED
  BY <1>2, <1>4, <1>5, <1>6, <1>7 DEF BagToSet, r

\* A set of natural numbers has a least element.
LEMMA LeastOfNat ==
    ASSUME NEW S \in SUBSET Nat, S # {}
    PROVE  \E x \in S : \A y \in S : x <= y
<1> DEFINE R == {p \in Nat \X Nat : p[1] < p[2]}
<1>1. IsWellFoundedOn(R, Nat)
  BY NatLessThanWellFounded, Zenon DEF OpToRel
<1> HIDE DEF R
<1>2. PICK x \in S : \A y \in S : ~(<<y, x>> \in R)
  BY <1>1, WFMin
<1>3. \A m, n \in Nat : <<m, n>> \in R <=> m < n
  BY DEF R
<1>4. ASSUME NEW y \in S PROVE x <= y
  <2>1. x \in Nat /\ y \in Nat /\ ~(<<y, x>> \in R)
    BY <1>2
  <2>2. ~(y < x)
    BY <1>3, <2>1
  <2> QED
    BY <2>1, <2>2
<1> QED
  BY <1>4

LEMMA NoTabs == Ids(<<>>) = {} /\ Twice(<<>>) = {} /\ Pending(<<>>) = {} /\ <<>> \in Seq(Tabs)
  BY DEF Ids, Twice, Pending

LEMMA AppendTab ==
    ASSUME NEW s \in Seq(Tabs), NEW e \in Tabs
    PROVE  /\ Append(s, e) \in Seq(Tabs)
           /\ Ids(Append(s, e)) = Ids(s) \union {e.id}
           /\ Twice(Append(s, e)) \subseteq Twice(s) \union (Ids(s) \intersect {e.id})
<1> DEFINE t == Append(s, e)
<1>1. /\ t \in Seq(Tabs) /\ DOMAIN t = 1..(Len(s) + 1) /\ DOMAIN s = 1..Len(s) /\ Len(s) \in Nat
      /\ \A i \in DOMAIN s : t[i] = s[i]
      /\ t[Len(s) + 1] = e
  BY AppendProperties
<1> HIDE DEF t
<1>2. Ids(t) = Ids(s) \union {e.id}
  BY <1>1 DEF Ids
<1>3. ASSUME NEW d \in Twice(t) PROVE d \in Twice(s) \union (Ids(s) \intersect {e.id})
  <2>1. PICK i \in DOMAIN t, j \in DOMAIN t : i # j /\ t[i].id = d /\ t[j].id = d
    BY <1>3 DEF Twice
  <2>2. CASE i \in DOMAIN s /\ j \in DOMAIN s
    BY <1>1, <1>3, <2>1, <2>2 DEF Twice
  <2>3. CASE i = Len(s) + 1
    BY <1>1, <2>1, <2>3 DEF Ids
  <2>4. CASE j = Len(s) + 1
    BY <1>1, <2>1, <2>4 DEF Ids
  <2> QED
    BY <1>1, <2>2, <2>3, <2>4
<1> QED
  BY <1>1, <1>2, <1>3 DEF t

LEMMA RemoveTab ==
    ASSUME NEW s \in Seq(Tabs), NEW k \in DOMAIN s
    PROVE  /\ RemoveAt(s, k) \in Seq(Tabs)
           /\ Ids(RemoveAt(s, k)) \subseteq Ids(s)
           /\ Twice(RemoveAt(s, k)) \subseteq Twice(s)
           /\ Pending(RemoveAt(s, k)) \subseteq Pending(s)
<1> DEFINE a == SubSeq(s, 1, k - 1)
           b == SubSeq(s, k + 1, Len(s))
           t == RemoveAt(s, k)
           g == [i \in DOMAIN t |-> IF i < k THEN i ELSE i + 1]
<1>0. Len(s) \in Nat /\ k \in 1..Len(s) /\ DOMAIN s = 1..Len(s)
  OBVIOUS
<1>1. /\ a \in Seq(Tabs) /\ Len(a) = k - 1 /\ \A i \in 1..(k - 1) : a[i] = s[i]
  <2>1. \A i \in 1..(k - 1) : s[i] \in Tabs
    BY <1>0
  <2> QED
    BY <1>0, <2>1, SubSeqProperties
<1>2. /\ b \in Seq(Tabs) /\ Len(b) = Len(s) - k /\ \A i \in 1..(Len(s) - k) : b[i] = s[k + i]
  <2>1. \A i \in (k + 1)..Len(s) : s[i] \in Tabs
    BY <1>0
  <2>2. /\ b \in Seq(Tabs) /\ Len(b) = IF k + 1 <= Len(s) THEN Len(s) - (k + 1) + 1 ELSE 0
        /\ \A i \in 1..(Len(s) - (k + 1) + 1) : b[i] = s[k + 1 + i - 1]
    BY <1>0, <2>1, SubSeqProperties
  <2>3. /\ Len(b) = Len(s) - k
        /\ \A i \in 1..(Len(s) - k) : b[i] = s[k + i]
    BY <1>0, <2>2
  <2> QED
    BY <2>2, <2>3
<1> HIDE DEF a, b
<1>3. /\ t \in Seq(Tabs) /\ DOMAIN t = 1..(Len(s) - 1)
      /\ \A i \in DOMAIN t : t[i] = IF i < k THEN s[i] ELSE s[i + 1]
  <2>1. t = a \o b
    BY DEF RemoveAt, a, b
  <2>0. /\ a \o b \in Seq(Tabs)
        /\ Len(a \o b) = Len(a) + Len(b)
        /\ \A i \in 1..(Len(a) + Len(b)) : (a \o b)[i] = IF i <= Len(a) THEN a[i] ELSE b[i - Len(a)]
    <3>1. a \in Seq(Tabs) /\ b \in Seq(Tabs)
      BY <1>1, <1>2
    <3> HIDE DEF a, b
    <3> QED
      BY <3>1, ConcatProperties, Zenon
  <2> HIDE DEF t
  <2>2. t \in Seq(Tabs) /\ Len(t) = Len(s) - 1
    <3>1. t \in Seq(Tabs) /\ Len(t) = Len(a) + Len(b)
      BY <2>0, <2>1, Zenon
    <3> QED
      BY <1>0, <1>1, <1>2, <3>1
  <2>3. \A i \in 1..(Len(s) - 1) : t[i] = IF i <= k - 1 THEN a[i] ELSE b[i - (k - 1)]
    BY <1>0, <1>1, <1>2, <2>0, <2>1, SMTT(30)
  <2>4. ASSUME NEW i \in 1..(Len(s) - 1) PROVE t[i] = IF i < k THEN s[i] ELSE s[i + 1]
    <3>1. CASE i < k
      BY <1>0, <1>1, <2>3, <3>1
    <3>2. CASE ~(i < k)
      <4>1. i - (k - 1) \in 1..(Len(s) - k) /\ k + (i - (k - 1)) = i + 1
        BY <1>0, <3>2
      <4> QED
        BY <1>0, <1>2, <2>3, <3>2, <4>1
    <3> QED
      BY <3>1, <3>2
  <2> QED
    BY <1>0, <2>2, <2>4
<1>4. \A i \in DOMAIN t : g[i] \in DOMAIN s /\ t[i] = s[g[i]]
  BY <1>0, <1>3
<1>5. \A i, j \in DOMAIN t : i # j => g[i] # g[j]
  BY <1>0, <1>3
<1> HIDE DEF t, g
<1>6. Ids(t) \subseteq Ids(s) /\ Pending(t) \subseteq Pending(s)
  BY <1>4 DEF Ids, Pending
<1>7. Twice(t) \subseteq Twice(s)
  BY <1>4, <1>5 DEF Twice
<1> QED
  BY <1>3, <1>6, <1>7 DEF t

LEMMA AnsweredTabs ==
    ASSUME NEW s \in Seq(Tabs), NEW answers,
           \A d \in DOMAIN answers : answers[d] \in Statuses \union {Null}
    PROVE  /\ Answered(s, answers) \in Seq(Tabs)
           /\ Ids(Answered(s, answers)) = Ids(s)
           /\ Twice(Answered(s, answers)) = Twice(s)
<1> DEFINE t == Answered(s, answers)
<1>1. /\ DOMAIN t = DOMAIN s /\ DOMAIN s = 1..Len(s) /\ Len(s) \in Nat
      /\ \A i \in DOMAIN s : t[i] \in Tabs /\ t[i].id = s[i].id
  <2>1. \A i \in DOMAIN s : s[i] = [id |-> s[i].id, status |-> s[i].status]
                            /\ s[i].id \in Docs /\ s[i].status \in Statuses
    <3>1. \A i \in DOMAIN s : s[i] \in Tabs
      OBVIOUS
    <3> QED
      BY <3>1 DEF Tabs
  <2>2. DOMAIN t = DOMAIN s
    BY DEF Answered
  <2>3. ASSUME NEW i \in DOMAIN s
        PROVE  t[i] = s[i] \/ \E status \in Statuses : t[i] = [s[i] EXCEPT !.status = status]
    BY DEF Answered
  <2> HIDE DEF t
  <2>4. ASSUME NEW i \in DOMAIN s PROVE t[i] \in Tabs /\ t[i].id = s[i].id
    <3>1. s[i] \in Tabs
      OBVIOUS
    <3>2. \A r \in Tabs : \A status \in Statuses :
            [r EXCEPT !.status = status] \in Tabs /\ [r EXCEPT !.status = status].id = r.id
      BY DEF Tabs
    <3>3. CASE t[i] = s[i]
      BY <3>1, <3>3, Zenon
    <3>4. CASE \E status \in Statuses : t[i] = [s[i] EXCEPT !.status = status]
      BY <3>1, <3>2, <3>4, ZenonT(30)
    <3> QED
      BY <2>3, <3>3, <3>4, Zenon
  <2> QED
    BY <2>2, <2>4
<1>2. t \in Seq(Tabs)
  <2>1. t \in [1..Len(s) -> Tabs]
    BY <1>1 DEF Answered
  <2> QED
    BY <1>1, <2>1, SeqDef
<1> HIDE DEF t
<1>3. Ids(t) = Ids(s) /\ Twice(t) = Twice(s)
  BY <1>1 DEF Ids, Twice
<1> QED
  BY <1>2, <1>3 DEF t

-----------------------------------------------------------------------------
(* The tabs: steps *)

\* What TabsTypeOK says of each variable.
LEMMA TabsTypes ==
    ASSUME TabsTypeOK
    PROVE  /\ server \in [Docs -> Statuses \union {Null}] /\ open \in Seq(Tabs)
           /\ active \in Docs \union {Null} /\ uploading \in BOOLEAN
           /\ activeRemoteOpenId \in Remote \union {Null}
           /\ IsABag(opens) /\ BagToSet(opens) \subseteq Opens
           /\ \A op \in BagToSet(opens) : op.id \in Remote /\ op.append \in BOOLEAN
           /\ IsABag(uploads) /\ BagToSet(uploads) \subseteq UploadCall
           /\ \A call \in BagToSet(uploads) :
                /\ call.append \in BOOLEAN /\ call.uploaded \in BOOLEAN /\ call.files \in 0..MaxFiles
           /\ IsABag(polls) /\ \A round \in BagToSet(polls) : DOMAIN round \subseteq Docs
           /\ timer \in BOOLEAN /\ leaked \in Nat /\ clicks \in 0..MaxClicks /\ overlapped \subseteq Remote
  BY DEF TabsTypeOK, Tabs, Opens, UploadCall

LEMMA TabsAreDocs ==
    ASSUME NEW s \in Seq(Tabs)
    PROVE  Ids(s) \subseteq Docs /\ Pending(s) \subseteq Ids(s)
<1>1. \A i \in DOMAIN s : s[i].id \in Docs
  <2>1. \A i \in DOMAIN s : s[i] \in Tabs
    OBVIOUS
  <2> QED
    BY <2>1 DEF Tabs
<1> QED
  BY <1>1 DEF Ids, Pending

\* A round asks for what is pending.
LEMMA AskGrows ==
    ASSUME TabsTypeOK, NEW docs \in Seq(Tabs), NEW known, Ask(docs, known)
    PROVE  /\ IsABag(polls') /\ \A round \in BagToSet(polls') : DOMAIN round \subseteq Docs
           /\ Pending(docs) # {} => polls' # EmptyBag
           /\ Pending(docs) = {} => polls' = polls
<1> DEFINE r == [d \in Pending(docs) |-> known[d]]
<1>1. DOMAIN r \subseteq Docs
  BY TabsAreDocs
<1> HIDE DEF r
<1>2. CASE Pending(docs) = {}
  BY <1>2, TabsTypes DEF Ask
<1>3. CASE Pending(docs) # {}
  <2>1. polls' = polls (+) SetToBag({r})
    BY <1>3 DEF Ask, r
  <2>2. /\ IsABag(polls (+) SetToBag({r})) /\ polls (+) SetToBag({r}) # EmptyBag
        /\ BagToSet(polls (+) SetToBag({r})) = BagToSet(polls) \union {r}
    BY TabsTypes, BagAdd
  <2>3. \A round \in BagToSet(polls) \union {r} : DOMAIN round \subseteq Docs
    BY <1>1, TabsTypes
  <2>4. IsABag(polls') /\ polls' # EmptyBag /\ BagToSet(polls') = BagToSet(polls) \union {r}
    BY <2>1, <2>2, Zenon
  <2> QED
    BY <1>3, <2>3, <2>4
<1> QED
  BY <1>2, <1>3

\* A step that leaves the tabs' documents and the calls alone, or closes tabs.
LEMMA FewerTabs ==
    ASSUME TabsTypeOK, KnownInv, OpeningInv, OverlapInv, TwiceInv,
           Ids(open') \subseteq Ids(open), Twice(open') \subseteq Twice(open),
           UNCHANGED <<server, uploads, opens, overlapped>>
    PROVE  KnownInv' /\ OpeningInv' /\ OverlapInv' /\ TwiceInv'
  BY DEF KnownInv, OpeningInv, OverlapInv, TwiceInv

LEMMA PollStep ==
    ASSUME TabsInv, NEW round \in BagToSet(polls), Poll(round)
    PROVE  TabsInv'
<1>1. PICK answers \in [DOMAIN round -> Statuses \union {Null}] : PollAnswers(round, answers)
  BY DEF Poll
<1>2. /\ open' = Answered(open, answers) /\ polls' = polls (-) SetToBag({round})
      /\ Pending(open') # {} => timer' = TRUE
      /\ timer' \in BOOLEAN /\ leaked' \in Nat
      /\ UNCHANGED <<server, active, uploading, activeRemoteOpenId, opens, uploads, overlapped, clicks>>
  <2>1. /\ open' = Answered(open, answers) /\ polls' = polls (-) SetToBag({round})
        /\ UNCHANGED <<server, active, uploading, activeRemoteOpenId, opens, uploads, overlapped, clicks>>
    BY <1>1, Zenon DEF PollAnswers, loading
  <2>2. /\ Pending(open') = {} => timer' = FALSE /\ leaked' = leaked
        /\ Pending(open') # {} => timer' = TRUE /\ leaked' = IF timer THEN leaked + 1 ELSE leaked
    BY <1>1, Zenon DEF PollAnswers
  <2>3. leaked \in Nat
    BY TabsTypes DEF TabsInv
  <2>4. timer' \in BOOLEAN /\ (Pending(open') # {} => timer' = TRUE)
    BY <2>2, Zenon
  <2>5. leaked' \in Nat
    BY <2>2, <2>3
  <2> QED
    BY <2>1, <2>4, <2>5, Zenon
<1>3. open' \in Seq(Tabs) /\ Ids(open') = Ids(open) /\ Twice(open') = Twice(open)
  <2>1. /\ Answered(open, answers) \in Seq(Tabs) /\ Ids(Answered(open, answers)) = Ids(open)
        /\ Twice(Answered(open, answers)) = Twice(open)
    BY TabsTypes, AnsweredTabs DEF TabsInv
  <2> QED
    BY <1>2, <2>1, Zenon
<1>4. IsABag(polls') /\ BagToSet(polls') \subseteq BagToSet(polls)
  <2>1. /\ IsABag(polls (-) SetToBag({round}))
        /\ BagToSet(polls (-) SetToBag({round})) \subseteq BagToSet(polls)
    BY TabsTypes, BagRemove DEF TabsInv
  <2> QED
    BY <1>2, <2>1, Zenon
<1>5. TabsTypeOK'
  BY <1>2, <1>3, <1>4, TabsTypes DEF TabsInv, TabsTypeOK, Tabs
<1>6. PendingIsPolled'
  BY <1>2 DEF PendingIsPolled
<1> QED
  BY <1>2, <1>3, <1>5, <1>6, FewerTabs DEF TabsInv

LEMMA TimerStep ==
    ASSUME TabsInv, TimerFires
    PROVE  TabsInv'
<1>1. /\ Ask(open, server) /\ timer' \in BOOLEAN /\ leaked' \in Nat
      /\ UNCHANGED <<server, open, active, uploading, activeRemoteOpenId, opens, uploads, overlapped, clicks>>
  <2>1. /\ Ask(open, server)
        /\ UNCHANGED <<server, open, active, uploading, activeRemoteOpenId, opens, uploads, overlapped, clicks>>
    BY Zenon DEF TimerFires, loading
  <2>2. \/ timer' = FALSE /\ leaked' = leaked
        \/ leaked > 0 /\ leaked' = leaked - 1 /\ timer' = timer
    BY Zenon DEF TimerFires
  <2>3. leaked \in Nat /\ timer \in BOOLEAN
    BY TabsTypes DEF TabsInv
  <2>4. leaked' \in Nat
    BY <2>2, <2>3
  <2>5. timer' \in BOOLEAN
    BY <2>2, <2>3, Zenon
  <2> QED
    BY <2>1, <2>4, <2>5, Zenon
<1>2. /\ IsABag(polls') /\ \A round \in BagToSet(polls') : DOMAIN round \subseteq Docs
      /\ Pending(open) # {} => polls' # EmptyBag
  BY <1>1, TabsTypes, AskGrows DEF TabsInv
<1>3. TabsTypeOK'
  BY <1>1, <1>2 DEF TabsInv, TabsTypeOK
<1>4. PendingIsPolled'
  BY <1>1, <1>2 DEF PendingIsPolled
<1> QED
  BY <1>1, <1>3, <1>4, FewerTabs DEF TabsInv

LEMMA OpenRemoteStep ==
    ASSUME TabsInv, NEW d \in Remote, NEW append \in BOOLEAN, OpenRemote(d, append)
    PROVE  TabsInv'
<1> USE DEF TabsInv
<1>1. /\ clicks' \in 0..MaxClicks
      /\ UNCHANGED <<server, open, polls, timer, leaked, uploads>>
  BY TabsTypes DEF OpenRemote, Click, polling, loading
<1>2. PendingIsPolled' /\ KnownInv'
  BY <1>1 DEF PendingIsPolled, KnownInv
<1>3. CASE append /\ d \in Ids(open)
  <2>1. UNCHANGED loading /\ active' = d
    BY <1>3 DEF OpenRemote
  <2>2. TabsTypeOK'
    BY <1>1, <2>1 DEF TabsTypeOK, loading, Docs
  <2> QED
    BY <1>1, <1>2, <2>1, <2>2, FewerTabs DEF loading
<1>4. CASE ~(append /\ d \in Ids(open))
  <2> DEFINE op == [id |-> d, append |-> append]
             more == IF \E o \in BagToSet(opens) : o.id = d THEN overlapped \union {d} ELSE overlapped
  <2>1. /\ uploading' = TRUE /\ activeRemoteOpenId' = d /\ active' = active
        /\ opens' = opens (+) SetToBag({op}) /\ overlapped' = more
    BY <1>4 DEF OpenRemote
  <2>2. op \in Opens /\ op.id = d /\ op.append = append
    BY DEF Opens
  <2> HIDE DEF op
  <2>3. /\ IsABag(opens') /\ BagToSet(opens') = BagToSet(opens) \union {op}
        /\ \A y \in BagToSet(opens) : y # op => opens'[y] = opens[y]
        /\ op \notin BagToSet(opens) => opens'[op] = 1
    <3>1. /\ IsABag(opens (+) SetToBag({op}))
          /\ BagToSet(opens (+) SetToBag({op})) = BagToSet(opens) \union {op}
          /\ \A y \in BagToSet(opens) : y # op => (opens (+) SetToBag({op}))[y] = opens[y]
          /\ op \notin BagToSet(opens) => (opens (+) SetToBag({op}))[op] = 1
      <4>1. IsABag(opens)
        BY TabsTypes
      <4> QED BY <4>1, BagAdd
    <3> QED
      BY <2>1, <3>1, Zenon
  <2>4. overlapped \subseteq overlapped' /\ overlapped' \subseteq Remote
    BY <2>1, TabsTypes
  <2>5. op \in BagToSet(opens) \/ (\E o \in BagToSet(opens) : o.id = d) => d \in overlapped'
    BY <2>1, <2>2
  <2>6. TabsTypeOK'
    BY <1>1, <2>1, <2>2, <2>3, <2>4 DEF TabsTypeOK, Opens
  <2>7. OpeningInv'
    BY <1>1, <1>4, <2>2, <2>3, <2>4 DEF OpeningInv
  <2>8. OverlapInv'
    <3>1. ASSUME NEW o1 \in BagToSet(opens'), NEW o2 \in BagToSet(opens'), o1 # o2, o1.id = o2.id
          PROVE  o1.id \in overlapped'
      BY <2>2, <2>3, <2>4, <2>5, <3>1 DEF OverlapInv
    <3>2. ASSUME NEW o \in BagToSet(opens'), opens'[o] > 1
          PROVE  o.id \in overlapped'
      BY <2>2, <2>3, <2>4, <2>5, <3>2 DEF OverlapInv
    <3> QED
      BY <3>1, <3>2 DEF OverlapInv
  <2>9. TwiceInv'
    BY <1>1, <2>4 DEF TwiceInv
  <2> QED
    BY <1>2, <2>6, <2>7, <2>8, <2>9
<1> QED
  BY <1>3, <1>4

\* A call of openRemotePdf leaves the bag of calls in progress.
LEMMA CallEnds ==
    ASSUME TabsTypeOK, OverlapInv, NEW op \in BagToSet(opens),
           opens' = opens (-) SetToBag({op}), overlapped' = overlapped
    PROVE  /\ IsABag(opens') /\ BagToSet(opens') \subseteq BagToSet(opens)
           /\ op \in BagToSet(opens') => op.id \in overlapped
           /\ OverlapInv'
<1>1. /\ IsABag(opens') /\ BagToSet(opens') \subseteq BagToSet(opens)
      /\ \A y \in BagToSet(opens') : opens[y] \in Nat /\ opens'[y] \in Nat /\ opens'[y] <= opens[y]
      /\ op \in BagToSet(opens') => opens[op] > 1
  <2>1. /\ IsABag(opens (-) SetToBag({op})) /\ BagToSet(opens (-) SetToBag({op})) \subseteq BagToSet(opens)
        /\ \A y \in BagToSet(opens (-) SetToBag({op})) :
             /\ opens[y] \in Nat /\ (opens (-) SetToBag({op}))[y] \in Nat
             /\ (opens (-) SetToBag({op}))[y] <= opens[y]
        /\ op \in BagToSet(opens (-) SetToBag({op})) => opens[op] > 1
    BY TabsTypes, BagRemove
  <2> QED
    BY <2>1, Zenon
<1>2. ASSUME NEW y \in BagToSet(opens'), opens'[y] > 1 PROVE opens[y] > 1
  <2>1. opens[y] \in Nat /\ opens'[y] \in Nat /\ opens'[y] <= opens[y]
    BY <1>1, Zenon
  <2> QED
    BY <1>2, <2>1
<1> QED
  BY <1>1, <1>2 DEF OverlapInv

LEMMA OpenFailsStep ==
    ASSUME TabsInv, NEW op \in BagToSet(opens), OpenFails(op)
    PROVE  TabsInv'
<1> USE DEF TabsInv
<1>1. /\ opens' = opens (-) SetToBag({op}) /\ uploading' = FALSE
      /\ activeRemoteOpenId' \in {Null, activeRemoteOpenId}
      /\ UNCHANGED <<server, open, active, polls, timer, leaked, uploads, overlapped, clicks>>
  BY DEF OpenFails, OpenEnds, polling
<1>2. /\ IsABag(opens') /\ BagToSet(opens') \subseteq BagToSet(opens) /\ OverlapInv'
  BY <1>1, CallEnds
<1>3. TabsTypeOK'
  BY <1>1, <1>2 DEF TabsTypeOK
<1>4. PendingIsPolled' /\ KnownInv' /\ OpeningInv' /\ TwiceInv'
  BY <1>1, <1>2 DEF PendingIsPolled, KnownInv, OpeningInv, TwiceInv
<1> QED
  BY <1>2, <1>3, <1>4

LEMMA OpenedStep ==
    ASSUME TabsInv, NEW op \in BagToSet(opens), Opened(op)
    PROVE  TabsInv'
<1> USE DEF TabsInv
<1>1. op \in Opens /\ op.id \in Remote /\ op.id \in Docs /\ server[op.id] \in Statuses
  BY TabsTypes DEF KnownInv, Docs
<1>2. PICK status \in {server[op.id], "processing"} :
        open' = IF op.append /\ open # <<>> THEN Append(open, [id |-> op.id, status |-> status])
                ELSE <<[id |-> op.id, status |-> status]>>
  BY DEF Opened
<1>3. /\ active' = op.id /\ Ask(open', server) /\ timer' = FALSE /\ leaked' = leaked
      /\ opens' = opens (-) SetToBag({op}) /\ uploading' = FALSE
      /\ activeRemoteOpenId' \in {Null, activeRemoteOpenId}
      /\ UNCHANGED <<server, uploads, overlapped, clicks>>
  BY DEF Opened, StartPolling, OpenEnds
<1>4. /\ IsABag(opens') /\ BagToSet(opens') \subseteq BagToSet(opens) /\ OverlapInv'
      /\ op \in BagToSet(opens') => op.id \in overlapped
  BY <1>3, CallEnds
<1>5. /\ open' \in Seq(Tabs) /\ Ids(open') \subseteq Ids(open) \union {op.id}
      /\ Twice(open') \subseteq Twice(open) \union (IF op.append THEN Ids(open) \intersect {op.id} ELSE {})
  <2> DEFINE e == [id |-> op.id, status |-> status]
  <2>1. e \in Tabs /\ e.id = op.id
    BY <1>1 DEF Tabs, Statuses
  <2> HIDE DEF e
  <2>2. CASE op.append /\ open # <<>>
    <3>1. open' = Append(open, e)
      BY <1>2, <2>2 DEF e
    <3>2. /\ Append(open, e) \in Seq(Tabs) /\ Ids(Append(open, e)) = Ids(open) \union {e.id}
          /\ Twice(Append(open, e)) \subseteq Twice(open) \union (Ids(open) \intersect {e.id})
      BY <2>1, TabsTypes, AppendTab
    <3>3. /\ open' \in Seq(Tabs) /\ Ids(open') = Ids(open) \union {e.id}
          /\ Twice(open') \subseteq Twice(open) \union (Ids(open) \intersect {e.id})
      BY <3>1, <3>2, Zenon
    <3> QED
      BY <2>1, <2>2, <3>3
  <2>3. CASE ~(op.append /\ open # <<>>)
    <3>1. open' = <<e>>
      BY <1>2, <2>3 DEF e
    <3>2. <<e>> = Append(<<>>, e)
      OBVIOUS
    <3>3. /\ Append(<<>>, e) \in Seq(Tabs) /\ Ids(Append(<<>>, e)) = Ids(<<>>) \union {e.id}
          /\ Twice(Append(<<>>, e)) \subseteq Twice(<<>>) \union (Ids(<<>>) \intersect {e.id})
      BY <2>1, NoTabs, AppendTab
    <3>4. open' \in Seq(Tabs) /\ Ids(open') = {e.id} /\ Twice(open') = {}
      <4>1. /\ open' \in Seq(Tabs) /\ Ids(open') = Ids(<<>>) \union {e.id}
            /\ Twice(open') \subseteq Twice(<<>>) \union (Ids(<<>>) \intersect {e.id})
        BY <3>1, <3>2, <3>3, Zenon
      <4> QED
        BY <4>1, NoTabs
    <3> QED
      BY <2>1, <3>4
  <2> QED
    BY <2>2, <2>3
<1>6. /\ IsABag(polls') /\ \A round \in BagToSet(polls') : DOMAIN round \subseteq Docs
      /\ Pending(open') # {} => polls' # EmptyBag
  BY <1>3, <1>5, AskGrows
<1>7. TabsTypeOK'
  BY <1>1, <1>3, <1>4, <1>5, <1>6 DEF TabsTypeOK, Tabs
<1>8. PendingIsPolled'
  BY <1>6 DEF PendingIsPolled
<1>9. KnownInv'
  BY <1>1, <1>3, <1>5 DEF KnownInv
<1>10. OpeningInv'
  <2>1. ASSUME NEW o \in BagToSet(opens'), o.append, o.id \in Ids(open')
        PROVE  o.id \in overlapped
    <3>1. o \in BagToSet(opens)
      BY <1>4
    <3>2. CASE o.id \in Ids(open)
      BY <2>1, <3>1, <3>2 DEF OpeningInv
    <3>3. CASE o.id = op.id
      BY <1>4, <2>1, <3>1, <3>3 DEF OverlapInv
    <3> QED
      BY <1>5, <2>1, <3>2, <3>3
  <2> QED
    BY <1>3, <2>1 DEF OpeningInv
<1>11. TwiceInv'
  BY <1>3, <1>5 DEF TwiceInv, OpeningInv
<1> QED
  BY <1>4, <1>7, <1>8, <1>9, <1>10, <1>11

LEMMA StartUploadStep ==
    ASSUME TabsInv, StartUpload
    PROVE  TabsInv'
<1> USE DEF TabsInv
<1>1. /\ clicks' \in 0..MaxClicks /\ uploading' = TRUE /\ activeRemoteOpenId' = Null
      /\ UNCHANGED <<server, open, active, polls, timer, leaked, opens, overlapped>>
  BY TabsTypes DEF StartUpload, Click, polling
<1>2. PICK append \in {TRUE, open # <<>>}, n \in 1..MaxFiles :
        uploads' = uploads (+) SetToBag({[append |-> append, files |-> n, uploaded |-> FALSE]})
  BY DEF StartUpload
<1> DEFINE call == [append |-> append, files |-> n, uploaded |-> FALSE]
<1>3. call \in UploadCall
  <2>1. append \in BOOLEAN /\ n \in 0..MaxFiles
    <3>1. append \in BOOLEAN
      BY <1>2, Zenon
    <3>2. n \in 0..MaxFiles
      BY <1>2
    <3> QED
      BY <3>1, <3>2
  <2> QED
    BY <2>1 DEF UploadCall
<1> HIDE DEF call
<1>4. IsABag(uploads') /\ BagToSet(uploads') = BagToSet(uploads) \union {call}
  <2>1. /\ IsABag(uploads (+) SetToBag({call}))
        /\ BagToSet(uploads (+) SetToBag({call})) = BagToSet(uploads) \union {call}
    BY TabsTypes, BagAdd
  <2>2. uploads' = uploads (+) SetToBag({call})
    BY <1>2 DEF call
  <2> QED
    BY <2>1, <2>2, Zenon
<1>5. TabsTypeOK'
  BY <1>1, <1>3, <1>4 DEF TabsTypeOK
<1>6. PendingIsPolled'
  BY <1>1, <1>4 DEF PendingIsPolled
<1>7. KnownInv' /\ OpeningInv' /\ OverlapInv' /\ TwiceInv'
  BY <1>1 DEF KnownInv, OpeningInv, OverlapInv, TwiceInv
<1> QED
  BY <1>5, <1>6, <1>7

\* The file a call is done with changes this call and no other.
LEMMA NextFileOf ==
    ASSUME TabsTypeOK, NEW call \in BagToSet(uploads), NEW uploaded \in BOOLEAN, NextFile(call, uploaded)
    PROVE  /\ IsABag(uploads') /\ BagToSet(uploads') \subseteq UploadCall
           /\ \E next \in BagToSet(uploads') : next.uploaded = uploaded
           /\ \A other \in BagToSet(uploads) : other # call => other \in BagToSet(uploads')
<1> DEFINE next == [call EXCEPT !.files = @ - 1, !.uploaded = uploaded]
           rest == uploads (-) SetToBag({call})
<1>1. next \in UploadCall /\ next.uploaded = uploaded
  <2>1. call \in UploadCall /\ call.files > 0
    BY TabsTypes DEF NextFile
  <2>2. MaxFiles \in Nat /\ call.files - 1 \in 0..MaxFiles
    BY <2>1, TabsTypes
  <2> QED
    BY <2>1, <2>2 DEF UploadCall
<1>2. uploads' = rest (+) SetToBag({next})
  BY DEF NextFile
<1> HIDE DEF next
<1>3. /\ IsABag(rest) /\ BagToSet(rest) \subseteq BagToSet(uploads)
      /\ \A other \in BagToSet(uploads) : other # call => other \in BagToSet(rest)
  BY TabsTypes, BagRemove
<1> HIDE DEF rest
<1>4. /\ IsABag(rest (+) SetToBag({next}))
      /\ BagToSet(rest (+) SetToBag({next})) = BagToSet(rest) \union {next}
  BY <1>3, BagAdd
<1>5. IsABag(uploads') /\ BagToSet(uploads') = BagToSet(rest) \union {next}
  BY <1>2, <1>4, Zenon
<1> QED
  BY <1>1, <1>3, <1>5, TabsTypes

LEMMA UploadFileStep ==
    ASSUME TabsInv, NEW call \in BagToSet(uploads), UploadFile(call)
    PROVE  TabsInv'
<1> USE DEF TabsInv
<1> DEFINE kept == call.append \/ call.uploaded
           list == IF kept THEN open ELSE <<>>
<1>1. PICK f \in Uploads :
        /\ server[f] = Null
        /\ server' = [server EXCEPT ![f] = "processing"]
        /\ open' = Append(list, [id |-> f, status |-> "processing"])
        /\ active' = f
  BY DEF UploadFile
<1>2. /\ timer' = (kept /\ timer) /\ NextFile(call, TRUE)
      /\ UNCHANGED <<polls, leaked, uploading, activeRemoteOpenId, opens, overlapped, clicks>>
  BY DEF UploadFile
<1>3. f \in Docs /\ f \notin Remote /\ f \notin Ids(open)
  BY <1>1 DEF KnownInv, Docs
<1>4. /\ IsABag(uploads') /\ BagToSet(uploads') \subseteq UploadCall
      /\ \E next \in BagToSet(uploads') : next.uploaded = TRUE
  BY <1>2, NextFileOf
<1>5. /\ server' \in [Docs -> Statuses \union {Null}]
      /\ \A d \in Docs : d # f => server'[d] = server[d]
      /\ server'[f] = "processing"
  BY <1>1, <1>3, TabsTypes DEF Statuses
<1>6. open' \in Seq(Tabs) /\ Ids(open') \subseteq Ids(open) \union {f} /\ Twice(open') \subseteq Twice(open)
  <2> DEFINE e == [id |-> f, status |-> "processing"]
  <2>1. e \in Tabs /\ e.id = f
    BY <1>3 DEF Tabs, Statuses
  <2> HIDE DEF e
  <2>2. list \in Seq(Tabs) /\ Ids(list) \subseteq Ids(open) /\ Twice(list) \subseteq Twice(open)
    BY TabsTypes, NoTabs
  <2> HIDE DEF list
  <2>3. /\ Append(list, e) \in Seq(Tabs) /\ Ids(Append(list, e)) = Ids(list) \union {e.id}
        /\ Twice(Append(list, e)) \subseteq Twice(list) \union (Ids(list) \intersect {e.id})
    BY <2>1, <2>2, AppendTab
  <2>4. open' = Append(list, e)
    BY <1>1 DEF e
  <2>5. /\ open' \in Seq(Tabs) /\ Ids(open') = Ids(list) \union {e.id}
        /\ Twice(open') \subseteq Twice(list) \union (Ids(list) \intersect {e.id})
    BY <2>3, <2>4, Zenon
  <2> QED
    BY <1>3, <2>1, <2>2, <2>5
<1>7. TabsTypeOK'
  <2>1. timer' \in BOOLEAN
    BY <1>2, Zenon
  <2> QED
    BY <1>1, <1>2, <1>3, <1>4, <1>5, <1>6, <2>1 DEF TabsTypeOK, Tabs
<1>8. PendingIsPolled'
  BY <1>4 DEF PendingIsPolled
<1>9. KnownInv'
  <2>1. ASSUME NEW d \in Remote \union Ids(open') PROVE server'[d] # Null
    <3>1. CASE d = f
      BY <1>5, <3>1 DEF Statuses
    <3>2. CASE d # f
      <4>1. d \in Remote \union Ids(open) /\ d \in Docs
        BY <1>6, <3>2, TabsTypes, TabsAreDocs DEF Docs
      <4> QED
        BY <1>5, <3>2, <4>1 DEF KnownInv
    <3> QED
      BY <3>1, <3>2
  <2> QED
    BY <2>1 DEF KnownInv
<1>10. OpeningInv' /\ OverlapInv' /\ TwiceInv'
  BY <1>2, <1>3, <1>6, TabsTypes DEF OpeningInv, OverlapInv, TwiceInv
<1> QED
  BY <1>7, <1>8, <1>9, <1>10

LEMMA UploadFileFailsStep ==
    ASSUME TabsInv, NEW call \in BagToSet(uploads), UploadFileFails(call)
    PROVE  TabsInv'
<1> USE DEF TabsInv
<1>1. UNCHANGED <<server, open, active, polls, timer, leaked, uploading, activeRemoteOpenId,
                  opens, overlapped, clicks>>
  BY DEF UploadFileFails, polling
<1>2. /\ IsABag(uploads') /\ BagToSet(uploads') \subseteq UploadCall
      /\ \E next \in BagToSet(uploads') : next.uploaded = call.uploaded
      /\ \A other \in BagToSet(uploads) : other # call => other \in BagToSet(uploads')
  BY TabsTypes, NextFileOf DEF UploadFileFails
<1>3. TabsTypeOK'
  BY <1>1, <1>2 DEF TabsTypeOK
<1>4. PendingIsPolled'
  <2>1. ASSUME NEW c \in BagToSet(uploads), c.uploaded PROVE \E d \in BagToSet(uploads') : d.uploaded
    BY <1>2, <2>1
  <2> QED
    BY <1>1, <2>1 DEF PendingIsPolled
<1>5. KnownInv' /\ OpeningInv' /\ OverlapInv' /\ TwiceInv'
  BY <1>1 DEF KnownInv, OpeningInv, OverlapInv, TwiceInv
<1> QED
  BY <1>3, <1>4, <1>5

LEMMA UploadEndsStep ==
    ASSUME TabsInv, NEW call \in BagToSet(uploads), UploadEnds(call)
    PROVE  TabsInv'
<1> USE DEF TabsInv
<1>1. /\ uploads' = uploads (-) SetToBag({call}) /\ uploading' = FALSE
      /\ UNCHANGED <<server, open, active, activeRemoteOpenId, opens, overlapped, clicks>>
  BY DEF UploadEnds
<1>2. /\ IsABag(uploads') /\ BagToSet(uploads') \subseteq BagToSet(uploads)
      /\ \A other \in BagToSet(uploads) : other # call => other \in BagToSet(uploads')
  <2>1. /\ IsABag(uploads (-) SetToBag({call}))
        /\ BagToSet(uploads (-) SetToBag({call})) \subseteq BagToSet(uploads)
        /\ \A other \in BagToSet(uploads) : other # call => other \in BagToSet(uploads (-) SetToBag({call}))
    BY TabsTypes, BagRemove
  <2> QED
    BY <1>1, <2>1, Zenon
<1>3. KnownInv' /\ OpeningInv' /\ OverlapInv' /\ TwiceInv'
  BY <1>1 DEF KnownInv, OpeningInv, OverlapInv, TwiceInv
<1>4. CASE call.uploaded
  <2>1. Ask(open, server) /\ timer' = FALSE /\ leaked' = leaked
    BY <1>4 DEF UploadEnds, StartPolling
  <2>2. /\ IsABag(polls') /\ \A round \in BagToSet(polls') : DOMAIN round \subseteq Docs
        /\ Pending(open) # {} => polls' # EmptyBag
    BY <2>1, TabsTypes, AskGrows
  <2>3. TabsTypeOK'
    BY <1>1, <1>2, <2>1, <2>2 DEF TabsTypeOK
  <2>4. PendingIsPolled'
    BY <1>1, <2>2 DEF PendingIsPolled
  <2> QED
    BY <1>3, <2>3, <2>4
<1>5. CASE ~call.uploaded
  <2>1. UNCHANGED <<polls, timer, leaked>>
    BY <1>5 DEF UploadEnds, polling
  <2>2. TabsTypeOK'
    BY <1>1, <1>2, <2>1 DEF TabsTypeOK
  <2>3. PendingIsPolled'
    BY <1>1, <1>2, <1>5, <2>1 DEF PendingIsPolled
  <2> QED
    BY <1>3, <2>2, <2>3
<1> QED
  BY <1>4, <1>5

LEMMA CloseStep ==
    ASSUME TabsInv, ClearSession \/ \E d \in Docs : RemoveOpenDocument(d)
    PROVE  TabsInv'
<1> USE DEF TabsInv
<1>1. /\ clicks' \in 0..MaxClicks /\ polls' = polls /\ leaked' = leaked
      /\ activeRemoteOpenId' \in {Null, activeRemoteOpenId}
      /\ UNCHANGED <<server, uploading, opens, uploads, overlapped>>
  <2>1. clicks < MaxClicks /\ clicks' = clicks + 1
    BY DEF ClearSession, RemoveOpenDocument, Click
  <2>2. clicks' \in 0..MaxClicks
    BY <2>1, TabsTypes
  <2>3. CASE ClearSession
    BY <2>2, <2>3 DEF ClearSession
  <2>4. CASE \E d \in Docs : RemoveOpenDocument(d)
    BY <2>2, <2>4 DEF RemoveOpenDocument, polling, loading
  <2> QED
    BY <2>3, <2>4
<1> DEFINE Closed ==
             /\ open' \in Seq(Tabs) /\ Ids(open') \subseteq Ids(open) /\ Twice(open') \subseteq Twice(open)
             /\ Pending(open') \subseteq Pending(open)
             /\ Pending(open') # {} => timer' = timer
             /\ timer' \in BOOLEAN /\ active' \in Docs \union {Null}
<1>2. Closed
  <2>1. CASE ClearSession
    <3>1. open' = <<>> /\ active' = Null /\ timer' = FALSE
      BY <2>1 DEF ClearSession
    <3>2. Ids(open') = {} /\ Twice(open') = {} /\ Pending(open') = {} /\ open' \in Seq(Tabs)
      BY <3>1, NoTabs, Zenon
    <3> QED
      BY <3>1, <3>2
  <2>2. ASSUME NEW d \in Docs, RemoveOpenDocument(d)
        PROVE  Closed
    <3> DEFINE I == {i \in 1..Len(open) : open[i].id = d}
               k == SelectInSeq(open, LAMBDA o : o.id = d)
    <3>1. I # {} /\ I \subseteq 1..Len(open) /\ Len(open) \in Nat /\ open \in Seq(Tabs)
      BY <2>2, TabsTypes DEF RemoveOpenDocument, Ids
    <3>2. k \in DOMAIN open
      <4>1. k = Min(I)
        BY <3>1 DEF SelectInSeq
      <4>2. Min(I) \in I
        <5>1. \E x \in I : \A y \in I : x <= y
          <6>1. I \in SUBSET Nat
            BY <3>1
          <6> QED
            BY <3>1, <6>1, LeastOfNat
        <5> QED
          BY <5>1 DEF Min
      <4> QED
        BY <3>1, <4>1, <4>2
    <3>3. /\ open' = RemoveAt(open, k) /\ timer' = timer
          /\ active' = IF open' = <<>> THEN Null ELSE IF active = d THEN open'[1].id ELSE active
      BY <2>2 DEF RemoveOpenDocument, polling
    <3> HIDE DEF k
    <3>4. /\ RemoveAt(open, k) \in Seq(Tabs) /\ Ids(RemoveAt(open, k)) \subseteq Ids(open)
          /\ Twice(RemoveAt(open, k)) \subseteq Twice(open)
          /\ Pending(RemoveAt(open, k)) \subseteq Pending(open)
      BY <3>1, <3>2, RemoveTab
    <3>5. /\ open' \in Seq(Tabs) /\ Ids(open') \subseteq Ids(open) /\ Twice(open') \subseteq Twice(open)
          /\ Pending(open') \subseteq Pending(open)
      BY <3>3, <3>4, Zenon
    <3>6. open' # <<>> => open'[1].id \in Docs
      <4>1. open' # <<>> => 1 \in DOMAIN open'
        BY <3>5
      <4> QED
        BY <3>5, <4>1, TabsAreDocs DEF Ids
    <3> QED
      BY <3>3, <3>5, <3>6, TabsTypes
  <2> HIDE DEF Closed
  <2> QED
    BY <2>1, <2>2
<1>3. TabsTypeOK'
  BY <1>1, <1>2 DEF TabsTypeOK, Tabs
<1>4. PendingIsPolled'
  BY <1>1, <1>2 DEF PendingIsPolled
<1> QED
  BY <1>1, <1>2, <1>3, <1>4, FewerTabs

LEMMA SelectStep ==
    ASSUME TabsInv, NEW d \in Docs, SelectDocument(d)
    PROVE  TabsInv'
<1> USE DEF TabsInv
<1>1. /\ clicks' \in 0..MaxClicks /\ active' \in Docs
      /\ UNCHANGED <<server, open, polls, timer, leaked, uploading, activeRemoteOpenId, opens, uploads, overlapped>>
  BY TabsTypes DEF SelectDocument, Click, polling, loading
<1>2. TabsTypeOK' /\ PendingIsPolled'
  BY <1>1 DEF TabsTypeOK, PendingIsPolled
<1> QED
  BY <1>1, <1>2, FewerTabs

LEMMA ServerStep ==
    ASSUME TabsInv, NEW d \in Docs, ServerFinishes(d)
    PROVE  TabsInv'
<1> USE DEF TabsInv
<1>1. /\ server[d] = "processing" /\ server' = [server EXCEPT ![d] = "done"]
      /\ UNCHANGED <<open, active, polls, timer, leaked, uploading, activeRemoteOpenId, opens, uploads,
                     overlapped, clicks>>
  BY DEF ServerFinishes, polling, loading
<1>2. /\ server' \in [Docs -> Statuses \union {Null}]
      /\ \A e \in Docs : server'[e] = Null <=> server[e] = Null
  BY <1>1, TabsTypes DEF Statuses
<1>3. TabsTypeOK'
  BY <1>1, <1>2 DEF TabsTypeOK
<1>4. KnownInv'
  <2>1. Remote \union Ids(open) \subseteq Docs
    BY TabsTypes, TabsAreDocs DEF Docs
  <2> QED
    BY <1>1, <1>2, <2>1 DEF KnownInv
<1>5. PendingIsPolled' /\ OpeningInv' /\ OverlapInv' /\ TwiceInv'
  BY <1>1 DEF PendingIsPolled, OpeningInv, OverlapInv, TwiceInv
<1> QED
  BY <1>3, <1>4, <1>5

-----------------------------------------------------------------------------
(* The tabs: theorems *)

\* What the session rests on: a tab that is pending is polled, and a document
\* is twice in the tabs only when an open and an upload of it overlapped.
THEOREM TabsInvariant == TabsSpec => []TabsInv
<1>1. TabsInit => TabsInv
  <2> SUFFICES ASSUME TabsInit PROVE TabsInv
    OBVIOUS
  <2>1. /\ server \in [Docs -> Statuses \union {Null}] /\ \A d \in Docs : server[d] = Null <=> d \notin Remote
        /\ open = <<>> /\ active = Null /\ uploading = FALSE /\ activeRemoteOpenId = Null
        /\ opens = EmptyBag /\ uploads = EmptyBag /\ polls = EmptyBag /\ timer = FALSE /\ leaked = 0
        /\ clicks = 0 /\ overlapped = {}
    BY DEF TabsInit
  <2>2. IsABag(EmptyBag) /\ BagToSet(EmptyBag) = {}
    BY DEF IsABag, BagToSet, EmptyBag, SetToBag
  <2>3. Ids(open) = {} /\ Twice(open) = {} /\ Pending(open) = {} /\ open \in Seq(Tabs)
    BY <2>1, NoTabs, Zenon
  <2>4. TabsTypeOK
    <3>1. /\ IsABag(opens) /\ BagToSet(opens) = {} /\ IsABag(polls) /\ BagToSet(polls) = {}
          /\ IsABag(uploads) /\ BagToSet(uploads) = {}
      BY <2>1, <2>2, Zenon
    <3>2. open \in Seq([id : Docs, status : Statuses])
      BY <2>3 DEF Tabs
    <3>3. /\ active \in Docs \union {Null} /\ uploading \in BOOLEAN /\ timer \in BOOLEAN
          /\ activeRemoteOpenId \in Remote \union {Null}
          /\ leaked \in Nat /\ overlapped \subseteq Remote
      BY <2>1
    <3>4. clicks \in 0..MaxClicks
      BY <2>1
    <3> QED
      BY <2>1, <3>1, <3>2, <3>3, <3>4 DEF TabsTypeOK
  <2>5. PendingIsPolled /\ KnownInv /\ OpeningInv /\ OverlapInv /\ TwiceInv
    BY <2>1, <2>2, <2>3 DEF PendingIsPolled, KnownInv, OpeningInv, OverlapInv, TwiceInv, Docs
  <2> QED
    BY <2>4, <2>5 DEF TabsInv
<1>2. TabsInv /\ [TabsNext]_tabs => TabsInv'
  <2> SUFFICES ASSUME TabsInv, [TabsNext]_tabs PROVE TabsInv'
    OBVIOUS
  <2>1. CASE UNCHANGED tabs
    <3>1. UNCHANGED <<server, open, active, polls, timer, leaked, uploading, activeRemoteOpenId, opens,
                      uploads, overlapped, clicks>>
      BY <2>1 DEF tabs, polling, loading
    <3> QED
      BY <3>1 DEF TabsInv, TabsTypeOK, PendingIsPolled, KnownInv, OpeningInv, OverlapInv, TwiceInv
  <2>2. ASSUME NEW round \in BagToSet(polls), Poll(round) PROVE TabsInv'
    BY <2>2, PollStep
  <2>3. CASE TimerFires
    BY <2>3, TimerStep
  <2>4. ASSUME NEW d \in Remote, NEW append \in BOOLEAN, OpenRemote(d, append) PROVE TabsInv'
    BY <2>4, OpenRemoteStep
  <2>5. ASSUME NEW op \in BagToSet(opens), Opened(op) \/ OpenFails(op) PROVE TabsInv'
    BY <2>5, OpenedStep, OpenFailsStep
  <2>6. CASE StartUpload \/ UploadStep
    BY <2>6, StartUploadStep, UploadFileStep, UploadFileFailsStep, UploadEndsStep DEF UploadStep
  <2>7. CASE ClearSession \/ \E d \in Docs : RemoveOpenDocument(d)
    BY <2>7, CloseStep
  <2>8. ASSUME NEW d \in Docs, SelectDocument(d) \/ ServerFinishes(d) PROVE TabsInv'
    BY <2>8, SelectStep, ServerStep
  <2> QED
    BY <2>1, <2>2, <2>3, <2>4, <2>5, <2>6, <2>7, <2>8 DEF TabsNext
<1> QED
  BY <1>1, <1>2, PTL DEF TabsSpec

\* Tabs, calls, rounds and timers are values the service can hold, for any
\* library and uploads (DocumentSessionService).
THEOREM TabsTypeCorrect == TabsSpec => []TabsTypeOK
<1>1. TabsInv => TabsTypeOK
  BY DEF TabsInv
<1> QED
  BY <1>1, TabsInvariant, PTL

\* For any library, uploads and clicks: while an open document is not done, a
\* request, a timer or an upload is there that asks on, whichever uploads and
\* opens overlap (startStatusPolling, stopStatusPolling, uploadPdfsFromFiles).
THEOREM PendingPolled == TabsSpec => []PendingIsPolled
<1>1. TabsInv => PendingIsPolled
  BY DEF TabsInv
<1> QED
  BY <1>1, TabsInvariant, PTL

\* For any library, uploads and clicks: a document has two tabs only if two
\* calls of openRemotePdf for it overlapped.
THEOREM TwiceByOverlap == TabsSpec => []TwiceOnlyByOverlap
<1>1. TabsInv => TwiceOnlyByOverlap
  <2> SUFFICES ASSUME TabsInv, NEW i \in DOMAIN open, NEW j \in DOMAIN open,
                      i # j, open[i].id = open[j].id
               PROVE  open[i].id \in overlapped
    BY DEF TwiceOnlyByOverlap
  <2>1. open[i].id \in Docs
    BY TabsTypes, TabsAreDocs DEF TabsInv, Ids
  <2> QED
    BY <2>1 DEF TabsInv, TwiceInv, Twice
<1> QED
  BY <1>1, TabsInvariant, PTL

HIDE SessionAssumption DEF SessionAssumption

-----------------------------------------------------------------------------
(* The account: inductive invariant *)

\* Until it is validated, the stored session is the one of the page.
SessionInv ==
    /\ profile = token \/ crossed
    /\ validating # NoUser => token = validating \/ crossed

\* A status, on show or on its way, is that of a user, and of the one who is
\* signed in.
StatusInv ==
    /\ shown.user = NoUser => shown = NoStatus
    /\ shown.user # NoUser /\ token # NoUser => shown.user = token \/ switched
    /\ \A i \in DOMAIN fetch : InFlight(i) =>
         /\ fetch[i].user \in Users
         /\ token # NoUser => fetch[i].user = token \/ switched

\* A chat in progress is a user's, and is counted before the meter is. What
\* it was checked with holds on until the day ends.
ChatInProgress ==
    /\ metered.pc = "none" => metered = NoChatNow
    /\ metered.pc # "none" => metered.user \in Users
    /\ metered.pc = "answer" =>
         /\ metered.used + 1 <= chats
         /\ metered.used = usage[metered.user] \/ raced
    /\ \A u \in Users : usage[u] + (IF metered.pc = "none" THEN 0 ELSE 1) <= chats

\* While nothing overlapped, what was read of the meter still holds, and the
\* status on show runs one chat ahead of the meter at most.
MeterInv ==
    ~raced /\ ~switched =>
      /\ \A i \in DOMAIN fetch : InFlight(i) =>
           /\ metered = NoChatNow
           /\ fetch[i].pc = "read" => fetch[i].words = usage[fetch[i].user]
      /\ shown # NoStatus =>
           /\ metered # NoChatNow => shown.user = metered.user
           /\ shown.words = usage[shown.user] + (IF metered.pc = "record" THEN 1 ELSE 0)

AccountInv == AccountTypeOK /\ SessionInv /\ StatusInv /\ ChatInProgress /\ MeterInv

USE AccountAssumption DEF AccountAssumption

-----------------------------------------------------------------------------
(* The account: steps *)

\* What AccountTypeOK says of each variable.
LEMMA AccountTypes ==
    ASSUME AccountTypeOK
    PROVE  /\ token \in Users \union {NoUser} /\ profile \in Users \union {NoUser}
           /\ validating \in Users \union {NoUser} /\ signingIn \in Users \union {NoUser}
           /\ usage \in [Users -> Words]
           /\ DOMAIN fetch = 1..MaxFetches
           /\ \A i \in DOMAIN fetch :
                fetch[i] \in [pc : {"new", "sent", "read", "ended"},
                              user : Users \union {NoUser}, words : Words]
           /\ shown \in [user : Users \union {NoUser}, words : Words]
           /\ metered \in [pc : {"none", "answer", "record"}, user : Users \union {NoUser}, used : Words]
           /\ chats \in 0..MaxChats
           /\ crossed \in BOOLEAN /\ switched \in BOOLEAN /\ raced \in BOOLEAN
  BY DEF AccountTypeOK

\* The session's steps leave billing alone.
LEMMA SessionStep ==
    ASSUME AccountInv,
           Validated \/ (\E u \in Users : SignIn(u)) \/ SignedIn \/ SignOut
    PROVE  AccountInv'
<1> USE AccountTypes DEF AccountInv, BillingUnchanged, ForgetSession
<1>1. AccountTypeOK'
  BY DEF AccountTypeOK, Validated, SignIn, SignedIn, SignOut
<1>2. SessionInv'
  BY DEF SessionInv, Validated, SignIn, SignedIn, SignOut
<1>3. StatusInv'
  <2>1. UNCHANGED <<shown, fetch>>
    BY DEF Validated, SignIn, SignedIn, SignOut
  <2>2. CASE token' \in {token, NoUser} /\ switched' = switched
    BY <2>1, <2>2 DEF StatusInv, InFlight, NoStatus
  <2>3. CASE /\ token' = signingIn /\ signingIn # NoUser
             /\ switched' = \/ switched
                            \/ shown.user \notin {signingIn, NoUser}
                            \/ \E i \in DOMAIN fetch : InFlight(i) /\ fetch[i].user # signingIn
    BY <2>1, <2>3 DEF StatusInv, InFlight, NoStatus
  <2> QED
    BY <2>2, <2>3 DEF Validated, SignIn, SignedIn, SignOut
<1>4. ChatInProgress' /\ MeterInv'
  <2>1. UNCHANGED <<usage, fetch, shown, metered, chats, raced>>
    BY DEF Validated, SignIn, SignedIn, SignOut
  <2>2. switched => switched'
    BY Zenon DEF Validated, SignIn, SignedIn, SignOut
  <2> QED
    BY <2>1, <2>2 DEF ChatInProgress, MeterInv, InFlight, NoChatNow, NoStatus
<1> QED
  BY <1>1, <1>2, <1>3, <1>4

\* A fetch that starts is the user's; if anything else was in progress, it is
\* remembered that they raced.
LEMMA StartFetchStep ==
    ASSUME AccountInv, Load \/ Refresh
    PROVE  AccountInv'
<1> USE AccountTypes DEF AccountInv
<1>0. /\ UNCHANGED <<session, usage, shown, metered, chats, crossed, switched>>
      /\ token # NoUser /\ StartFetch
  BY DEF Load, Refresh
<1>1. PICK i \in DOMAIN fetch :
        /\ fetch' = [fetch EXCEPT ![i] = [pc |-> "sent", user |-> token, words |-> 0]]
        /\ loadPromise' = i
        /\ raced' = (raced \/ SomeInFlight \/ metered # NoChatNow)
  BY <1>0 DEF StartFetch
<1>2. AccountTypeOK'
  BY <1>0, <1>1 DEF AccountTypeOK, session, Words
<1>3. SessionInv'
  BY <1>0 DEF SessionInv, session
<1>4. StatusInv'
  BY <1>0, <1>1 DEF StatusInv, session, InFlight, NoStatus
<1>5. ChatInProgress'
  <2>1. raced => raced'
    BY <1>1, Zenon
  <2> QED
    BY <1>0, <2>1 DEF ChatInProgress, session, NoChatNow
<1>6. MeterInv'
  BY <1>0, <1>1 DEF MeterInv, session, InFlight, SomeInFlight, NoChatNow, NoStatus
<1> QED
  BY <1>2, <1>3, <1>4, <1>5, <1>6

LEMMA ServerReadsStep ==
    ASSUME AccountInv, NEW i \in DOMAIN fetch, ServerReads(i)
    PROVE  AccountInv'
<1> USE AccountTypes DEF AccountInv, ServerReads, session
<1>1. fetch[i].user \in Users /\ usage[fetch[i].user] \in Words
  BY DEF StatusInv, InFlight
<1>2. AccountTypeOK'
  BY <1>1 DEF AccountTypeOK
<1>3. SessionInv' /\ ChatInProgress'
  BY DEF SessionInv, ChatInProgress, NoChatNow
<1>4. StatusInv'
  BY DEF StatusInv, InFlight, NoStatus
<1>5. MeterInv'
  BY <1>1 DEF MeterInv, InFlight, NoChatNow, NoStatus
<1> QED
  BY <1>2, <1>3, <1>4, <1>5

\* What is shown is what was read, of the user who is signed in.
LEMMA FetchedStep ==
    ASSUME AccountInv, NEW i \in DOMAIN fetch, Fetched(i)
    PROVE  AccountInv'
<1> USE AccountTypes DEF AccountInv, Fetched, session
<1>1. /\ fetch[i].user \in Users /\ fetch[i].words \in Words
      /\ token # NoUser => fetch[i].user = token \/ switched
  BY DEF StatusInv, InFlight
<1>2. AccountTypeOK'
  BY <1>1 DEF AccountTypeOK
<1>3. SessionInv' /\ ChatInProgress'
  BY DEF SessionInv, ChatInProgress, NoChatNow
<1>4. StatusInv'
  BY <1>1 DEF StatusInv, InFlight, NoStatus
<1>5. MeterInv'
  <2> SUFFICES ASSUME ~raced, ~switched PROVE MeterInv'
    BY DEF MeterInv
  <2>1. metered = NoChatNow /\ metered.pc = "none" /\ fetch[i].words = usage[fetch[i].user]
    BY DEF MeterInv, InFlight, NoChatNow
  <2>2. CASE shown' = shown
    BY <2>1, <2>2 DEF MeterInv, InFlight, NoStatus
  <2>3. CASE shown' = [user |-> fetch[i].user, words |-> fetch[i].words]
    BY <1>1, <2>1, <2>3 DEF MeterInv, InFlight, Words
  <2> QED
    BY <2>2, <2>3
<1> QED
  BY <1>2, <1>3, <1>4, <1>5

\* A chat is started by the user whose status is on show, reported one ahead
\* of the meter, and recorded.
LEMMA ChatStep ==
    ASSUME AccountInv, StartChat \/ UsageEvent \/ RecordChat
    PROVE  AccountInv'
<1> USE AccountTypes DEF AccountInv, session
<1>1. CASE StartChat
  <2> USE <1>1 DEF StartChat
  <2>1. token \in Users /\ usage[token] \in Words /\ metered = NoChatNow /\ metered.pc = "none"
    BY DEF NoChatNow
  <2>2. AccountTypeOK'
    BY <2>1 DEF AccountTypeOK
  <2>3. SessionInv' /\ StatusInv'
    BY DEF SessionInv, StatusInv, InFlight, NoStatus
  <2>4. ChatInProgress'
    BY <2>1 DEF ChatInProgress, Words
  <2>5. MeterInv'
    BY <2>1 DEF MeterInv, StatusInv, SomeInFlight, InFlight, NoStatus
  <2> QED
    BY <2>2, <2>3, <2>4, <2>5
<1>2. CASE UsageEvent
  <2> USE <1>2 DEF UsageEvent
  <2>1. /\ metered.user \in Users
        /\ metered.used = usage[metered.user] \/ raced
        /\ metered.used + 1 \in Words
    <3>1. metered.used + 1 <= chats /\ metered.used \in 0..MaxChats /\ chats \in 0..MaxChats
      BY DEF ChatInProgress, Words
    <3>2. metered.used + 1 \in Words
      BY <3>1 DEF Words
    <3> QED
      BY <3>2 DEF ChatInProgress
  <2>2. AccountTypeOK'
    <3>1. raced' \in BOOLEAN
      BY Zenon
    <3>2. shown' \in [user : Users \union {NoUser}, words : Words]
      BY <2>1
    <3> QED
      BY <3>1, <3>2 DEF AccountTypeOK
  <2>3. SessionInv' /\ StatusInv'
    BY DEF SessionInv, StatusInv, InFlight, NoStatus
  <2>4. ChatInProgress'
    BY <2>1 DEF ChatInProgress, Words
  <2>5. MeterInv'
    BY <2>1 DEF MeterInv, StatusInv, InFlight, NoStatus, NoChatNow
  <2> QED
    BY <2>2, <2>3, <2>4, <2>5
<1>3. CASE RecordChat
  <2>1. /\ metered.pc = "record" /\ metered' = NoChatNow /\ metered'.pc = "none"
        /\ UNCHANGED <<token, profile, validating, signingIn, fetch, loadPromise, shown, chats,
                       crossed, switched>>
        /\ \/ usage' = [usage EXCEPT ![metered.user] = @ + 1] /\ raced' = raced
           \/ raced' = TRUE /\ usage' = usage
    BY <1>3 DEF RecordChat, NoChatNow
  <2>2. metered.user \in Users /\ metered # NoChatNow
    BY <2>1 DEF ChatInProgress, NoChatNow
  <2>3. usage[metered.user] + 1 \in Words
    <3>1. usage[metered.user] \in Nat /\ chats \in Nat /\ chats <= MaxChats /\ MaxChats \in Nat
      BY <2>2 DEF Words
    <3>2. usage[metered.user] + 1 <= chats
      BY <2>1, <2>2 DEF ChatInProgress
    <3> QED
      BY <3>1, <3>2 DEF Words
  <2>4. usage' \in [Users -> Words] /\ raced' \in BOOLEAN
    <3>1. usage' \in [Users -> Words]
      BY <2>1, <2>2, <2>3
    <3>2. raced' \in BOOLEAN
      BY <2>1, Zenon
    <3> QED
      BY <3>1, <3>2
  <2>5. AccountTypeOK'
    <3>1. metered' \in [pc : {"none", "answer", "record"}, user : Users \union {NoUser}, used : Words]
      BY <2>1 DEF NoChatNow, Words
    <3> QED
      BY <2>1, <2>4, <3>1 DEF AccountTypeOK
  <2>6. SessionInv' /\ StatusInv'
    BY <2>1 DEF SessionInv, StatusInv, InFlight, NoStatus
  <2>7. \A u \in Users : usage[u] \in Nat /\ usage'[u] <= usage[u] + 1 /\ (u # metered.user => usage'[u] = usage[u])
    BY <2>1, <2>2 DEF Words
  <2>8. ChatInProgress'
    <3>1. ASSUME NEW u \in Users PROVE usage'[u] <= chats
      <4>1. usage[u] + 1 <= chats
        BY <2>1 DEF ChatInProgress
      <4>2. usage[u] \in Nat /\ usage'[u] \in Nat /\ usage'[u] <= usage[u] + 1 /\ chats \in Nat
        BY <2>4, <2>7 DEF Words
      <4> QED
        BY <4>1, <4>2
    <3> QED
      BY <2>1, <2>4, <3>1, SMTT(30) DEF ChatInProgress, Words
  <2>9. MeterInv'
    <3> SUFFICES ASSUME ~raced', ~switched PROVE MeterInv'
      BY <2>1 DEF MeterInv
    <3>0. ~raced /\ usage' = [usage EXCEPT ![metered.user] = @ + 1]
      BY <2>1, Zenon
    <3>1. \A i \in DOMAIN fetch : ~InFlight(i)
      BY <2>2, <3>0 DEF MeterInv
    <3>2. ASSUME shown # NoStatus
          PROVE  shown.user = metered.user /\ shown.words = usage[shown.user] + 1
      BY <2>1, <2>2, <3>0, <3>2 DEF MeterInv
    <3>3. usage'[metered.user] = usage[metered.user] + 1
      BY <2>2, <3>0
    <3>4. shown # NoStatus => shown.words = usage'[shown.user] /\ usage'[shown.user] \in Nat
      BY <2>2, <2>7, <3>2, <3>3
    <3> QED
      BY <2>1, <3>1, <3>4 DEF MeterInv, InFlight, NoStatus
  <2> QED
    BY <2>5, <2>6, <2>8, <2>9
<1> QED
  BY <1>1, <1>2, <1>3

\* What the end of a day makes stale is remembered.
LEMMA MidnightStep ==
    ASSUME AccountInv, Midnight
    PROVE  AccountInv'
<1> USE AccountTypes DEF AccountInv
<1>1. /\ UNCHANGED <<token, profile, validating, signingIn, fetch, loadPromise, shown, metered, chats,
                     crossed, switched>>
      /\ usage' = NewDay
      /\ raced' = (raced \/ shown # NoStatus \/ SomeInFlight \/ metered # NoChatNow)
  BY DEF Midnight, session
<1>2. usage' \in [Users -> Words] /\ \A u \in Users : usage'[u] = 0 /\ usage[u] \in Nat
  BY <1>1 DEF NewDay, Words
<1>3. raced' \in BOOLEAN
  BY <1>1, Zenon
<1>4. AccountTypeOK'
  BY <1>1, <1>2, <1>3 DEF AccountTypeOK
<1>5. SessionInv' /\ StatusInv'
  BY <1>1 DEF SessionInv, StatusInv, InFlight, NoStatus
<1>6. ChatInProgress'
  <2>1. metered.pc = "answer" => raced'
    <3>1. NoChatNow.pc = "none"
      BY DEF NoChatNow
    <3> QED
      BY <1>1, <3>1, Zenon
  <2>2. \A u \in Users : usage'[u] + (IF metered.pc = "none" THEN 0 ELSE 1) <= chats
    BY <1>2 DEF ChatInProgress, Words
  <2> QED
    BY <1>1, <2>1, <2>2 DEF ChatInProgress, NoChatNow
<1>7. MeterInv'
  BY <1>1 DEF MeterInv, InFlight, SomeInFlight, NoStatus, NoChatNow
<1> QED
  BY <1>4, <1>5, <1>6, <1>7

LEMMA AccountInvariant == AccountSpec => []AccountInv
<1>1. ASSUME AccountInit PROVE AccountInv
  <2>1. AccountTypeOK
    <3> USE <1>1 DEF AccountInit, NewDay
    <3>1. 0 \in Words /\ shown \in [user : Users \union {NoUser}, words : Words]
      BY DEF Words, NoStatus
    <3>2. metered \in [pc : {"none", "answer", "record"}, user : Users \union {NoUser}, used : Words]
      BY <3>1 DEF NoChatNow
    <3>3. fetch \in [1..MaxFetches -> [pc : {"new", "sent", "read", "ended"},
                                        user : Users \union {NoUser}, words : Words]]
      BY <3>1
    <3>4. crossed \in BOOLEAN /\ switched \in BOOLEAN /\ raced \in BOOLEAN
      BY Zenon
    <3>5. chats \in 0..MaxChats /\ loadPromise \in 0..MaxFetches /\ usage \in [Users -> Words]
      BY <3>1
    <3> QED
      BY <3>1, <3>2, <3>3, <3>4, <3>5 DEF AccountTypeOK
  <2>2. SessionInv /\ StatusInv /\ ChatInProgress /\ MeterInv
    BY <1>1 DEF AccountInit, NewDay, SessionInv, StatusInv, ChatInProgress, MeterInv, InFlight, NoStatus, NoChatNow
  <2> QED
    BY <2>1, <2>2 DEF AccountInv
<1>2. AccountInv /\ [AccountNext]_account => AccountInv'
  <2>1. ASSUME AccountInv, AccountNext PROVE AccountInv'
    BY <2>1, SessionStep, StartFetchStep, ServerReadsStep, FetchedStep, ChatStep, MidnightStep DEF AccountNext
  <2>2. ASSUME AccountInv, UNCHANGED account PROVE AccountInv'
    BY <2>2
    DEF AccountInv, AccountTypeOK, SessionInv, StatusInv, ChatInProgress, MeterInv, InFlight, account, session
  <2> QED
    BY <2>1, <2>2
<1> QED
  BY <1>1, <1>2, PTL DEF AccountSpec

\* Type correctness (AuthService, BillingService and the server's meter).
THEOREM AccountTypeCorrect == AccountSpec => []AccountTypeOK
  BY AccountInvariant, PTL DEF AccountInv

\* The profile and the billing status on show are those of the reader who is
\* signed in, but for the races, the lost writes and the midnights it names
\* (AuthService.validateSession, BillingService.fetchStatus, applyUsageEvent,
\* chat_stream_with_usage).
THEOREM ReadersAccount == AccountSpec => []AccountIsTheReaders
<1>1. ASSUME AccountInv PROVE AccountIsTheReaders
  <2>1. NoStatus.user = NoUser /\ NoChatNow.pc = "none"
    BY DEF NoStatus, NoChatNow
  <2> QED
    <3>1. profile = token \/ crossed
      BY <1>1 DEF AccountInv, SessionInv
    <3>2. shown # NoStatus /\ token # NoUser => shown.user = token \/ switched
      BY <1>1 DEF AccountInv, StatusInv
    <3>3. ASSUME shown # NoStatus, metered = NoChatNow, ~switched, ~raced
          PROVE  shown.words = usage[shown.user]
      <4>1. shown.user \in Users /\ usage[shown.user] \in Nat
        BY <1>1, <3>3, AccountTypes DEF AccountInv, StatusInv, Words
      <4> QED
        BY <1>1, <2>1, <3>3, <4>1 DEF AccountInv, MeterInv
    <3> QED
      BY <3>1, <3>2, <3>3 DEF AccountIsTheReaders
<1> QED
  BY <1>1, AccountInvariant, PTL

-----------------------------------------------------------------------------
(* The viewer: inductive invariant *)

LoadCalls == [doc : Pdfs, mounted : BOOLEAN,
              pc : {"cancel", "queued", "opening", "layout", "paint", "ended"}]

LastLoad == Len(loads)
LastPc == loads[LastLoad].pc

\* The mounted viewer waits for the last call, which is for the document it
\* was given.
GivenInv ==
    /\ given = NoDoc => \A i \in DOMAIN loads : ~loads[i].mounted
    /\ given # NoDoc => LastLoad > 0 /\ loads[LastLoad].mounted /\ loads[LastLoad].doc = given

\* Calls that wait for a pass to end wait for one that runs, and go on
\* together; the last call opens its document only after the others ended.
OrderInv ==
    /\ (\E i \in DOMAIN loads : loads[i].pc = "cancel") => Rendering
    /\ \A i, j \in DOMAIN loads : i < j /\ loads[i].pc = "cancel" => loads[j].pc = "cancel"
    /\ ~queueBroken /\ LastLoad > 0 /\ LastPc \notin {"cancel", "queued"} =>
         \A i \in DOMAIN loads : i < LastLoad => loads[i].pc = "ended"

\* What is open and on show by the step the last call is at.
ShowsInv ==
    given # NoDoc /\ ~queueBroken =>
      /\ LastPc = "opening" => pdf = NoDoc /\ pass = NoDoc
      /\ LastPc = "layout" => pdf = given /\ pass = NoDoc /\ ready /\ ~cancelled
      /\ LastPc \in {"paint", "ended"} =>
           pdf = given /\ pass \in {NoDoc, given} /\ ready /\ ~cancelled
      /\ LastPc = "paint" => host = given
      /\ LastPc = "ended" => host = given \/ (given \in Damaged /\ error)
      /\ LastPc = "ended" => ~loadingPdf

\* Where no call was overtaken by the next, only the last one is in progress.
OvertakenInv ==
    /\ ~superseded => \A i \in DOMAIN loads : i < LastLoad /\ loads[i].mounted => loads[i].pc = "ended"
    /\ error => superseded \/ queueBroken \/ given \in Damaged

\* The page the reader is at is one of the document on show, and so are those
\* that were saved.
PlaceInv ==
    superseded \/ readEarly \/ queueBroken \/
      /\ given \notin Damaged \union {NoDoc} /\ LastPc \in {"layout", "paint", "ended"} => place = given
      /\ \A d \in Pdfs \ Damaged : saved[d] \in {NoDoc, d}

ViewerInv == ViewerTypeOK /\ GivenInv /\ OrderInv /\ ShowsInv /\ OvertakenInv /\ PlaceInv

HIDE AccountAssumption DEF AccountAssumption
USE ViewerAssumption DEF ViewerAssumption

-----------------------------------------------------------------------------
(* The viewer: the calls of loadPdf *)

LEMMA CallsType ==
    ASSUME NEW l \in Seq(LoadCalls)
    PROVE  /\ Len(l) \in Nat /\ DOMAIN l = 1..Len(l)
           /\ \A i \in DOMAIN l : l[i] \in LoadCalls
  OBVIOUS

LEMMA CallsOf ==
    ASSUME NEW n \in Nat, NEW l \in [1..n -> LoadCalls]
    PROVE  l \in Seq(LoadCalls) /\ Len(l) = n /\ DOMAIN l = 1..n
  BY SeqDef

\* m are the calls l after the i-th has gone on to the step pc.
IsStep(m, l, i, pc) ==
    /\ m \in Seq(LoadCalls) /\ Len(m) = Len(l) /\ DOMAIN m = DOMAIN l
    /\ \A j \in DOMAIN l : /\ j # i => m[j].pc = l[j].pc
                           /\ m[j].mounted = l[j].mounted
                           /\ m[j].doc = l[j].doc
    /\ m[i].pc = pc

LEMMA StepOf ==
    ASSUME NEW l \in Seq(LoadCalls), NEW i \in DOMAIN l,
           NEW pc \in {"cancel", "queued", "opening", "layout", "paint", "ended"}
    PROVE  IsStep(Step(l, i, pc), l, i, pc)
<1> DEFINE m == Step(l, i, pc)
<1>1. m \in [1..Len(l) -> LoadCalls]
  BY CallsType, ZenonT(30) DEF Step, LoadCalls
<1>2. m \in Seq(LoadCalls) /\ Len(m) = Len(l) /\ DOMAIN m = DOMAIN l
  BY <1>1, CallsOf, CallsType
<1> QED
  BY <1>2, CallsType DEF IsStep, Step, LoadCalls

LEMMA ReleasedOf ==
    ASSUME NEW l \in Seq(LoadCalls)
    PROVE  /\ Released(l) \in Seq(LoadCalls) /\ Len(Released(l)) = Len(l)
           /\ DOMAIN Released(l) = DOMAIN l
           /\ \A j \in DOMAIN l :
                /\ Released(l)[j].mounted = l[j].mounted /\ Released(l)[j].doc = l[j].doc
                /\ Released(l)[j].pc = IF l[j].pc = "cancel" THEN "queued" ELSE l[j].pc
<1>1. Released(l) \in [1..Len(l) -> LoadCalls]
  BY CallsType DEF Released, LoadCalls
<1>2. Released(l) \in Seq(LoadCalls) /\ Len(Released(l)) = Len(l) /\ DOMAIN Released(l) = DOMAIN l
  BY <1>1, CallsOf, CallsType
<1> QED
  BY <1>2, CallsType DEF Released, LoadCalls

LEMMA PassesEndOf ==
    ASSUME NEW l \in Seq(LoadCalls)
    PROVE  /\ PassesEnd(l) \in Seq(LoadCalls) /\ Len(PassesEnd(l)) = Len(l)
           /\ DOMAIN PassesEnd(l) = DOMAIN l
           /\ \A j \in DOMAIN l :
                /\ PassesEnd(l)[j].mounted = l[j].mounted /\ PassesEnd(l)[j].doc = l[j].doc
                /\ PassesEnd(l)[j].pc = IF l[j].pc = "cancel" THEN "queued"
                                        ELSE IF l[j].pc \in {"layout", "paint"} THEN "ended" ELSE l[j].pc
<1> DEFINE m == [i \in DOMAIN l |->
                   IF l[i].pc \in {"layout", "paint"} THEN [l[i] EXCEPT !.pc = "ended"] ELSE l[i]]
<1>1. m \in [1..Len(l) -> LoadCalls]
  BY CallsType DEF LoadCalls
<1>2. m \in Seq(LoadCalls) /\ Len(m) = Len(l) /\ DOMAIN m = DOMAIN l
  BY <1>1, CallsOf, CallsType
<1>3. \A j \in DOMAIN l :
        /\ m[j].mounted = l[j].mounted /\ m[j].doc = l[j].doc
        /\ m[j].pc = IF l[j].pc \in {"layout", "paint"} THEN "ended" ELSE l[j].pc
  BY CallsType DEF LoadCalls
<1> HIDE DEF m
<1>4. /\ Released(m) \in Seq(LoadCalls) /\ Len(Released(m)) = Len(l) /\ DOMAIN Released(m) = DOMAIN l
      /\ \A j \in DOMAIN l :
           /\ Released(m)[j].mounted = m[j].mounted /\ Released(m)[j].doc = m[j].doc
           /\ Released(m)[j].pc = IF m[j].pc = "cancel" THEN "queued" ELSE m[j].pc
  BY <1>2, ReleasedOf
<1>5. PassesEnd(l) = Released(m)
  BY DEF PassesEnd, m
<1> QED
  BY <1>3, <1>4, <1>5

LEMMA ViewerTypes ==
    ASSUME ViewerTypeOK
    PROVE  /\ given \in Pdfs \union {NoDoc} /\ pdf \in Pdfs \union {NoDoc} /\ host \in Pdfs \union {NoDoc}
           /\ pass \in Pdfs \union {NoDoc} /\ place \in Pdfs \union {NoDoc}
           /\ loads \in Seq(LoadCalls)
           /\ queueBroken \in BOOLEAN /\ cancelled \in BOOLEAN /\ loadingPdf \in BOOLEAN
           /\ ready \in BOOLEAN /\ error \in BOOLEAN /\ repaint \in BOOLEAN /\ debounced \in BOOLEAN
           /\ superseded \in BOOLEAN /\ readEarly \in BOOLEAN
           /\ saved \in [Pdfs -> Pdfs \union {NoDoc}]
           /\ LastLoad \in Nat /\ DOMAIN loads = 1..LastLoad /\ \A i \in DOMAIN loads : loads[i] \in LoadCalls
  BY CallsType DEF ViewerTypeOK, Maybe, LoadCalls, LastLoad

-----------------------------------------------------------------------------
(* The viewer: steps *)

\* The step the last call is at, and what follows for the others.
LEMMA LastCall ==
    ASSUME ViewerInv, given # NoDoc
    PROVE  /\ LastLoad \in DOMAIN loads /\ loads[LastLoad].mounted /\ loads[LastLoad].doc = given
           /\ LastPc \in {"cancel", "queued", "opening", "layout", "paint", "ended"}
  BY ViewerTypes DEF ViewerInv, GivenInv, LastPc, LoadCalls

LEMMA GiveStep ==
    ASSUME ViewerInv, NEW d \in Pdfs, Give(d)
    PROVE  ViewerInv'
<1> DEFINE call == [doc |-> d, mounted |-> TRUE, pc |-> IF Rendering THEN "cancel" ELSE "queued"]
<1> USE ViewerTypes DEF ViewerInv, Give
<1>1. call \in LoadCalls
  BY DEF LoadCalls
<1>2. /\ loads' \in Seq(LoadCalls) /\ LastLoad' = LastLoad + 1 /\ DOMAIN loads' = 1..(LastLoad + 1)
      /\ \A i \in DOMAIN loads : loads'[i] = loads[i]
      /\ loads'[LastLoad + 1] = call
  BY <1>1 DEF LastLoad
<1> HIDE DEF call
<1>3. call.doc = d /\ call.mounted /\ call.pc = IF Rendering THEN "cancel" ELSE "queued"
  BY DEF call
<1>4. ViewerTypeOK'
  <2>1. superseded' \in BOOLEAN
    BY Zenon
  <2>2. saved' \in [Pdfs -> Pdfs \union {NoDoc}]
    OBVIOUS
  <2> QED
    BY <1>2, <2>1, <2>2 DEF ViewerTypeOK, LoadCalls, Maybe
<1>5. GivenInv'
  BY <1>2, <1>3 DEF GivenInv
<1>6. OrderInv'
  <2>1. Rendering => Rendering'
    BY <1>2 DEF Rendering
  <2>2. LastPc' \in {"cancel", "queued"}
    BY <1>2, <1>3 DEF LastPc
  <2> QED
    BY <1>2, <1>3, <2>1, <2>2 DEF OrderInv
<1>7. ShowsInv'
  BY <1>2, <1>3 DEF ShowsInv, LastPc
<1>8. OvertakenInv'
  <2>1. ~superseded' => ~LoadsInProgress
    BY Zenon
  <2> QED
    BY <1>2, <1>3, <2>1 DEF OvertakenInv, LoadsInProgress
<1>9. PlaceInv'
  <2> SUFFICES ASSUME ~superseded', ~readEarly, ~queueBroken PROVE PlaceInv'
    BY DEF PlaceInv
  <2>1. ~superseded /\ ~LoadsInProgress
    OBVIOUS
  <2>2. given \notin Damaged \union {NoDoc} => place = given
    BY <2>1, LastCall DEF LoadsInProgress, PlaceInv, LastPc
  <2>3. LastPc' \in {"cancel", "queued"}
    BY <1>2, <1>3 DEF LastPc
  <2> QED
    BY <2>1, <2>2, <2>3 DEF PlaceInv
<1> QED
  BY <1>4, <1>5, <1>6, <1>7, <1>8, <1>9

\* The load given last stays so while no load is added, removed or remounted.
LEMMA GivenKept ==
    ASSUME ViewerTypeOK, GivenInv, given' = given, LastLoad' = LastLoad, DOMAIN loads' = DOMAIN loads,
           \A j \in DOMAIN loads : loads'[j].mounted = loads[j].mounted /\ loads'[j].doc = loads[j].doc
    PROVE  GivenInv'
<1>1. LastLoad > 0 => LastLoad \in DOMAIN loads
  BY ViewerTypes
<1> QED BY <1>1 DEF GivenInv

\* The queue comes to a call: every pass ends, and the last call finds all
\* the others ended.
LEMMA RunLoadStep ==
    ASSUME ViewerInv, NEW i \in DOMAIN loads, RunLoad(i)
    PROVE  ViewerInv'
<1> DEFINE l == PassesEnd(loads)
           pc == IF Newest(i) THEN "opening" ELSE "ended"
<1> USE ViewerTypes DEF ViewerInv
<1>1. /\ l \in Seq(LoadCalls) /\ Len(l) = LastLoad /\ DOMAIN l = DOMAIN loads
      /\ \A j \in DOMAIN loads :
           /\ l[j].mounted = loads[j].mounted /\ l[j].doc = loads[j].doc
           /\ l[j].pc = IF loads[j].pc = "cancel" THEN "queued"
                        ELSE IF loads[j].pc \in {"layout", "paint"} THEN "ended" ELSE loads[j].pc
  BY PassesEndOf DEF LastLoad
<1>2. /\ loads' = Step(l, i, pc) /\ pc \in {"opening", "ended"}
      /\ loads[i].pc = "queued" /\ ~queueBroken /\ (\A j \in 1..(i - 1) : ~InQueue(j))
      /\ pdf' = NoDoc /\ pass' = NoDoc
      /\ UNCHANGED <<given, queueBroken, host, ready, cancelled, repaint, debounced, reading>>
  BY DEF RunLoad
<1> HIDE DEF l, pc
<1>3. /\ loads' \in Seq(LoadCalls) /\ LastLoad' = LastLoad /\ DOMAIN loads' = DOMAIN loads
      /\ \A j \in DOMAIN loads :
           /\ loads'[j].mounted = loads[j].mounted /\ loads'[j].doc = loads[j].doc
           /\ j # i => loads'[j].pc =
                 IF loads[j].pc = "cancel" THEN "queued"
                 ELSE IF loads[j].pc \in {"layout", "paint"} THEN "ended" ELSE loads[j].pc
      /\ loads'[i].pc = pc
  <2>1. i \in DOMAIN l /\ pc \in {"cancel", "queued", "opening", "layout", "paint", "ended"}
    BY <1>1, <1>2
  <2>2. IsStep(loads', l, i, pc)
    BY <1>1, <1>2, <2>1, StepOf, Zenon
  <2> QED
    BY <1>1, <2>2 DEF IsStep, LastLoad
<1>4. i = LastLoad => pc = "opening" /\ \A j \in DOMAIN loads : j < LastLoad => loads'[j].pc = "ended"
  <2>1. i = LastLoad => Newest(i)
    BY DEF Newest
  <2>2. ASSUME i = LastLoad, NEW j \in DOMAIN loads, j < LastLoad PROVE loads'[j].pc = "ended"
    <3>1. loads[j].pc \notin {"queued", "opening"} /\ loads[j].pc # "cancel"
      BY <1>2, <2>2 DEF InQueue, OrderInv
    <3> QED
      BY <1>3, <2>2, <3>1 DEF LoadCalls
  <2> QED
    BY <2>1, <2>2 DEF pc
<1>5. i # LastLoad => LastPc \in {"cancel", "queued"} /\ LastPc' = "queued"
  BY <1>2, <1>3 DEF OrderInv, LastPc
<1>6. ViewerTypeOK'
  <2>1. loadingPdf' \in BOOLEAN /\ error' \in BOOLEAN
    BY Zenon DEF RunLoad
  <2> QED
    BY <1>2, <1>3, <2>1 DEF ViewerTypeOK, reading, LoadCalls, Maybe
<1>7. GivenInv'
  BY <1>2, <1>3, GivenKept
<1>8. OrderInv'
  <2>1. \A j \in DOMAIN loads : loads'[j].pc # "cancel"
    BY <1>2, <1>3
  <2>2. LastPc' \notin {"cancel", "queued"} => \A j \in DOMAIN loads : j < LastLoad => loads'[j].pc = "ended"
    BY <1>3, <1>4, <1>5
  <2> QED
    BY <1>3, <2>1, <2>2 DEF OrderInv
<1>9. ShowsInv'
  BY <1>2, <1>3, <1>4, <1>5 DEF ShowsInv, LastPc
<1>10. OvertakenInv'
  <2>1. UNCHANGED superseded
    BY <1>2 DEF reading
  <2>2. ASSUME ~superseded, NEW j \in DOMAIN loads, j < LastLoad, loads[j].mounted PROVE loads'[j].pc = "ended"
    BY <1>2, <1>3, <2>2 DEF OvertakenInv
  <2>3. ASSUME error', ~superseded PROVE error
    <3>1. ASSUME NEW j \in DOMAIN loads, loads[j].mounted,
                 loads[j].pc \in {"layout", "paint"} \/ (j = i /\ ~Newest(i))
          PROVE  FALSE
      <4>1. j = LastLoad
        BY <1>2, <2>3, <3>1 DEF OvertakenInv
      <4>2. LastPc \in {"layout", "paint"} => loads[i].pc = "ended"
        BY <1>2, <4>1 DEF OrderInv, LastPc
      <4> QED
        BY <1>2, <3>1, <4>1, <4>2 DEF Newest, LastPc
    <3>2. error' => error \/ \E j \in DOMAIN loads :
                                loads[j].mounted /\ (loads[j].pc \in {"layout", "paint"} \/ (j = i /\ ~Newest(i)))
      <4> DEFINE ends == {j \in DOMAIN loads : loads[j].pc \in {"layout", "paint"}}
                           \union {j \in {i} : ~Newest(i)}
      <4>1. error' = (error \/ \E j \in ends : loads[j].mounted)
        BY DEF RunLoad
      <4>2. \A j \in ends : j \in DOMAIN loads /\ (loads[j].pc \in {"layout", "paint"} \/ (j = i /\ ~Newest(i)))
        OBVIOUS
      <4> HIDE DEF ends
      <4> QED
        BY <4>1, <4>2, Zenon
    <3> QED
      BY <2>3, <3>1, <3>2
  <2> QED
    BY <1>2, <1>3, <2>1, <2>2, <2>3 DEF OvertakenInv
<1>11. PlaceInv'
  BY <1>2, <1>3, <1>4, <1>5 DEF PlaceInv, reading, LastPc
<1> QED
  BY <1>6, <1>7, <1>8, <1>9, <1>10, <1>11

\* One call goes on, and the calls that wait for a pass may be released by it.
LEMMA OneStep ==
    ASSUME ViewerTypeOK, NEW i \in DOMAIN loads,
           NEW pc \in {"cancel", "queued", "opening", "layout", "paint", "ended"},
           loads' = Step(loads, i, pc)
    PROVE  IsStep(loads', loads, i, pc) /\ LastLoad' = LastLoad
<1>1. loads \in Seq(LoadCalls)
  BY ViewerTypes
<1>2. IsStep(loads', loads, i, pc)
  BY <1>1, StepOf, Zenon
<1> QED
  BY <1>2 DEF IsStep, LastLoad

LEMMA ReleasingStep ==
    ASSUME ViewerTypeOK, NEW i \in DOMAIN loads, NEW pc \in {"paint", "ended"},
           loads' = Step(Released(loads), i, pc) \/ loads' = Released(Step(loads, i, pc))
    PROVE  /\ loads' \in Seq(LoadCalls) /\ LastLoad' = LastLoad /\ DOMAIN loads' = DOMAIN loads
           /\ \A j \in DOMAIN loads :
                /\ j # i => loads'[j].pc = IF loads[j].pc = "cancel" THEN "queued" ELSE loads[j].pc
                /\ loads'[j].mounted = loads[j].mounted
                /\ loads'[j].doc = loads[j].doc
           /\ loads'[i].pc = pc
<1>1. loads \in Seq(LoadCalls) /\ pc \in {"cancel", "queued", "opening", "layout", "paint", "ended"}
  BY ViewerTypes
<1>2. CASE loads' = Step(Released(loads), i, pc)
  <2>1. /\ Released(loads) \in Seq(LoadCalls) /\ Len(Released(loads)) = LastLoad
        /\ DOMAIN Released(loads) = DOMAIN loads
        /\ \A j \in DOMAIN loads :
             /\ Released(loads)[j].mounted = loads[j].mounted /\ Released(loads)[j].doc = loads[j].doc
             /\ Released(loads)[j].pc = IF loads[j].pc = "cancel" THEN "queued" ELSE loads[j].pc
    BY <1>1, ReleasedOf DEF LastLoad
  <2>2. i \in DOMAIN Released(loads)
    BY <2>1
  <2>3. IsStep(loads', Released(loads), i, pc)
    BY <1>1, <1>2, <2>1, <2>2, StepOf, Zenon
  <2> QED
    BY <2>1, <2>3 DEF IsStep, LastLoad
<1>3. CASE loads' = Released(Step(loads, i, pc))
  <2> DEFINE l == Step(loads, i, pc)
  <2>1. IsStep(l, loads, i, pc)
    BY <1>1, StepOf, Zenon
  <2>2. loads' = Released(l)
    BY <1>3
  <2> HIDE DEF l
  <2> QED
    BY <2>1, <2>2, ReleasedOf DEF IsStep, LastLoad
<1> QED
  BY <1>2, <1>3

\* The last call, if an earlier one has not ended, has not reached the queue.
LEMMA EarlierCall ==
    ASSUME ViewerInv, NEW i \in DOMAIN loads, loads[i].pc # "ended", ~queueBroken, i # LastLoad
    PROVE  LastPc \in {"cancel", "queued"}
  BY ViewerTypes DEF ViewerInv, OrderInv

\* A call that ends without having been laid out leaves the others waiting.
LEMMA OrderOnFailure ==
    ASSUME ViewerInv, NEW i \in DOMAIN loads, loads[i].pc \in {"queued", "opening"},
           IsStep(loads', loads, i, "ended"), LastLoad' = LastLoad, pass' = pass, queueBroken'
    PROVE  OrderInv'
<1> USE ViewerTypes DEF ViewerInv, IsStep
<1>1. ASSUME NEW j \in DOMAIN loads, loads'[j].pc = "cancel" PROVE Rendering'
  <2>1. Rendering
    BY <1>1 DEF OrderInv
  <2> QED
    BY <2>1 DEF Rendering
<1>2. ASSUME NEW j \in DOMAIN loads, NEW k \in DOMAIN loads, j < k, loads'[j].pc = "cancel"
      PROVE  loads'[k].pc = "cancel"
  BY <1>2 DEF OrderInv
<1> QED
  BY <1>1, <1>2 DEF OrderInv

LEMMA RunNothingStep ==
    ASSUME ViewerInv, NEW i \in DOMAIN loads, RunNothing(i)
    PROVE  ViewerInv'
<1>1. /\ loads[i].pc = "queued" /\ queueBroken /\ loads' = Step(loads, i, "ended")
      /\ UNCHANGED <<given, queueBroken, pdf, host, painting, reading, ready>>
  BY DEF RunNothing, EndLoad
<1> USE ViewerTypes DEF ViewerInv, painting, reading, IsStep
<1>2. IsStep(loads', loads, i, "ended") /\ LastLoad' = LastLoad
  BY <1>1, OneStep
<1>3. ViewerTypeOK'
  <2>1. loadingPdf' \in BOOLEAN /\ error' \in BOOLEAN
    BY Zenon DEF RunNothing, EndLoad
  <2> QED
    BY <1>1, <1>2, <2>1 DEF ViewerTypeOK, LoadCalls, Maybe
<1>4. GivenInv'
  BY <1>1, <1>2, GivenKept
<1>5. OrderInv'
  BY <1>1, <1>2, OrderOnFailure
<1>6. ShowsInv' /\ PlaceInv'
  BY <1>1 DEF ShowsInv, PlaceInv
<1>7. OvertakenInv'
  BY <1>1, <1>2 DEF OvertakenInv
<1> QED
  BY <1>3, <1>4, <1>5, <1>6, <1>7

LEMMA PdfFailsStep ==
    ASSUME ViewerInv, NEW i \in DOMAIN loads, PdfFails(i)
    PROVE  ViewerInv'
<1>1. /\ loads[i].pc = "opening" /\ queueBroken' = TRUE /\ loads' = Step(loads, i, "ended")
      /\ UNCHANGED <<given, pdf, host, painting, reading, ready>>
  BY DEF PdfFails, EndLoad
<1> USE ViewerTypes DEF ViewerInv, painting, reading, IsStep
<1>2. IsStep(loads', loads, i, "ended") /\ LastLoad' = LastLoad
  BY <1>1, OneStep
<1>3. ViewerTypeOK'
  <2>1. loadingPdf' \in BOOLEAN /\ error' \in BOOLEAN
    BY Zenon DEF PdfFails, EndLoad
  <2> QED
    BY <1>1, <1>2, <2>1 DEF ViewerTypeOK, LoadCalls, Maybe
<1>4. GivenInv'
  BY <1>1, <1>2, GivenKept
<1>5. OrderInv'
  BY <1>1, <1>2, OrderOnFailure
<1>6. ShowsInv' /\ PlaceInv'
  BY <1>1 DEF ShowsInv, PlaceInv
<1>7. OvertakenInv'
  BY <1>1, <1>2 DEF OvertakenInv
<1> QED
  BY <1>3, <1>4, <1>5, <1>6, <1>7

\* A document that is open is laid out if its call is still the newest; if it
\* is the last one, the page that was saved for it becomes the reader's place.
LEMMA PdfOpenedStep ==
    ASSUME ViewerInv, NEW i \in DOMAIN loads, PdfOpened(i)
    PROVE  ViewerInv'
<1>1. /\ loads[i].pc = "opening"
      /\ UNCHANGED <<given, queueBroken, host, repaint, pass, debounced, saved, superseded, readEarly>>
  BY DEF PdfOpened
<1> USE ViewerTypes DEF ViewerInv, IsStep
<1>2. CASE ~Newest(i)
  <2>1. /\ loads' = Step(loads, i, "ended") /\ UNCHANGED <<pdf, cancelled, place, ready>>
        /\ loadingPdf' = (loadingPdf /\ ~loads[i].mounted)
    BY <1>2 DEF PdfOpened, EndLoad
  <2>2. error' => error \/ loads[i].mounted
    BY <1>2, Zenon DEF PdfOpened, EndLoad
  <2>3. IsStep(loads', loads, i, "ended") /\ LastLoad' = LastLoad
    BY <2>1, OneStep
  <2>4. i < LastLoad
    BY <1>2 DEF Newest
  <2>5. queueBroken \/ (LastPc \in {"cancel", "queued"} /\ LastPc' = LastPc)
    BY <1>1, <2>3, <2>4, EarlierCall DEF LastPc
  <2>6. ViewerTypeOK'
    <3>1. loadingPdf' \in BOOLEAN /\ error' \in BOOLEAN
      BY <1>2, Zenon DEF PdfOpened, EndLoad
    <3> QED
      BY <1>1, <2>1, <2>3, <3>1 DEF ViewerTypeOK, LoadCalls, Maybe
  <2>7. GivenInv'
    BY <1>1, <2>3 DEF GivenInv
  <2>8. OrderInv'
    <3>1. ASSUME NEW j \in DOMAIN loads, loads'[j].pc = "cancel" PROVE Rendering'
      <4>1. Rendering
        BY <2>3, <3>1 DEF OrderInv
      <4> QED
        BY <1>1, <2>3, <4>1 DEF Rendering
    <3>2. ASSUME NEW j \in DOMAIN loads, NEW k \in DOMAIN loads, j < k, loads'[j].pc = "cancel"
          PROVE  loads'[k].pc = "cancel"
      BY <1>1, <2>3, <3>2 DEF OrderInv
    <3> QED
      BY <1>1, <2>3, <2>5, <3>1, <3>2 DEF OrderInv
  <2>9. ShowsInv' /\ PlaceInv'
    BY <1>1, <2>1, <2>5 DEF ShowsInv, PlaceInv
  <2>10. OvertakenInv'
    BY <1>1, <2>2, <2>3, <2>4 DEF OvertakenInv
  <2> QED
    BY <2>6, <2>7, <2>8, <2>9, <2>10
<1>3. CASE Newest(i)
  <2>1. /\ loads' = Step(loads, i, "layout") /\ pdf' = loads[i].doc /\ cancelled' = FALSE
        /\ place' = IF ~loads[i].mounted THEN place
                    ELSE IF saved[given] # NoDoc THEN saved[given] ELSE given
        /\ UNCHANGED <<loadingPdf, error>>
    BY <1>3 DEF PdfOpened
  <2>2. /\ ready' \in BOOLEAN
        /\ loads[i].mounted => ready'
    BY <1>3, Zenon DEF PdfOpened
  <2>3. IsStep(loads', loads, i, "layout") /\ LastLoad' = LastLoad
    BY <2>1, OneStep
  <2>4. loads[i].mounted => given \in Pdfs
    BY DEF GivenInv
  <2>5. LastPc' = IF i = LastLoad THEN "layout" ELSE "cancel"
    BY <1>3, <2>3 DEF Newest, LastPc
  <2>6. ViewerTypeOK'
    <3>1. place' \in Pdfs \union {NoDoc} /\ pdf' \in Pdfs
      BY <2>1, <2>4 DEF LoadCalls
    <3> QED
      BY <1>1, <2>1, <2>2, <2>3, <3>1, ZenonT(30) DEF ViewerTypeOK, LoadCalls, Maybe
  <2>7. GivenInv'
    BY <1>1, <2>3 DEF GivenInv
  <2>8. OrderInv'
    <3>1. Rendering'
      BY <2>3 DEF Rendering
    <3>2. ASSUME NEW j \in DOMAIN loads, NEW k \in DOMAIN loads, j < k, loads'[j].pc = "cancel"
          PROVE  loads'[k].pc = "cancel"
      BY <1>1, <2>3, <3>2 DEF OrderInv
    <3>3. ASSUME i = LastLoad, ~queueBroken, NEW j \in DOMAIN loads, j < LastLoad
          PROVE  loads'[j].pc = "ended"
      BY <1>1, <2>3, <3>3 DEF OrderInv, LastPc
    <3> QED
      BY <1>1, <2>3, <2>5, <3>1, <3>2, <3>3 DEF OrderInv
  <2>9. ShowsInv'
    BY <1>1, <2>1, <2>2, <2>5 DEF ShowsInv, GivenInv, LastPc
  <2>10. OvertakenInv'
    BY <1>1, <2>1, <2>3 DEF OvertakenInv
  <2>11. PlaceInv'
    BY <1>1, <2>1, <2>5 DEF PlaceInv, GivenInv
  <2> QED
    BY <2>6, <2>7, <2>8, <2>9, <2>10, <2>11
<1> QED
  BY <1>2, <1>3

\* The end of a pass releases every call that waited for it, and a call other
\* than the last cannot be the one whose pass it was while the queue works.
LEMMA OrderOnRelease ==
    ASSUME ViewerInv, NEW i \in DOMAIN loads, loads[i].pc \in {"layout", "paint"},
           NEW pc \in {"paint", "ended"}, UNCHANGED queueBroken,
           loads' = Step(Released(loads), i, pc) \/ loads' = Released(Step(loads, i, pc))
    PROVE  /\ OrderInv'
           /\ i = LastLoad => LastPc' = pc
           /\ i # LastLoad /\ ~queueBroken => LastPc' = "queued"
           /\ loads' \in Seq(LoadCalls) /\ LastLoad' = LastLoad /\ DOMAIN loads' = DOMAIN loads
           /\ \A j \in DOMAIN loads :
                /\ loads'[j].mounted = loads[j].mounted /\ loads'[j].doc = loads[j].doc
                /\ j # i /\ loads[j].pc = "ended" => loads'[j].pc = "ended"
<1>1. /\ loads' \in Seq(LoadCalls) /\ LastLoad' = LastLoad /\ DOMAIN loads' = DOMAIN loads
      /\ \A j \in DOMAIN loads :
           /\ j # i => loads'[j].pc = IF loads[j].pc = "cancel" THEN "queued" ELSE loads[j].pc
           /\ loads'[j].mounted = loads[j].mounted
           /\ loads'[j].doc = loads[j].doc
      /\ loads'[i].pc = pc
  BY ReleasingStep DEF ViewerInv
<1> USE ViewerTypes DEF ViewerInv
<1>2. i = LastLoad => LastPc' = pc
  BY <1>1 DEF LastPc
<1>3. i # LastLoad /\ ~queueBroken => LastPc' = "queued"
  BY <1>1, EarlierCall DEF LastPc
<1>4. \A j \in DOMAIN loads : loads'[j].pc # "cancel"
  BY <1>1
<1>5. ASSUME i = LastLoad, ~queueBroken, NEW j \in DOMAIN loads, j < LastLoad PROVE loads'[j].pc = "ended"
  BY <1>1, <1>5 DEF OrderInv, LastPc
<1>6. OrderInv'
  BY <1>1, <1>2, <1>3, <1>4, <1>5 DEF OrderInv
<1> QED
  BY <1>1, <1>2, <1>3, <1>6

LEMMA LaidOutStep ==
    ASSUME ViewerInv, NEW i \in DOMAIN loads, LaidOut(i)
    PROVE  ViewerInv'
<1>1. /\ loads[i].pc = "layout"
      /\ UNCHANGED <<given, queueBroken, pdf, cancelled, pass, debounced, reading>>
  BY DEF LaidOut
<1> USE ViewerTypes DEF ViewerInv, reading
<1> DEFINE Fails == loads[i].doc \in Damaged /\ EndLoad(Released(loads), i, TRUE) /\ UNCHANGED <<host, repaint>>
           Stops == /\ cancelled /\ EndLoad(Released(loads), i, FALSE)
                    /\ repaint' = (repaint \/ loads[i].mounted) /\ UNCHANGED host
           Draws == /\ ~cancelled /\ loads' = Released(Step(loads, i, "paint"))
                    /\ host' = (IF loads[i].mounted THEN loads[i].doc ELSE host)
                    /\ UNCHANGED <<flags, repaint>>
<1>2. Fails \/ Stops \/ Draws
  BY DEF LaidOut
<1>3. \A pc \in {"paint", "ended"} :
        loads' = Step(Released(loads), i, pc) \/ loads' = Released(Step(loads, i, pc)) =>
        /\ OrderInv'
        /\ i = LastLoad => LastPc' = pc
        /\ i # LastLoad /\ ~queueBroken => LastPc' = "queued"
        /\ loads' \in Seq(LoadCalls) /\ LastLoad' = LastLoad /\ DOMAIN loads' = DOMAIN loads
        /\ \A j \in DOMAIN loads :
             /\ loads'[j].mounted = loads[j].mounted /\ loads'[j].doc = loads[j].doc
             /\ j # i /\ loads[j].pc = "ended" => loads'[j].pc = "ended"
  BY <1>1, OrderOnRelease
<1>4. ASSUME Fails PROVE ViewerInv'
  <2>1. /\ loads' = Step(Released(loads), i, "ended") /\ UNCHANGED <<ready, host, repaint>>
        /\ loads[i].doc \in Damaged /\ loads[i].mounted => ~loadingPdf'
    BY <1>4 DEF EndLoad
  <2>2. /\ loadingPdf' \in BOOLEAN /\ error' \in BOOLEAN
        /\ error' <=> error \/ loads[i].mounted
    BY <1>4, Zenon DEF EndLoad
  <2> HIDE DEF Fails, Stops, Draws
  <2>3. /\ OrderInv'
        /\ i = LastLoad => LastPc' = "ended"
        /\ i # LastLoad /\ ~queueBroken => LastPc' = "queued"
        /\ loads' \in Seq(LoadCalls) /\ LastLoad' = LastLoad /\ DOMAIN loads' = DOMAIN loads
        /\ \A j \in DOMAIN loads :
             /\ loads'[j].mounted = loads[j].mounted /\ loads'[j].doc = loads[j].doc
             /\ j # i /\ loads[j].pc = "ended" => loads'[j].pc = "ended"
    BY <1>3, <2>1
  <2>4. loads[i].doc \in Damaged
    BY <1>4 DEF Fails
  <2>5. ViewerTypeOK'
    BY <1>1, <2>1, <2>2, <2>3 DEF ViewerTypeOK, LoadCalls, Maybe
  <2>6. GivenInv'
    BY <1>1, <2>3, GivenKept
  <2>7. ShowsInv'
    <3>1. CASE i = LastLoad
      <4>1. given # NoDoc => given \in Damaged /\ error' /\ ~loadingPdf'
        BY <2>1, <2>2, <2>4, <3>1 DEF GivenInv
      <4> QED
        BY <1>1, <2>1, <2>3, <3>1, <4>1 DEF ShowsInv, LastPc
    <3>2. CASE i # LastLoad
      BY <1>1, <2>3, <3>2 DEF ShowsInv
    <3> QED
      BY <3>1, <3>2
  <2>8. OvertakenInv'
    <3>1. ASSUME ~superseded, loads[i].mounted PROVE given \in Damaged
      <4>1. i = LastLoad
        BY <1>1, <3>1 DEF OvertakenInv
      <4> QED
        BY <2>4, <3>1, <4>1 DEF GivenInv
    <3> QED
      BY <1>1, <2>2, <2>3, <3>1 DEF OvertakenInv
  <2>9. PlaceInv'
    BY <1>1, <2>3 DEF PlaceInv, LastPc
  <2> QED
    BY <2>3, <2>5, <2>6, <2>7, <2>8, <2>9
<1>5. ASSUME Stops PROVE ViewerInv'
  <2>1. /\ loads' = Step(Released(loads), i, "ended") /\ UNCHANGED <<ready, host>> /\ cancelled
        /\ loads[i].mounted => ~loadingPdf'
    BY <1>5 DEF EndLoad
  <2>2. /\ repaint' \in BOOLEAN /\ loadingPdf' \in BOOLEAN
        /\ error' = (error \/ (FALSE /\ loads[i].mounted))
    BY <1>5, Zenon DEF EndLoad
  <2> HIDE DEF Fails, Stops, Draws
  <2>3. error' = error
    BY <2>2
  <2>4. /\ OrderInv'
        /\ i = LastLoad => LastPc' = "ended"
        /\ i # LastLoad /\ ~queueBroken => LastPc' = "queued"
        /\ loads' \in Seq(LoadCalls) /\ LastLoad' = LastLoad /\ DOMAIN loads' = DOMAIN loads
        /\ \A j \in DOMAIN loads :
             /\ loads'[j].mounted = loads[j].mounted /\ loads'[j].doc = loads[j].doc
             /\ j # i /\ loads[j].pc = "ended" => loads'[j].pc = "ended"
    BY <1>3, <2>1
  <2>5. ViewerTypeOK'
    BY <1>1, <2>1, <2>2, <2>3, <2>4 DEF ViewerTypeOK, LoadCalls, Maybe
  <2>6. GivenInv'
    BY <1>1, <2>4, GivenKept
  <2>7. ShowsInv'
    BY <1>1, <2>1, <2>4 DEF ShowsInv, LastPc
  <2>8. OvertakenInv'
    BY <1>1, <2>3, <2>4 DEF OvertakenInv
  <2>9. PlaceInv'
    BY <1>1, <2>4 DEF PlaceInv, LastPc
  <2> QED
    BY <2>4, <2>5, <2>6, <2>7, <2>8, <2>9
<1>6. ASSUME Draws PROVE ViewerInv'
  <2>1. /\ loads' = Released(Step(loads, i, "paint"))
        /\ host' = (IF loads[i].mounted THEN loads[i].doc ELSE host)
        /\ UNCHANGED <<loadingPdf, ready, error, repaint>>
    BY <1>6 DEF flags
  <2> HIDE DEF Fails, Stops, Draws
  <2>2. /\ OrderInv'
        /\ i = LastLoad => LastPc' = "paint"
        /\ i # LastLoad /\ ~queueBroken => LastPc' = "queued"
        /\ loads' \in Seq(LoadCalls) /\ LastLoad' = LastLoad /\ DOMAIN loads' = DOMAIN loads
        /\ \A j \in DOMAIN loads :
             /\ loads'[j].mounted = loads[j].mounted /\ loads'[j].doc = loads[j].doc
             /\ j # i /\ loads[j].pc = "ended" => loads'[j].pc = "ended"
    BY <1>3, <2>1
  <2>3. ViewerTypeOK'
    BY <1>1, <2>1, <2>2 DEF ViewerTypeOK, LoadCalls, Maybe
  <2>4. GivenInv'
    BY <1>1, <2>2, GivenKept
  <2>5. ShowsInv'
    BY <1>1, <2>1, <2>2 DEF ShowsInv, GivenInv, LastPc
  <2>6. OvertakenInv'
    BY <1>1, <2>1, <2>2 DEF OvertakenInv
  <2>7. PlaceInv'
    BY <1>1, <2>2 DEF PlaceInv, LastPc
  <2> QED
    BY <2>2, <2>3, <2>4, <2>5, <2>6, <2>7
<1> HIDE DEF Fails, Stops, Draws
<1> QED
  BY <1>2, <1>4, <1>5, <1>6

\* A paint fails only on a damaged document or where it was cancelled, and then
\* a later call overtook the one it belongs to.
LEMMA PaintedStep ==
    ASSUME ViewerInv, NEW i \in DOMAIN loads, Painted(i)
    PROVE  ViewerInv'
<1>1. /\ loads[i].pc = "paint" /\ loads' = Step(Released(loads), i, "ended")
      /\ UNCHANGED <<given, queueBroken, pdf, host, painting, reading, ready>>
      /\ loadingPdf' = (loadingPdf /\ ~loads[i].mounted)
  BY DEF Painted, EndLoad
<1>2. /\ loadingPdf' \in BOOLEAN /\ error' \in BOOLEAN
      /\ error' => error \/ ((cancelled \/ loads[i].doc \in Damaged) /\ loads[i].mounted)
      /\ error => error'
  <2>1. PICK fails \in {cancelled, loads[i].doc \in Damaged, FALSE} : EndLoad(Released(loads), i, fails)
    BY DEF Painted
  <2>2. fails => cancelled \/ loads[i].doc \in Damaged
    <3>1. fails = cancelled \/ fails = (loads[i].doc \in Damaged) \/ fails = FALSE
      BY <2>1, Zenon
    <3> QED
      BY <3>1, Zenon
  <2>3. /\ loadingPdf' \in BOOLEAN /\ error' \in BOOLEAN
        /\ error' <=> error \/ (fails /\ loads[i].mounted)
    BY <2>1, Zenon DEF EndLoad
  <2> QED
    BY <2>2, <2>3, Zenon
<1> USE ViewerTypes DEF ViewerInv, painting, reading
<1>3. /\ OrderInv'
      /\ i = LastLoad => LastPc' = "ended"
      /\ i # LastLoad /\ ~queueBroken => LastPc' = "queued"
      /\ loads' \in Seq(LoadCalls) /\ LastLoad' = LastLoad /\ DOMAIN loads' = DOMAIN loads
      /\ \A j \in DOMAIN loads :
           /\ loads'[j].mounted = loads[j].mounted /\ loads'[j].doc = loads[j].doc
           /\ j # i /\ loads[j].pc = "ended" => loads'[j].pc = "ended"
  BY <1>1, OrderOnRelease
<1>4. ViewerTypeOK'
  BY <1>1, <1>2, <1>3 DEF ViewerTypeOK, LoadCalls, Maybe
<1>5. GivenInv'
  BY <1>1, <1>3, GivenKept
<1>6. ShowsInv'
  BY <1>1, <1>3 DEF ShowsInv, GivenInv, LastPc
<1>7. OvertakenInv'
  <2>1. ASSUME ~superseded, ~queueBroken, cancelled \/ loads[i].doc \in Damaged, loads[i].mounted
        PROVE  given \in Damaged
    <3>1. i = LastLoad
      BY <1>1, <2>1 DEF OvertakenInv
    <3>2. given # NoDoc /\ loads[i].doc = given
      BY <2>1, <3>1 DEF GivenInv
    <3>3. ~cancelled
      BY <1>1, <2>1, <3>1, <3>2 DEF ShowsInv, LastPc
    <3> QED
      BY <2>1, <3>2, <3>3
  <2> QED
    BY <1>1, <1>2, <1>3, <2>1 DEF OvertakenInv
<1>8. PlaceInv'
  BY <1>1, <1>3 DEF PlaceInv, LastPc
<1> QED
  BY <1>3, <1>4, <1>5, <1>6, <1>7, <1>8

\* A repaint starts over the open document, between the passes of the loads.
LEMMA RepaintStep ==
    ASSUME ViewerInv, Repaint
    PROVE  ViewerInv'
<1> USE ViewerTypes DEF ViewerInv, flags, reading
<1>1. /\ UNCHANGED <<given, loads, queueBroken, pdf, host, flags, reading>>
      /\ debounced' = TRUE /\ repaint' \in BOOLEAN
      /\ \/ UNCHANGED <<pass, cancelled>>
         \/ /\ pdf # NoDoc /\ pass' = pdf /\ cancelled' = FALSE
            /\ \A i \in DOMAIN loads : loads[i].pc # "layout"
  BY DEF Repaint
<1>2. LastLoad' = LastLoad /\ LastPc' = LastPc /\ (Rendering => Rendering')
  BY <1>1 DEF LastLoad, LastPc, Rendering
<1>3. ViewerTypeOK'
  <2>1. /\ given' \in Maybe(Pdfs) /\ pdf' \in Maybe(Pdfs) /\ host' \in Maybe(Pdfs)
        /\ pass' \in Maybe(Pdfs) /\ place' \in Maybe(Pdfs) /\ saved' \in [Pdfs -> Maybe(Pdfs)]
    BY <1>1 DEF Maybe
  <2>2. loads' \in Seq(LoadCalls)
    BY <1>1
  <2>3. cancelled' \in BOOLEAN
    BY <1>1, Zenon
  <2>4. queueBroken' \in BOOLEAN /\ loadingPdf' \in BOOLEAN /\ ready' \in BOOLEAN /\ error' \in BOOLEAN
    BY <1>1
  <2>5. repaint' \in BOOLEAN /\ debounced' \in BOOLEAN
    BY <1>1
  <2>6. superseded' \in BOOLEAN /\ readEarly' \in BOOLEAN
    BY <1>1
  <2> HIDE ViewerTypes DEF ViewerInv, flags, reading
  <2> QED BY <2>1, <2>2, <2>3, <2>4, <2>5, <2>6, Zenon DEF ViewerTypeOK, LoadCalls
<1>4. GivenInv' /\ OrderInv' /\ OvertakenInv' /\ PlaceInv'
  BY <1>1, <1>2 DEF GivenInv, OrderInv, OvertakenInv, PlaceInv
<1>5. ShowsInv'
  BY <1>1, <1>2, LastCall DEF ShowsInv, LastPc
<1> QED
  BY <1>3, <1>4, <1>5

LEMMA RepaintedStep ==
    ASSUME ViewerInv, Repainted
    PROVE  ViewerInv'
<1> USE ViewerTypes DEF ViewerInv, flags, reading
<1>1. /\ UNCHANGED <<given, queueBroken, pdf, flags, cancelled, debounced, reading>>
      /\ pass # NoDoc /\ pass' = NoDoc /\ loads' = Released(loads)
      /\ repaint' \in BOOLEAN
      /\ \/ pass \in Damaged /\ UNCHANGED host
         \/ cancelled /\ UNCHANGED host
         \/ ~cancelled /\ host' = pass
  BY DEF Repainted
<1>2. /\ loads' \in Seq(LoadCalls) /\ LastLoad' = LastLoad /\ DOMAIN loads' = DOMAIN loads
      /\ \A j \in DOMAIN loads :
           /\ loads'[j].mounted = loads[j].mounted /\ loads'[j].doc = loads[j].doc
           /\ loads'[j].pc = IF loads[j].pc = "cancel" THEN "queued" ELSE loads[j].pc
  BY <1>1, ReleasedOf DEF LastLoad
<1>3. LastLoad > 0 => LastPc' = IF LastPc = "cancel" THEN "queued" ELSE LastPc
  BY <1>2 DEF LastPc
<1>4. ViewerTypeOK'
  BY <1>1, <1>2 DEF ViewerTypeOK, LoadCalls, Maybe
<1>5. GivenInv'
  BY <1>1, <1>2 DEF GivenInv
<1>6. OrderInv'
  <2>1. \A j \in DOMAIN loads : loads'[j].pc # "cancel"
    BY <1>2
  <2> QED
    BY <1>1, <1>2, <1>3, <2>1 DEF OrderInv
<1>7. ShowsInv'
  BY <1>1, <1>2, <1>3, LastCall DEF ShowsInv
<1>8. OvertakenInv'
  BY <1>1, <1>2 DEF OvertakenInv
<1>9. PlaceInv'
  BY <1>1, <1>2, <1>3, LastCall DEF PlaceInv
<1> QED
  BY <1>4, <1>5, <1>6, <1>7, <1>8, <1>9

LEMMA QuietStep ==
    ASSUME ViewerInv, Quiet
    PROVE  ViewerInv'
<1>1. /\ UNCHANGED <<given, loads, queueBroken, pdf, host, flags, cancelled, repaint, pass, reading>>
      /\ debounced' = FALSE
  BY DEF Quiet
<1>2. ViewerTypeOK'
  BY <1>1 DEF ViewerInv, ViewerTypeOK, flags, reading
<1> QED
  BY <1>1, <1>2 DEF ViewerInv, GivenInv, OrderInv, ShowsInv, OvertakenInv, PlaceInv,
                    LastLoad, LastPc, Rendering, flags, reading

\* With no load in progress, the pages the reader moves over are those of the
\* document that was given.
LEMMA ReadOnStep ==
    ASSUME ViewerInv, ReadOn
    PROVE  ViewerInv'
<1> USE ViewerTypes DEF ViewerInv, flags, painting
<1>1. /\ UNCHANGED <<given, loads, queueBroken, pdf, host, flags, painting, superseded>>
      /\ given # NoDoc /\ host # NoDoc /\ place' = host
      /\ saved' = [saved EXCEPT ![given] = host]
  BY DEF ReadOn
<1>2. readEarly' \in BOOLEAN /\ (~readEarly' => ~readEarly /\ ~LoadsInProgress)
  BY Zenon DEF ReadOn
<1>3. LastLoad' = LastLoad /\ LastPc' = LastPc /\ Rendering' = Rendering
  BY <1>1 DEF LastLoad, LastPc, Rendering
<1>4. ViewerTypeOK'
  BY <1>1, <1>2 DEF ViewerTypeOK, Maybe
<1>5. GivenInv' /\ OrderInv' /\ ShowsInv' /\ OvertakenInv'
  BY <1>1, <1>3 DEF GivenInv, OrderInv, ShowsInv, OvertakenInv
<1>6. PlaceInv'
  <2> SUFFICES ASSUME ~superseded, ~readEarly', ~queueBroken PROVE PlaceInv'
    BY <1>1 DEF PlaceInv
  <2>1. LastPc = "ended"
    BY <1>1, <1>2, LastCall DEF LoadsInProgress, LastPc
  <2>2. host = given \/ given \in Damaged
    BY <1>1, <2>1 DEF ShowsInv
  <2> QED
    BY <1>1, <1>2, <1>3, <2>2 DEF PlaceInv
<1> QED
  BY <1>4, <1>5, <1>6

\* Nothing is open, on show or mounted any more.
LEMMA UnmountStep ==
    ASSUME ViewerInv, Unmount
    PROVE  ViewerInv'
<1> USE ViewerTypes DEF ViewerInv
<1>1. /\ given' = NoDoc /\ host' = NoDoc /\ place' = NoDoc /\ pdf' = NoDoc
      /\ loadingPdf' = FALSE /\ ready' = FALSE /\ error' = FALSE
      /\ repaint' = FALSE /\ pass' = NoDoc
      /\ UNCHANGED <<cancelled, debounced, saved, superseded, readEarly>>
  BY DEF Unmount
<1>2. /\ queueBroken' \in BOOLEAN
      /\ ~queueBroken' => ~queueBroken /\ ~\E i \in DOMAIN loads : loads[i].pc = "opening"
  BY Zenon DEF Unmount
<1> DEFINE next(pc) == CASE pc = "cancel" -> "queued"
                         [] pc \in {"opening", "layout", "paint"} -> "ended"
                         [] OTHER -> pc
<1>3. \A pc \in {"cancel", "queued", "opening", "layout", "paint", "ended"} :
        /\ next(pc) \in {"queued", "ended"}
        /\ pc = "ended" => next(pc) = "ended"
        /\ pc \in {"cancel", "queued"} => next(pc) = "queued"
  OBVIOUS
<1> HIDE DEF next
<1>4. loads' = [i \in DOMAIN loads |-> [loads[i] EXCEPT !.mounted = FALSE, !.pc = next(loads[i].pc)]]
  BY DEF Unmount, next
<1>5. /\ \A i \in DOMAIN loads : loads'[i] = [loads[i] EXCEPT !.mounted = FALSE, !.pc = next(loads[i].pc)]
      /\ DOMAIN loads' = DOMAIN loads
  BY <1>4
<1>6. \A i \in DOMAIN loads :
        /\ loads'[i] \in LoadCalls /\ ~loads'[i].mounted
        /\ loads'[i].pc \in {"queued", "ended"}
        /\ loads[i].pc = "ended" => loads'[i].pc = "ended"
        /\ loads[i].pc \in {"cancel", "queued"} => loads'[i].pc = "queued"
  <2> TAKE i \in DOMAIN loads
  <2>1. /\ loads[i] \in LoadCalls
        /\ loads[i].pc \in {"cancel", "queued", "opening", "layout", "paint", "ended"}
    BY DEF LoadCalls
  <2>2. loads'[i] = [loads[i] EXCEPT !.mounted = FALSE, !.pc = next(loads[i].pc)]
    BY <1>5
  <2>3. loads'[i] = [doc |-> loads[i].doc, mounted |-> FALSE, pc |-> next(loads[i].pc)]
    BY <2>1, <2>2 DEF LoadCalls
  <2> QED
    BY <1>3, <2>1, <2>3 DEF LoadCalls
<1>7. loads' \in Seq(LoadCalls) /\ LastLoad' = LastLoad
  <2>1. loads' \in [1..LastLoad -> LoadCalls]
    BY <1>4, <1>6
  <2> QED
    BY <2>1, CallsOf DEF LastLoad
<1>8. ViewerTypeOK'
  BY <1>1, <1>2, <1>7 DEF ViewerTypeOK, LoadCalls, Maybe
<1>9. GivenInv' /\ ShowsInv' /\ OvertakenInv'
  BY <1>1, <1>5, <1>6 DEF GivenInv, ShowsInv, OvertakenInv
<1>10. OrderInv'
  <2>1. \A j \in DOMAIN loads : loads'[j].pc # "cancel"
    BY <1>6
  <2>2. ASSUME ~queueBroken', LastLoad > 0, LastPc' = "ended", NEW j \in DOMAIN loads, j < LastLoad
        PROVE  loads'[j].pc = "ended"
    <3>1. LastPc \notin {"cancel", "queued"}
      BY <1>6, <1>7, <2>2 DEF LastPc
    <3> QED
      BY <1>2, <1>6, <2>2, <3>1 DEF OrderInv
  <2>3. LastLoad > 0 => LastPc' \in {"queued", "ended"}
    BY <1>6, <1>7 DEF LastPc
  <2> QED
    BY <1>5, <1>7, <2>1, <2>2, <2>3 DEF OrderInv
<1>11. PlaceInv'
  BY <1>1, <1>2 DEF PlaceInv
<1> QED
  BY <1>8, <1>9, <1>10, <1>11

\* What the viewer rests on: what is loading, what was given and what is shown
\* agree, whichever of the overlapping loads ends first.
THEOREM ViewerInvariant == ViewerSpec => []ViewerInv
<1>1. ViewerInit => ViewerInv
  <2> SUFFICES ASSUME ViewerInit PROVE ViewerInv
    OBVIOUS
  <2>1. loads \in Seq(LoadCalls) /\ LastLoad = 0 /\ DOMAIN loads = {}
    BY DEF ViewerInit, LastLoad
  <2>2. ViewerTypeOK
    BY <2>1 DEF ViewerInit, ViewerTypeOK, LoadCalls, Maybe
  <2> QED
    BY <2>1, <2>2 DEF ViewerInit, ViewerInv, GivenInv, OrderInv, ShowsInv, OvertakenInv, PlaceInv
<1>2. ViewerInv /\ [ViewerNext]_viewer => ViewerInv'
  <2> SUFFICES ASSUME ViewerInv, [ViewerNext]_viewer PROVE ViewerInv'
    OBVIOUS
  <2>1. ASSUME NEW d \in Pdfs, Give(d) PROVE ViewerInv'
    BY <2>1, GiveStep
  <2>2. ASSUME NEW i \in DOMAIN loads, LoadSteps(i) PROVE ViewerInv'
    <3>1. CASE RunLoad(i)
      BY <3>1, RunLoadStep
    <3>2. CASE RunNothing(i)
      BY <3>2, RunNothingStep
    <3>3. CASE PdfOpened(i)
      BY <3>3, PdfOpenedStep
    <3>4. CASE PdfFails(i)
      BY <3>4, PdfFailsStep
    <3>5. CASE LaidOut(i)
      BY <3>5, LaidOutStep
    <3>6. CASE Painted(i)
      BY <3>6, PaintedStep
    <3> QED
      BY <2>2, <3>1, <3>2, <3>3, <3>4, <3>5, <3>6 DEF LoadSteps
  <2>3. CASE Repaint
    BY <2>3, RepaintStep
  <2>4. CASE Repainted
    BY <2>4, RepaintedStep
  <2>5. CASE Quiet
    BY <2>5, QuietStep
  <2>6. CASE ReadOn
    BY <2>6, ReadOnStep
  <2>7. CASE Unmount
    BY <2>7, UnmountStep
  <2>8. CASE UNCHANGED viewer
    <3>1. ViewerTypeOK'
      BY <2>8 DEF ViewerInv, ViewerTypeOK, viewer, flags, painting, reading
    <3> QED
      BY <2>8, <3>1 DEF ViewerInv, GivenInv, OrderInv, ShowsInv, OvertakenInv, PlaceInv,
                        LastLoad, LastPc, Rendering, viewer, flags, painting, reading
  <2> QED
    BY <2>1, <2>2, <2>3, <2>4, <2>5, <2>6, <2>7, <2>8 DEF ViewerNext
<1> QED
  BY <1>1, <1>2, PTL DEF ViewerSpec

\* The flags, the calls of loadPdf and the saved pages are values the code can
\* hold, however often documents are given (PdfViewerComponent).
THEOREM ViewerTypeCorrect == ViewerSpec => []ViewerTypeOK
<1>1. ViewerInv => ViewerTypeOK
  BY DEF ViewerInv
<1> QED
  BY <1>1, ViewerInvariant, PTL

\* For any documents and any number of loads: the viewer at rest shows the
\* document given to it last unless the loader's queue is broken or that document
\* is damaged, which it says; an error on show has a failed or overtaken load
\* behind it, and pages are saved for the documents they are pages of (PdfViewerComponent.loadPdf, PdfDocumentLoader,
\* PdfRenderService).
THEOREM ViewerShows == ViewerSpec => []ViewerShowsTheLast
<1>1. ViewerInv => ViewerShowsTheLast
  <2> SUFFICES ASSUME ViewerInv PROVE ViewerShowsTheLast
    OBVIOUS
  <2> USE ViewerTypes DEF ViewerInv
  <2>1. ASSUME AtRest, ~queueBroken
        PROVE  /\ pdf = given /\ ready /\ ~loadingPdf
               /\ host = given \/ (given \in Damaged /\ error)
    <3>1. given # NoDoc /\ LastPc = "ended"
      BY <2>1, LastCall DEF AtRest, LoadsInProgress, LastPc
    <3> QED
      BY <2>1, <3>1 DEF ShowsInv
  <2>2. error => superseded \/ queueBroken \/ given \in Damaged
    BY DEF OvertakenInv
  <2>3. \A d \in Pdfs \ Damaged : saved[d] \in {NoDoc, d} \/ superseded \/ readEarly \/ queueBroken
    BY DEF PlaceInv
  <2> QED
    BY <2>1, <2>2, <2>3 DEF ViewerShowsTheLast
<1> QED
  BY <1>1, ViewerInvariant, PTL

-----------------------------------------------------------------------------
(* The chat request: inductive invariant, steps and theorems *)

\* How many nodes may have run when a node is next.  A round is the router,
\* one or more retrievals of up to three nodes, the answerer, the judge and
\* the counting of the attempt.  Its first retrieval is always made, the
\* others only below the cap: there are at most as many as the cap and the
\* attempts together.
BoundInv ==
    /\ node = "guardrail" => steps = 0
    /\ node = "reject" => steps <= 1
    /\ node = "router" => steps <= 1 + 4 * attempts + 3 * retrievalAttempts
    /\ node = "retrieve" => steps <= 2 + 4 * attempts + 3 * retrievalAttempts
    /\ node = "vision" => steps <= 4 * attempts + 3 * retrievalAttempts
    /\ node = "retrieval_judge" => steps <= 1 + 4 * attempts + 3 * retrievalAttempts
    /\ node = "answerer" => steps <= 2 + 4 * attempts + 3 * retrievalAttempts
    /\ node = "judge" => steps <= 3 + 4 * attempts + 3 * retrievalAttempts
    /\ node = "bump_attempts" => steps <= 4 + 4 * attempts + 3 * retrievalAttempts
    /\ node \in Ended => steps <= StepBound
    /\ node = Nothing => steps = 0
    /\ node \in {"router", "retrieve"} => retrievalAttempts < RetrievalCap + attempts
    /\ retrievalAttempts <= RetrievalCap + attempts
    /\ node = "bump_attempts" => attempts < AgentMaxRetries

\* An answer is written only once the excerpts were found sufficient, and
\* judged before anything else is retrieved.
AnswerInv ==
    /\ node \in {"guardrail", "reject", Nothing} => retrievalAttempts = 0
    /\ node \in {"answerer", "judge"} => sufficient /\ ~gap
    /\ node = "judge" => answer.from = retrievalAttempts
    /\ node = "end" =>
         \/ answer.text = "refusal" /\ retrievalAttempts = 0
         \/ /\ answer.from = retrievalAttempts /\ verdict.of = retrievalAttempts
            /\ verdict.verdict \in {"pass", "reject"} /\ sufficient /\ ~gap

\* Whatever the plan searches, it differs from what was tried.
Differs ==
    \A few \in BOOLEAN :
      \/ WaysOf(plan, few) # tried.ways
      \/ tried.ways = Ways
      \/ tried.ways = {"meaning"} /\ ~(plan.sections /\ tried.sections)

\* What was searched is what the plan searches until the next plan is made, and
\* the plan of a retry differs until the round is answered.
SearchInv ==
    /\ node \in {"guardrail", Nothing} => attempts = 0
    /\ plan.route = "structural" => plan.sections
    /\ node \in {"retrieve", "vision", "retrieval_judge", "answerer", "judge", "bump_attempts"} =>
         plan.route \in Routes
    /\ \/ node \in {"vision", "retrieval_judge", "answerer", "judge", "bump_attempts"}
       \/ node = "router" /\ attempts > 0
       => plan.route \in Routes /\ \E few \in BOOLEAN : searched = WaysOf(plan, few)
    /\ node \in {"retrieve", "vision", "retrieval_judge", "answerer", "judge"} /\ attempts > 0 => Differs

\* What has been sent, by where the generator is; only words that were sent
\* are counted.
StreamInv ==
    /\ stream = "check" => sent = <<>> /\ node = Nothing
    /\ stream \in {"start", "wait", "content"} => sent = <<"stage">>
    /\ stream = "limit" => sent = <<"stage", "content">>
    /\ stream = "meta" =>
         sent \in {<<"stage">>, <<"stage", "content">>, <<"stage", "content", "limit_reached">>}
    /\ stream = "usage" =>
         sent \in {<<"stage", "content", "meta">>, <<"stage", "content", "limit_reached", "meta">>}
    /\ stream = "closed" =>
         sent \in {<<"error">>, <<"stage">>, <<"stage", "error">>, <<"stage", "content">>,
                   <<"stage", "content", "limit_reached">>,
                   <<"stage", "meta">>, <<"stage", "content", "meta">>,
                   <<"stage", "content", "limit_reached", "meta">>,
                   <<"stage", "content", "meta", "usage">>,
                   <<"stage", "content", "limit_reached", "meta", "usage">>}
    /\ counted => stream \in {"limit", "meta", "usage", "closed"} /\ sent # <<"stage">>
    /\ stream \in {"content", "limit", "meta", "usage"} \/ "content" \in ToSet(sent) => node = "end"

GraphInv == TypeOK /\ BoundInv /\ AnswerInv /\ SearchInv /\ StreamInv

USE RetryAssumption DEF RetryAssumption

-----------------------------------------------------------------------------
(* Types *)

\* Every step keeps the types, given that an attempt is counted only below
\* the setting.
LEMMA TypeStep == TypeOK /\ BoundInv /\ [Next]_vars => TypeOK'
<1> SUFFICES ASSUME TypeOK, BoundInv, [Next]_vars PROVE TypeOK'
  OBVIOUS
<1> USE DEF TypeOK
<1>1. ASSUME NEW n, Run(n)
      PROVE  steps' \in Nat /\ UNCHANGED <<stream, sent, counted>>
  BY <1>1 DEF Run, events
<1>2. CASE Guardrail
  BY <1>1, <1>2 DEF Guardrail, graph, Nodes
<1>3. CASE Reject
  <2>1. "end" \in Ended /\ [text |-> "refusal", from |-> 0] \in [text : Texts, from : Nat]
    BY DEF Ended, Texts
  <2> QED
    BY <1>1, <1>3, <2>1 DEF Reject
<1>4. CASE Router
  <2>1. plan' \in [route : Routes \union {Nothing}, sections : BOOLEAN, vision : BOOLEAN]
    BY <1>4 DEF Router, Chosen, Routes
  <2>2. tried' \in [ways : SUBSET Ways, sections : BOOLEAN]
    BY <1>4 DEF Router
  <2> QED
    BY <1>1, <1>4, <2>1, <2>2 DEF Router, Nodes
<1>5. CASE Retrieve
  <2>1. searched' \subseteq Ways
    BY <1>5 DEF Retrieve, WaysOf, Ways
  <2> QED
    BY <1>1, <1>5, <2>1 DEF Retrieve, AfterRetrieve, Nodes
<1>6. CASE Vision
  BY <1>1, <1>6 DEF Vision, Nodes
<1>7. CASE RetrievalJudge
  <2>1. ASSUME NEW v \in Verdicts PROVE v.enough \in BOOLEAN /\ v.gap \in BOOLEAN
    <3>1. v = [enough |-> TRUE, gap |-> FALSE] \/ v = [enough |-> FALSE, gap |-> TRUE]
      BY DEF Verdicts
    <3>2. CASE v = [enough |-> TRUE, gap |-> FALSE]
      BY <3>2
    <3>3. CASE v = [enough |-> FALSE, gap |-> TRUE]
      BY <3>3
    <3> QED
      BY <3>1, <3>2, <3>3
  <2>2. sufficient' \in BOOLEAN /\ gap' \in BOOLEAN
    BY <1>7, <2>1 DEF RetrievalJudge
  <2> QED
    BY <1>1, <1>7, <2>2 DEF RetrievalJudge, AfterRetrievalJudge, Nodes
<1>8. CASE Answerer
  <2>1. answer' \in [text : Texts, from : Nat]
    BY <1>8 DEF Answerer, Texts
  <2>2. "judge" \in Nodes
    BY DEF Nodes
  <2> QED
    BY <1>1, <1>8, <2>1, <2>2 DEF Answerer
<1>9. CASE Judge
  <2>1. verdict' \in [verdict : JudgeVerdicts, of : Nat]
    BY <1>9 DEF Judge, JudgeVerdicts
  <2>2. node' \in Nodes \union Ended
    BY <1>9 DEF Judge, AfterJudge, Nodes, Ended
  <2> QED
    BY <1>1, <1>9, <2>1, <2>2 DEF Judge
<1>10. CASE BumpAttempts
  <2>1. attempts + 1 \in 0..AgentMaxRetries /\ "router" \in Nodes
    BY <1>10 DEF BumpAttempts, BoundInv, Run, Nodes
  <2> QED
    BY <1>1, <1>10, <2>1 DEF BumpAttempts
<1>11. CASE NodeRaises
  BY <1>11 DEF NodeRaises, events, graph, history, Ended
<1>12. ASSUME NEW e \in Events, NEW next, Yield(e, next)
       PROVE  sent' \in Seq(Events) /\ stream' = next
  BY <1>12 DEF Yield
<1> USE <1>12 DEF Events, graph, history
<1>13. CASE StreamStep
  <2>1. CASE Content
    <3>1. UNCHANGED <<node, graph, history>>
      BY <2>1 DEF Content
    <3>2. CASE answer.text = "empty"
      BY <2>1, <3>1, <3>2 DEF Content
    <3>3. CASE answer.text # "empty"
      <4>1. PICK words \in Counts :
              /\ counted' = (words # "blank")
              /\ Yield("content", IF words = "limit" THEN "limit" ELSE "meta")
        BY <2>1, <3>3 DEF Content
      <4>2. counted' \in BOOLEAN
        BY <4>1, Zenon
      <4>3. sent' \in Seq(Events) /\ stream' \in {"limit", "meta"}
        BY <4>1, <1>12
      <4> QED
        BY <3>1, <4>2, <4>3
    <3> QED
      BY <3>2, <3>3
  <2>2. CASE StartGraph \/ AwaitGraph \/ GraphFailed \/ GraphDone
    BY <2>2 DEF StartGraph, AwaitGraph, GraphFailed, GraphDone, Nodes
  <2>3. CASE LimitReached \/ Meta \/ Usage
    BY <2>3 DEF LimitReached, Meta, Usage
  <2> QED
    BY <1>13, <2>1, <2>2, <2>3 DEF StreamStep
<1>14. CASE NotReady \/ GraphTimeout \/ Disconnect
  BY <1>14 DEF NotReady, GraphTimeout, Disconnect, Ended
<1>15. CASE UNCHANGED vars
  BY <1>15 DEF vars, events
<1> QED
  BY <1>2, <1>3, <1>4, <1>5, <1>6, <1>7, <1>8, <1>9, <1>10, <1>11, <1>13, <1>14, <1>15 DEF Next, GraphStep

-----------------------------------------------------------------------------
(* The graph *)

LEMMA NotNothing ==
    /\ Nothing # "guardrail" /\ Nothing # "router" /\ Nothing # "retrieve" /\ Nothing # "vision"
    /\ Nothing # "retrieval_judge" /\ Nothing # "answerer" /\ Nothing # "judge"
    /\ Nothing # "bump_attempts" /\ Nothing # "reject"
    /\ Nothing # "end" /\ Nothing # "raised" /\ Nothing # "cancelled"
  BY DEF Nodes, Ended

LEMMA RouteIsNamed == Nothing # "structural"
  BY DEF Routes

LEMMA CapType == RetrievalCap \in Nat /\ RetrievalCap >= 1
  BY DEF RetrievalCap

\* What is left of the bound covers what is counted so far.
LEMMA WithinBound ==
    ASSUME TypeOK, BoundInv
    PROVE  steps <= StepBound /\ StepBound \in Nat
<1>1. /\ 3 * retrievalAttempts <= 3 * RetrievalCap + 3 * attempts
      /\ 7 * attempts <= 7 * AgentMaxRetries
      /\ StepBound \in Nat /\ steps \in Nat /\ attempts \in Nat /\ retrievalAttempts \in Nat
  BY CapType DEF TypeOK, BoundInv, StepBound
<1>2. CASE node \in Ended \/ node = Nothing
  BY <1>1, <1>2 DEF BoundInv
<1>3. CASE node \in Nodes
  BY <1>1, <1>3, CapType DEF BoundInv, Nodes, StepBound
<1> QED
  BY <1>2, <1>3, <1>1 DEF TypeOK

\* A node is counted as long as the bound is not exceeded, and it is not.
LEMMA Counted ==
    ASSUME TypeOK, BoundInv, NEW n, Run(n)
    PROVE  node = n /\ steps' = steps + 1 /\ steps \in Nat
  BY WithinBound DEF Run, TypeOK

LEMMA BoundStep == TypeOK /\ BoundInv /\ AnswerInv /\ StreamInv /\ Next => BoundInv'
<1> SUFFICES ASSUME TypeOK, BoundInv, AnswerInv, StreamInv, Next PROVE BoundInv'
  OBVIOUS
<1>0. /\ attempts \in 0..AgentMaxRetries /\ retrievalAttempts \in Nat
      /\ StepBound \in Nat /\ steps \in Nat /\ steps <= StepBound
      /\ UNCHANGED StepBound /\ UNCHANGED RetrievalCap
      /\ RetrievalCap \in Nat /\ RetrievalCap >= 1
  BY CapType, WithinBound DEF TypeOK, StepBound, RetrievalCap
<1> USE <1>0, NotNothing DEF BoundInv, Ended
<1>1. CASE Guardrail
  BY <1>1, Counted DEF Guardrail, AnswerInv, graph
<1>2. CASE Reject
  <2>1. StepBound >= 2
    BY DEF StepBound
  <2> QED
    BY <1>2, <2>1, Counted DEF Reject
<1>3. CASE Router
  BY <1>3, Counted DEF Router
<1>4. CASE Retrieve
  BY <1>4, Counted DEF Retrieve, AfterRetrieve
<1>5. CASE Vision
  BY <1>5, Counted DEF Vision
<1>6. CASE RetrievalJudge
  BY <1>6, Counted DEF RetrievalJudge, AfterRetrievalJudge
<1>7. CASE Answerer
  BY <1>7, Counted DEF Answerer
<1>8. CASE Judge
  <2>1. 4 + 4 * attempts + 3 * retrievalAttempts <= StepBound
    BY DEF StepBound
  <2> QED
    BY <1>8, <2>1, Counted DEF Judge, AfterJudge
<1>9. CASE BumpAttempts
  BY <1>9, Counted DEF BumpAttempts
<1>10. CASE NodeRaises
  BY <1>10 DEF NodeRaises, graph, history
<1>11. CASE StartGraph
  BY <1>11 DEF StartGraph, graph, history, StreamInv
<1>12. CASE (StreamStep /\ ~StartGraph) \/ NotReady
  <2>1. UNCHANGED <<node, graph, history>>
    BY <1>12
    DEF StreamStep, AwaitGraph, GraphFailed, GraphDone, Content, LimitReached, Meta, Usage, NotReady
  <2> QED
    BY <2>1 DEF graph, history
<1>13. CASE GraphTimeout \/ Disconnect
  BY <1>13 DEF GraphTimeout, Disconnect, graph, history
<1> QED
  BY <1>1, <1>2, <1>3, <1>4, <1>5, <1>6, <1>7, <1>8, <1>9, <1>10, <1>11, <1>12, <1>13
  DEF Next, GraphStep

\* The excerpts are insufficient only below the cap, and then the edge leads
\* back to the retrieval: whoever answers has sufficient ones.
LEMMA AnswerStep == TypeOK /\ BoundInv /\ AnswerInv /\ StreamInv /\ Next => AnswerInv'
<1> SUFFICES ASSUME TypeOK, BoundInv, AnswerInv, StreamInv, Next PROVE AnswerInv'
  OBVIOUS
<1>0. /\ retrievalAttempts \in Nat
      /\ answer \in [text : Texts, from : Nat]
      /\ verdict \in [verdict : JudgeVerdicts \union {Nothing}, of : Nat]
  BY DEF TypeOK
<1> USE <1>0, NotNothing, CapType DEF AnswerInv, Ended, Run
<1>1. CASE Guardrail \/ Reject
  BY <1>1 DEF Guardrail, Reject, graph
<1>2. CASE Router \/ BumpAttempts
  BY <1>2 DEF Router, BumpAttempts
<1>3. CASE Retrieve
  BY <1>3 DEF Retrieve, AfterRetrieve
<1>4. CASE Vision
  BY <1>4 DEF Vision
<1>5. CASE RetrievalJudge
  <2>1. PICK v \in Verdicts : /\ sufficient' = v.enough /\ gap' = v.gap
                              /\ node = "retrieval_judge" /\ node' = AfterRetrievalJudge(v.enough)
    BY <1>5 DEF RetrievalJudge
  <2>2. \/ v = [enough |-> TRUE, gap |-> FALSE]
        \/ v = [enough |-> FALSE, gap |-> TRUE] /\ retrievalAttempts < RetrievalCap
    BY DEF Verdicts
  <2>3. CASE node' = "retrieve"
    BY <1>5, <2>3 DEF RetrievalJudge
  <2>4. CASE node' = "answerer" /\ sufficient' /\ ~gap'
    BY <1>5, <2>4 DEF RetrievalJudge
  <2> QED
    BY <2>1, <2>2, <2>3, <2>4 DEF AfterRetrievalJudge
<1>6. CASE Answerer
  BY <1>6 DEF Answerer
<1>7. CASE Judge
  <2>1. PICK v \in {"pass", "reject"} \union (IF attempts < AgentMaxRetries THEN {"retry"} ELSE {}) :
          /\ verdict' = [verdict |-> v, of |-> answer.from]
          /\ node = "judge" /\ node' = AfterJudge(v)
    BY <1>7 DEF Judge
  <2>2. (v \in {"pass", "reject"} /\ node' = "end") \/ node' = "bump_attempts"
    BY <2>1 DEF AfterJudge
  <2> QED
    BY <1>7, <2>1, <2>2 DEF Judge
<1>8. CASE NodeRaises \/ StreamStep \/ NotReady \/ GraphTimeout \/ Disconnect
  <2>1. UNCHANGED graph
    BY <1>8
    DEF NodeRaises, StreamStep, StartGraph, AwaitGraph, GraphFailed, GraphDone, Content, LimitReached,
        Meta, Usage, NotReady, GraphTimeout, Disconnect
  <2>2. \/ UNCHANGED node \/ node' \in {"raised", "cancelled"}
        \/ node = Nothing /\ node' = "guardrail"
    BY <1>8
    DEF NodeRaises, StreamStep, StartGraph, AwaitGraph, GraphFailed, GraphDone, Content, LimitReached,
        Meta, Usage, NotReady, GraphTimeout, Disconnect, StreamInv
  <2> QED
    BY <2>1, <2>2 DEF graph
<1> QED
  BY <1>1, <1>2, <1>3, <1>4, <1>5, <1>6, <1>7, <1>8 DEF Next, GraphStep

\* Of two plans, one made from the other's route, the second searches otherwise:
\* one that keeps the route is hybrid or names no headings.
LEMMA OtherSearch ==
    ASSUME NEW p, NEW q, p.route \in Routes, q.route \in Routes,
           p.route = "structural" => p.sections, q.route = "structural" => q.sections,
           p.route # q.route \/ q.route = "hybrid" \/ ~q.sections,
           NEW few \in BOOLEAN, NEW more \in BOOLEAN
    PROVE  \/ WaysOf(q, few) # WaysOf(p, more)
           \/ WaysOf(p, more) = Ways
           \/ WaysOf(p, more) = {"meaning"} /\ ~(q.sections /\ p.sections)
<1> USE DEF WaysOf, Ways, Routes
<1>1. CASE p.route = "structural"
  <2>1. WaysOf(p, more) = IF more THEN Ways ELSE {"sections"}
    BY <1>1
  <2>2. CASE q.route = "structural"
    BY <2>2
  <2>3. CASE q.route # "structural"
    BY <2>1, <2>3
  <2> QED
    BY <2>2, <2>3
<1>2. CASE p.route = "semantic"
  <2>1. WaysOf(p, more) = {"meaning"}
    BY <1>2
  <2>2. CASE q.route # "semantic" /\ q.sections
    BY <2>1, <2>2
  <2>3. CASE q.route = "semantic" \/ ~q.sections
    BY <1>2, <2>1, <2>3
  <2> QED
    BY <2>2, <2>3
<1>3. CASE p.route = "hybrid"
  <2>1. WaysOf(p, more) = IF p.sections THEN Ways ELSE {"meaning"}
    BY <1>3
  <2> QED
    BY <2>1
<1> QED
  BY <1>1, <1>2, <1>3

\* The router takes the route of the plan it replaces only when that is the one
\* for everything, or when it has no headings to search under.
LEMMA SearchStep == TypeOK /\ SearchInv /\ StreamInv /\ Next => SearchInv'
<1> SUFFICES ASSUME TypeOK, SearchInv, StreamInv, Next PROVE SearchInv'
  OBVIOUS
<1> USE NotNothing
<1>0. /\ plan \in [route : Routes \union {Nothing}, sections : BOOLEAN, vision : BOOLEAN]
      /\ attempts \in Nat
  BY DEF TypeOK
<1>1. CASE Router
  <2>1. PICK route \in Routes, sections \in BOOLEAN :
          /\ plan'.route = Chosen(route, sections) /\ plan'.sections = sections
          /\ tried' = [ways |-> searched, sections |-> plan.sections]
    BY <1>1 DEF Router
  <2>2. node = "router" /\ node' = "retrieve" /\ UNCHANGED <<attempts, searched>>
    BY <1>1 DEF Router, Run
  <2>3. plan'.route \in Routes /\ (plan'.route = "structural" => plan'.sections)
    BY <2>1 DEF Chosen, Routes
  <2>4. ASSUME attempts > 0 PROVE Differs'
    <3>1. PICK more \in BOOLEAN : searched = WaysOf(plan, more)
      BY <2>2, <2>4 DEF SearchInv
    <3>2. plan.route \in Routes /\ (plan.route = "structural" => plan.sections)
      BY <2>2, <2>4 DEF SearchInv
    <3>3. plan.route # plan'.route \/ plan'.route = "hybrid" \/ ~plan'.sections
      BY <2>1, <2>4 DEF Chosen, Routes
    <3>4. tried'.ways = WaysOf(plan, more) /\ tried'.sections = plan.sections
      BY <2>1, <3>1
    <3>5. ASSUME NEW few \in BOOLEAN
          PROVE  \/ WaysOf(plan', few) # WaysOf(plan, more)
                 \/ WaysOf(plan, more) = Ways
                 \/ WaysOf(plan, more) = {"meaning"} /\ ~(plan'.sections /\ plan.sections)
      BY <2>3, <3>2, <3>3, OtherSearch
    <3>6. \A few \in BOOLEAN : WaysOf(plan, few)' = WaysOf(plan', few)
      BY DEF WaysOf
    <3> QED
      BY <3>4, <3>5, <3>6 DEF Differs
  <2> QED
    BY <2>2, <2>3, <2>4 DEF SearchInv
<1>2. CASE Guardrail \/ Reject
  <2>1. UNCHANGED <<plan, attempts, searched, tried>>
    BY <1>2 DEF Guardrail, Reject, graph
  <2>2. node' \in {"router", "reject", "end"} /\ (node' = "router" => attempts = 0)
    BY <1>2 DEF Guardrail, Reject, Run, SearchInv
  <2> QED
    BY <2>1, <2>2 DEF SearchInv
<1>3. CASE Retrieve
  <2>1. PICK few \in BOOLEAN : searched' = WaysOf(plan, few)
    BY <1>3 DEF Retrieve
  <2>2. UNCHANGED <<plan, attempts, tried>> /\ node = "retrieve" /\ node' \in {"vision", "retrieval_judge"}
    BY <1>3 DEF Retrieve, Run, AfterRetrieve
  <2>3. plan'.route \in Routes /\ \E f \in BOOLEAN : searched' = WaysOf(plan, f)'
    BY <2>1, <2>2 DEF SearchInv, WaysOf
  <2>4. attempts > 0 => Differs'
    BY <2>2 DEF SearchInv, Differs, WaysOf
  <2> QED
    BY <2>2, <2>3, <2>4 DEF SearchInv
<1>4. CASE Vision \/ RetrievalJudge \/ Answerer \/ Judge \/ BumpAttempts
  <2>1. UNCHANGED <<plan, searched, tried>>
    BY <1>4 DEF Vision, RetrievalJudge, Answerer, Judge, BumpAttempts
  <2>2. node \in {"vision", "retrieval_judge", "answerer", "judge", "bump_attempts"}
    BY <1>4 DEF Vision, RetrievalJudge, Answerer, Judge, BumpAttempts, Run
  <2>3. \/ UNCHANGED attempts /\ node # "bump_attempts"
           /\ node' \in {"retrieve", "retrieval_judge", "answerer", "judge", "bump_attempts", "end"}
        \/ node' = "router"
    BY <1>4
    DEF Vision, RetrievalJudge, AfterRetrievalJudge, Answerer, Judge, AfterJudge, BumpAttempts, Run
  <2>4. /\ Differs' <=> Differs
        /\ (\E f \in BOOLEAN : searched = WaysOf(plan, f)) <=> (\E f \in BOOLEAN : searched' = WaysOf(plan, f)')
    BY <2>1 DEF Differs, WaysOf
  <2> QED
    BY <2>1, <2>2, <2>3, <2>4 DEF SearchInv
<1>5. CASE NodeRaises \/ StreamStep \/ NotReady \/ GraphTimeout \/ Disconnect
  <2>1. UNCHANGED <<graph, history>>
    BY <1>5
    DEF NodeRaises, StreamStep, StartGraph, AwaitGraph, GraphFailed, GraphDone, Content, LimitReached,
        Meta, Usage, NotReady, GraphTimeout, Disconnect
  <2>2. \/ UNCHANGED node \/ node' \in {"raised", "cancelled"}
        \/ node = Nothing /\ node' = "guardrail"
    BY <1>5
    DEF NodeRaises, StreamStep, StartGraph, AwaitGraph, GraphFailed, GraphDone, Content, LimitReached,
        Meta, Usage, NotReady, GraphTimeout, Disconnect, StreamInv
  <2> QED
    BY <2>1, <2>2 DEF graph, history, SearchInv, Differs, WaysOf
<1> QED
  BY <1>1, <1>2, <1>3, <1>4, <1>5 DEF Next, GraphStep

-----------------------------------------------------------------------------
(* The stream *)

\* What a short sequence is after an Append.
LEMMA AppendToOne ==
    ASSUME NEW e, NEW f
    PROVE  Append(<<e>>, f) = <<e, f>>
<1> DEFINE S == {e, f}  s == Append(<<e>>, f)  t == <<e, f>>
<1>1. t \in Seq(S) /\ Len(t) = 2 /\ t[1] = e /\ t[2] = f
  OBVIOUS
<1>2. <<e>> \in Seq(S) /\ f \in S
  OBVIOUS
<1>3. s \in Seq(S) /\ Len(s) = 2 /\ s[1] = e /\ s[2] = f
  BY <1>2
<1> HIDE DEF s, t, S
<1>4. Len(s) = Len(t) /\ \A i \in 1..Len(s) : s[i] = t[i]
  BY <1>1, <1>3
<1> QED
  BY <1>1, <1>3, <1>4, SeqEqual DEF s, t

LEMMA AppendToTwo ==
    ASSUME NEW e, NEW f, NEW g
    PROVE  Append(<<e, f>>, g) = <<e, f, g>>
<1> DEFINE S == {e, f, g}  s == Append(<<e, f>>, g)  t == <<e, f, g>>
<1>1. t \in Seq(S) /\ Len(t) = 3 /\ t[1] = e /\ t[2] = f /\ t[3] = g
  OBVIOUS
<1>2. <<e, f>> \in Seq(S) /\ g \in S
  OBVIOUS
<1>3. s \in Seq(S) /\ Len(s) = 3 /\ s[1] = e /\ s[2] = f /\ s[3] = g
  BY <1>2
<1> HIDE DEF s, t, S
<1>4. Len(s) = Len(t) /\ \A i \in 1..Len(s) : s[i] = t[i]
  BY <1>1, <1>3
<1> QED
  BY <1>1, <1>3, <1>4, SeqEqual DEF s, t

LEMMA AppendToThree ==
    ASSUME NEW e, NEW f, NEW g, NEW h
    PROVE  Append(<<e, f, g>>, h) = <<e, f, g, h>>
<1> DEFINE S == {e, f, g, h}  s == Append(<<e, f, g>>, h)  t == <<e, f, g, h>>
<1>1. t \in Seq(S) /\ Len(t) = 4 /\ t[1] = e /\ t[2] = f /\ t[3] = g /\ t[4] = h
  OBVIOUS
<1>2. <<e, f, g>> \in Seq(S) /\ h \in S
  OBVIOUS
<1>3. s \in Seq(S) /\ Len(s) = 4 /\ s[1] = e /\ s[2] = f /\ s[3] = g /\ s[4] = h
  BY <1>2
<1> HIDE DEF s, t, S
<1>4. Len(s) = Len(t) /\ \A i \in 1..Len(s) : s[i] = t[i]
  BY <1>1, <1>3
<1> QED
  BY <1>1, <1>3, <1>4, SeqEqual DEF s, t

LEMMA AppendToFour ==
    ASSUME NEW e, NEW f, NEW g, NEW h, NEW k
    PROVE  Append(<<e, f, g, h>>, k) = <<e, f, g, h, k>>
<1> DEFINE S == {e, f, g, h, k}  s == Append(<<e, f, g, h>>, k)  t == <<e, f, g, h, k>>
<1>1. t \in Seq(S) /\ Len(t) = 5 /\ t[1] = e /\ t[2] = f /\ t[3] = g /\ t[4] = h /\ t[5] = k
  OBVIOUS
<1>2. <<e, f, g, h>> \in Seq(S) /\ k \in S
  OBVIOUS
<1>3. s \in Seq(S) /\ Len(s) = 5 /\ s[1] = e /\ s[2] = f /\ s[3] = g /\ s[4] = h /\ s[5] = k
  BY <1>2
<1> HIDE DEF s, t, S
<1>4. Len(s) = Len(t) /\ \A i \in 1..Len(s) : s[i] = t[i]
  BY <1>1, <1>3
<1> QED
  BY <1>1, <1>3, <1>4, SeqEqual DEF s, t

\* Each event is appended in its place, and a graph that ended stays ended.
LEMMA StreamStepInv == StreamInv /\ Next => StreamInv'
<1> SUFFICES ASSUME StreamInv, Next PROVE StreamInv'
  OBVIOUS
<1> USE NotNothing DEF StreamInv, ToSet
<1>0. /\ Append(<<"stage">>, "content") = <<"stage", "content">>
      /\ Append(<<"stage">>, "error") = <<"stage", "error">>
      /\ Append(<<"stage">>, "meta") = <<"stage", "meta">>
      /\ Append(<<"stage", "content">>, "limit_reached") = <<"stage", "content", "limit_reached">>
      /\ Append(<<"stage", "content">>, "meta") = <<"stage", "content", "meta">>
  BY AppendToOne, AppendToTwo
<1>1. ASSUME GraphStep \/ NodeRaises PROVE StreamInv'
  <2>1. node \in Nodes /\ node # "end" /\ node # Nothing /\ UNCHANGED <<stream, sent, counted>>
    BY <1>1
    DEF GraphStep, Guardrail, Reject, Router, Retrieve, Vision, RetrievalJudge, Answerer, Judge,
        BumpAttempts, NodeRaises, Run, Nodes, events
  <2> QED
    BY <2>1
<1>2. CASE StartGraph
  <2>1. sent' = <<"stage">> /\ stream' = "start" /\ ~counted /\ UNCHANGED counted
    BY <1>2 DEF StartGraph, Yield
  <2> QED
    BY <2>1
<1>3. CASE AwaitGraph \/ GraphDone
  BY <1>3 DEF AwaitGraph, GraphDone
<1>4. CASE GraphFailed \/ GraphTimeout
  <2>1. sent' = <<"stage", "error">> /\ stream' = "closed" /\ ~counted /\ UNCHANGED counted
    BY <1>0, <1>4 DEF GraphFailed, GraphTimeout, Yield
  <2>2. "content" \notin ToSet(sent')
    BY <2>1
  <2> QED
    BY <2>1, <2>2
<1>5. CASE Content
  <2>1. sent = <<"stage">> /\ ~counted /\ node = "end" /\ UNCHANGED node
    BY <1>5 DEF Content
  <2>2. CASE stream' = "meta" /\ UNCHANGED <<sent, counted>>
    BY <2>1, <2>2
  <2>3. CASE sent' = Append(sent, "content") /\ stream' \in {"limit", "meta"}
    <3>1. sent' = <<"stage", "content">> /\ sent' # <<"stage">>
      <4>1. sent' = <<"stage", "content">>
        BY <1>0, <2>1, <2>3
      <4>2. Len(<<"stage", "content">>) = 2 /\ Len(<<"stage">>) = 1
        OBVIOUS
      <4> QED
        BY <4>1, <4>2
    <3> QED
      BY <2>1, <2>3, <3>1
  <2> QED
    BY <1>5, <2>2, <2>3 DEF Content, Yield
<1>6. CASE LimitReached
  <2>1. /\ sent' = <<"stage", "content", "limit_reached">> /\ stream' = "meta"
        /\ node = "end" /\ UNCHANGED node
    BY <1>0, <1>6 DEF LimitReached, Yield
  <2>2. sent' # <<"stage">>
    <3>1. Len(<<"stage", "content", "limit_reached">>) = 3 /\ Len(<<"stage">>) = 1
      OBVIOUS
    <3> QED
      BY <2>1, <3>1
  <2> QED
    BY <2>1, <2>2
<1>7. CASE Meta
  <2>1. /\ sent' = Append(sent, "meta") /\ stream' = IF counted THEN "usage" ELSE "closed"
        /\ node = "end" /\ UNCHANGED <<node, counted>>
    BY <1>7 DEF Meta, Yield
  <2>2. CASE sent = <<"stage">>
    <3>1. sent' = <<"stage", "meta">> /\ ~counted
      BY <1>0, <1>7, <2>1, <2>2 DEF Meta
    <3> QED
      BY <2>1, <3>1
  <2>3. CASE sent = <<"stage", "content">>
    <3>1. sent' = <<"stage", "content", "meta">>
      BY <1>0, <2>1, <2>3
    <3>2. sent' # <<"stage">>
      <4>1. Len(<<"stage", "content", "meta">>) = 3 /\ Len(<<"stage">>) = 1
        OBVIOUS
      <4> QED
        BY <3>1, <4>1
    <3> QED
      BY <2>1, <3>1, <3>2
  <2>4. CASE sent = <<"stage", "content", "limit_reached">>
    <3>1. sent' = <<"stage", "content", "limit_reached", "meta">>
      <4>1. Append(<<"stage", "content", "limit_reached">>, "meta")
              = <<"stage", "content", "limit_reached", "meta">>
        BY AppendToThree
      <4> QED
        BY <2>1, <2>4, <4>1
    <3>2. sent' # <<"stage">>
      <4>1. Len(<<"stage", "content", "limit_reached", "meta">>) = 4 /\ Len(<<"stage">>) = 1
        OBVIOUS
      <4> QED
        BY <3>1, <4>1
    <3> QED
      BY <2>1, <3>1, <3>2
  <2> QED
    BY <1>7, <2>2, <2>3, <2>4 DEF Meta
<1>8. CASE Usage
  <2>1. sent' = Append(sent, "usage") /\ stream' = "closed" /\ node = "end" /\ UNCHANGED <<node, counted>>
    BY <1>8 DEF Usage, Yield
  <2>2. CASE sent = <<"stage", "content", "meta">>
    <3>1. sent' = <<"stage", "content", "meta", "usage">>
      <4>1. Append(<<"stage", "content", "meta">>, "usage") = <<"stage", "content", "meta", "usage">>
        BY AppendToThree
      <4> QED
        BY <2>1, <2>2, <4>1
    <3>2. sent' # <<"stage">>
      <4>1. Len(<<"stage", "content", "meta", "usage">>) = 4 /\ Len(<<"stage">>) = 1
        OBVIOUS
      <4> QED
        BY <3>1, <4>1
    <3> QED
      BY <2>1, <3>1, <3>2
  <2>3. CASE sent = <<"stage", "content", "limit_reached", "meta">>
    <3>1. sent' = <<"stage", "content", "limit_reached", "meta", "usage">>
      <4>1. Append(<<"stage", "content", "limit_reached", "meta">>, "usage")
              = <<"stage", "content", "limit_reached", "meta", "usage">>
        BY AppendToFour
      <4> QED
        BY <2>1, <2>3, <4>1
    <3>2. sent' # <<"stage">>
      <4>1. Len(<<"stage", "content", "limit_reached", "meta", "usage">>) = 5 /\ Len(<<"stage">>) = 1
        OBVIOUS
      <4> QED
        BY <3>1, <4>1
    <3> QED
      BY <2>1, <3>1, <3>2
  <2> QED
    BY <1>8, <2>2, <2>3 DEF Usage
<1>9. CASE NotReady
  <2>1. sent' = <<"error">> /\ stream' = "closed" /\ ~counted /\ UNCHANGED <<node, counted>>
    BY <1>9 DEF NotReady, Yield
  <2>2. "content" \notin ToSet(sent')
    BY <2>1
  <2> QED
    BY <2>1, <2>2
<1>10. CASE Disconnect
  <2>1. stream' = "closed" /\ UNCHANGED <<sent, counted>>
    BY <1>10 DEF Disconnect
  <2>2. node = "end" => node' = "end"
    BY <1>10 DEF Disconnect, Ended
  <2> QED
    BY <1>10, <2>1, <2>2 DEF Disconnect
<1> QED
  BY <1>1, <1>2, <1>3, <1>4, <1>5, <1>6, <1>7, <1>8, <1>9, <1>10 DEF Next, StreamStep

-----------------------------------------------------------------------------
(* What is guaranteed *)

LEMMA GraphInvariant == Spec => []GraphInv
<1>1. ASSUME Init PROVE GraphInv
  <2> USE <1>1, CapType, NotNothing DEF Init
  <2>1. TypeOK
    <3>1. /\ plan \in [route : Routes \union {Nothing}, sections : BOOLEAN, vision : BOOLEAN]
          /\ found \in [any : BOOLEAN, image : BOOLEAN]
      OBVIOUS
    <3>2. answer \in [text : Texts, from : Nat] /\ verdict \in [verdict : JudgeVerdicts \union {Nothing}, of : Nat]
      BY DEF Texts
    <3>3. sufficient \in BOOLEAN /\ gap \in BOOLEAN
      BY Zenon
    <3>4. attempts \in 0..AgentMaxRetries
      OBVIOUS
    <3>5. searched \subseteq Ways /\ tried \in [ways : SUBSET Ways, sections : BOOLEAN]
      OBVIOUS
    <3>6. counted \in BOOLEAN /\ sent \in Seq(Events)
      BY Zenon, EmptySeq
    <3> QED
      BY <3>1, <3>2, <3>3, <3>4, <3>5, <3>6 DEF TypeOK
  <2>2. BoundInv /\ AnswerInv /\ SearchInv
    BY RouteIsNamed DEF BoundInv, AnswerInv, SearchInv, Ended
  <2>3. StreamInv
    BY DEF StreamInv, ToSet
  <2> QED
    BY <2>1, <2>2, <2>3 DEF GraphInv
<1>2. GraphInv /\ [Next]_vars => GraphInv'
  <2>1. ASSUME GraphInv, Next PROVE GraphInv'
    BY <2>1, TypeStep, BoundStep, AnswerStep, SearchStep, StreamStepInv DEF GraphInv
  <2>2. ASSUME GraphInv, UNCHANGED vars PROVE GraphInv'
    <3>1. TypeOK' /\ UNCHANGED <<StepBound, RetrievalCap>>
      BY <2>2, TypeStep DEF GraphInv, StepBound, RetrievalCap
    <3>2. BoundInv' /\ AnswerInv' /\ SearchInv' /\ StreamInv'
      BY <2>2, <3>1
      DEF GraphInv, BoundInv, AnswerInv, SearchInv, Differs, WaysOf, StreamInv, vars, events, graph,
          history, Ended, ToSet
    <3> QED
      BY <3>1, <3>2 DEF GraphInv
  <2> QED
    BY <2>1, <2>2
<1> QED
  BY <1>1, <1>2, PTL DEF Spec

\* Type correctness (AgentState, chat_stream_ndjson).
THEOREM ChatTypeCorrect == Spec => []TypeOK
  BY GraphInvariant, PTL DEF GraphInv

\* The answer that is sent is the last one and was judged, on excerpts found
\* sufficient, or is the refusal (chat_stream_ndjson, after_judge).
THEOREM SentIsJudged == Spec => []SentAnswerWasJudged
<1>1. GraphInv => SentAnswerWasJudged
  BY DEF GraphInv, AnswerInv, StreamInv, SentAnswerWasJudged
<1> QED
  BY <1>1, GraphInvariant, PTL

\* A retry searches in other ways than the attempt that failed, unless that one
\* searched in all of them or one of the two plans names no headings (the router's
\* switch of the route, and the augmentation in retrieve.run).
THEOREM RetryDiffers == Spec => []RetryChangesTheSearch
<1>1. GraphInv => RetryChangesTheSearch
  BY DEF GraphInv, SearchInv, Differs, RetryChangesTheSearch
<1> QED
  BY <1>1, GraphInvariant, PTL

\* What can have been sent.
Streams ==
    {<<>>, <<"error">>, <<"stage">>, <<"stage", "error">>, <<"stage", "content">>,
     <<"stage", "content", "limit_reached">>, <<"stage", "meta">>, <<"stage", "content", "meta">>,
     <<"stage", "content", "limit_reached", "meta">>, <<"stage", "content", "meta", "usage">>,
     <<"stage", "content", "limit_reached", "meta", "usage">>}

LEMMA ShortIsWellFormed ==
    ASSUME sent \in Streams
    PROVE  StreamIsWellFormed
<1> USE DEF StreamIsWellFormed, ToSet
<1>1. CASE sent = <<>>
  BY <1>1
<1>2. CASE sent = <<"error">>
  BY <1>2
<1>3. CASE sent = <<"stage">>
  BY <1>3
<1>4. CASE sent = <<"stage", "error">>
  BY <1>4
<1>5. CASE sent = <<"stage", "content">>
  BY <1>5
<1>6. CASE sent = <<"stage", "content", "limit_reached">>
  BY <1>6
<1>7. CASE sent = <<"stage", "meta">>
  BY <1>7
<1>8. CASE sent = <<"stage", "content", "meta">>
  BY <1>8
<1>9. CASE sent = <<"stage", "content", "limit_reached", "meta">>
  BY <1>9
<1>10. CASE sent = <<"stage", "content", "meta", "usage">>
  BY <1>10
<1>11. CASE sent = <<"stage", "content", "limit_reached", "meta", "usage">>
  BY <1>11
<1> QED
  BY <1>1, <1>2, <1>3, <1>4, <1>5, <1>6, <1>7, <1>8, <1>9, <1>10, <1>11 DEF Streams

\* The client sees at most one answer and none beside an error, and after the
\* meta event nothing but the usage of that answer (chat_stream_ndjson inside
\* chat_stream_with_usage).
THEOREM StreamWellFormed == Spec => []StreamIsWellFormed
<1>1. ASSUME GraphInv PROVE StreamIsWellFormed
  <2>1. sent \in Streams
    BY <1>1 DEF GraphInv, StreamInv, TypeOK, Streams
  <2> QED
    BY <2>1, ShortIsWellFormed
<1> QED
  BY <1>1, GraphInvariant, PTL

\* Whatever the models answer, the graph runs at most StepBound nodes: with
\* the settings' defaults fewer than the graph library allows (build_graph,
\* after_retrieval_judge, after_judge).
THEOREM GraphIsBounded == Spec => [](steps <= StepBound)
<1>1. GraphInv => steps <= StepBound
  BY WithinBound DEF GraphInv
<1> QED
  BY <1>1, GraphInvariant, PTL

-----------------------------------------------------------------------------
(* What a reader meets, together *)

\* The parts run each on its own, and each as its own specification says.
LEMMA PartsRunAlone ==
    MCSpec => TabsSpec /\ ConversationSpec /\ ViewerSpec /\ AccountSpec /\ Spec
<1>1. MCInit => TabsInit /\ ConversationInit /\ ViewerInit /\ AccountInit /\ Init
  BY DEF MCInit
<1>2. ASSUME [MCNext]_<<part, tabs, conversation, viewer, account, vars>>
      PROVE  /\ [TabsNext]_tabs /\ [ConversationNext]_conversation /\ [ViewerNext]_viewer
             /\ [AccountNext]_account /\ [Next]_vars
  BY <1>2 DEF MCNext
<1> QED
  BY <1>1, <1>2, PTL DEF MCSpec, TabsSpec, ConversationSpec, ViewerSpec, AccountSpec, Spec

\* Type correctness of the browser and of the chat request, run side by side.
THEOREM ReaderTypeCorrect == MCSpec => []ReaderTypeOK
<1>1. TabsTypeOK /\ ConversationTypeOK /\ ViewerTypeOK /\ AccountTypeOK /\ TypeOK => ReaderTypeOK
  BY DEF ReaderTypeOK
<1> QED
  BY <1>1, PartsRunAlone, TabsTypeCorrect, ConversationTypeCorrect, ViewerTypeCorrect,
     AccountTypeCorrect, ChatTypeCorrect, PTL

=============================================================================
