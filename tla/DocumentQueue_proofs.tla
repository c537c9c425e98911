----------------------- MODULE DocumentQueue_proofs ------------------------
(***************************************************************************)
(* Type correctness of DocumentQueue for every value of its constants, and *)
(* that only a death, a late report or a refused write leaves a document   *)
(* stranded; and, for one worker process with any number of tasks, that no *)
(* document is ever worked on by two of them, that "failed" means the      *)
(* attempts are used up, that a document that is ready stays so, and that  *)
(* every step of the queue is a step of DocumentLifecycle, or changes      *)
(* nothing it knows of.                                                    *)
(***************************************************************************)
EXTENDS DocumentQueue, FiniteSetTheorems, TLAPS

USE NullAssumption, RowAssumption, QueueAssumption
  DEF NullAssumption, RowAssumption, QueueAssumption

-----------------------------------------------------------------------------
(* The row operators stay within the type of a row *)

LEMMA FlushType ==
    ASSUME NEW db \in Row, NEW loaded \in Row, NEW new \in Row
    PROVE  Flush(db, loaded, new) \in Row
  BY DEF Flush, Row

LEMMA PayloadTypes ==
    /\ QueuedPayload \in Payload
    /\ RecoveredPayload \in Payload
    /\ \A status \in Statuses : Running(status) \in Payload
  BY DEF QueuedPayload, RecoveredPayload, Running, Payload, Statuses, Stages

LEMMA RowTypes ==
    /\ \A p \in Payload : NewRow(p) \in Row
    /\ \A r \in Row, p \in Payload : SetPayload(r, p) \in Row
    /\ \A r \in Row, t \in Int \union {Null} : Claimed(r, t) \in Row
    /\ \A r \in Row : Recovered(r) \in Row
  BY PayloadTypes DEF NewRow, SetPayload, Claimed, Recovered, Row

LEMMA ElapseRowType ==
    ASSUME NEW r \in Row
    PROVE  ElapseRow(r) \in Row
<1>1. Elapse(r.next_attempt_at, 0) \in Int \union {Null}
  BY DEF Elapse, Row
<1>2. Elapse(r.claimed_until, Lapsed) \in Int \union {Null}
  BY DEF Elapse, Row, Lapsed
<1> QED
  BY <1>1, <1>2 DEF ElapseRow, Row

LEMMA BackoffType ==
    ASSUME NEW n \in Nat, n + 1 < MaxAttempts
    PROVE  retry_delay(n + 1) \in Int
<1>1. n \in 0..MaxAttempts /\ (n + 1) - 1 = n
  OBVIOUS
<1>2. RetryBase * 2 ^ n \in Nat \ {0}
  BY <1>1, BackoffAssumption DEF BackoffAssumption
<1> QED
  BY <1>1, <1>2 DEF retry_delay

\* What Settle leaves in a row is a row: the retry has a deadline because it
\* is scheduled only while attempts are left.
LEMMA SettledType ==
    ASSUME NEW r \in Row, NEW t, t.snap \in Row
    PROVE  Settled(r, t) \in Row
<1>1. Released(r, t.snap) \in Row
  <2>1. [t.snap EXCEPT !.claimed_until = Null] \in Row
    BY DEF Row
  <2> QED BY <2>1, FlushType DEF Released
<1>2. CASE t.snap.attempts + 1 < MaxAttempts
  <2>1. t.snap.attempts \in Nat
    BY DEF Row
  <2>2. retry_delay(t.snap.attempts + 1) \in Int
    BY <1>2, <2>1, BackoffType
  <2>3. RetryScheduled(r, t.snap) \in Row
    BY <2>1, <2>2, PayloadTypes, FlushType DEF RetryScheduled, Row
  <2> QED BY <1>1, <1>2, <2>3 DEF Settled
<1>3. CASE ~(t.snap.attempts + 1 < MaxAttempts)
  <2>1. MarkedFailed(r, t.snap) \in Row
    <3>1. [status |-> "failed", stage |-> "other"] \in Payload
      BY DEF Payload, Statuses, Stages
    <3>2. t.snap.attempts + 1 \in Nat
      BY DEF Row
    <3> QED BY <3>1, <3>2, FlushType DEF MarkedFailed, Row
  <2> QED BY <1>1, <1>3, <2>1 DEF Settled
<1> QED BY <1>2, <1>3

-----------------------------------------------------------------------------
(* Type correctness *)

LEMMA TouchType ==
    ASSUME NEW D, Touch(D)
    PROVE  updated' \in [Docs -> Nat]
<1>1. Cardinality(Docs) \in Nat
  BY FS_CardinalityType
<1>2. \A d : Cardinality({e \in Docs \ D : updated[e] < updated[d]}) \in Nat
  <2> TAKE d
  <2>1. IsFiniteSet({e \in Docs \ D : updated[e] < updated[d]})
    BY FS_Subset
  <2> QED BY <2>1, FS_CardinalityType
<1> QED BY <1>1, <1>2 DEF Touch

\* A task that processes a document holds it and the row it claimed.
LEMMA ProcessingTask ==
    ASSUME NEW t \in TaskState, t.pc \in Steps
    PROVE  t \in [pc : Steps, doc : Docs, snap : Row, outcome : {Null}, left : Nat]
  BY DEF TaskState, IdleTask, Steps, InFlight

LEMMA SettlingTask ==
    ASSUME NEW t \in TaskState, t.pc = "settle"
    PROVE  t \in [pc : {"settle"}, doc : Docs, snap : Row, outcome : Outcomes, left : Nat]
  BY DEF TaskState, IdleTask, Steps, InFlight

LEMMA ContinueType ==
    ASSUME TypeOK, NEW s \in Slots, task[s].pc \in Steps,
           NEW pc \in Steps, NEW left \in Nat, Continue(s, pc, left)
    PROVE  task' \in [Slots -> TaskState]
<1>1. task[s] \in [pc : Steps, doc : Docs, snap : Row, outcome : {Null}, left : Nat]
  BY ProcessingTask DEF TypeOK
<1>2. [task[s] EXCEPT !.pc = pc, !.left = left]
         \in [pc : Steps, doc : Docs, snap : Row, outcome : {Null}, left : Nat]
  BY <1>1
<1> QED BY <1>2 DEF Continue, TypeOK, TaskState

LEMMA FinishType ==
    ASSUME TypeOK, NEW s \in Slots, task[s].pc \in Steps,
           NEW outcome \in Outcomes, NEW left \in Nat, Finish(s, outcome, left)
    PROVE  task' \in [Slots -> TaskState]
<1>1. task[s] \in [pc : Steps, doc : Docs, snap : Row, outcome : {Null}, left : Nat]
  BY ProcessingTask DEF TypeOK
<1>2. [task[s] EXCEPT !.pc = "settle", !.outcome = outcome, !.left = left]
         \in [pc : {"settle"}, doc : Docs, snap : Row, outcome : Outcomes, left : Nat]
  BY <1>1
<1> QED BY <1>2 DEF Finish, TypeOK, TaskState

LEMMA WriteType ==
    ASSUME TypeOK, NEW d \in Docs, Present(d), NEW status \in Statuses,
           Write(d, Running(status))
    PROVE  row' \in [Docs -> Row \union {Null}] /\ updated' \in [Docs -> Nat]
<1>1. SetPayload(row[d], Running(status)) \in Row
  BY PayloadTypes, RowTypes DEF TypeOK, Present
<1> QED BY <1>1, TouchType DEF Write, TypeOK

LEMMA RefusedType ==
    ASSUME TypeOK, Refused
    PROVE  /\ row' \in [Docs -> Row \union {Null}] /\ updated' \in [Docs -> Nat]
           /\ faults' \in 0..MaxFaults
  BY DEF Refused, TypeOK

\* A run that ends has written its last status, or leaves the rows alone.
Ended(s, status) ==
    /\ Finish(s, status, 0)
    /\ UNCHANGED <<known, up>>
    /\ \/ Present(task[s].doc) /\ Write(task[s].doc, Running(status))
       \/ row' = row

LEMMA EndEnded ==
    /\ \A status : \A s \in Slots : End(s, status) => Ended(s, status)
    /\ \A s \in Slots : Complete(s) => \E status \in Success : Ended(s, status)
  BY DEF End, Complete, Ended, Refused

\* Every variable of every state has its type, for any numbers of documents,
\* processes and tasks.
THEOREM TypeCorrect == Spec => []TypeOK
<1>1. Init => TypeOK
  BY DEF Init, TypeOK, TaskState
<1>2. TypeOK /\ [Next]_vars => TypeOK'
  <2> SUFFICES ASSUME TypeOK, [Next]_vars PROVE TypeOK'
    OBVIOUS
  <2> USE DEF TypeOK
  <2>1. ASSUME NEW d \in Docs, Upload(d) PROVE TypeOK'
    BY <2>1, TouchType, PayloadTypes, RowTypes DEF Upload
  <2>2. ASSUME NEW d \in Docs, Delete(d) PROVE TypeOK'
    BY <2>2 DEF Delete
  <2>3. ASSUME NEW s \in Slots, Claim(s) PROVE TypeOK'
    <3>1. PICK d \in Oldest :
            /\ row' = [row EXCEPT ![d] = Claimed(row[d], LeaseTime)]
            /\ task' = [task EXCEPT ![s] =
                          [pc |-> "load", doc |-> d, snap |-> Claimed(row[d], LeaseTime),
                           outcome |-> Null, left |-> LeaseTime]]
            /\ Touch({d})
      BY <2>3 DEF Claim
    <3>2. d \in Docs /\ row[d] \in Row
      BY DEF Oldest, Present
    <3>3. Claimed(row[d], LeaseTime) \in Row
      BY <3>2, RowTypes
    <3> QED BY <2>3, <3>1, <3>2, <3>3, TouchType DEF Claim, TaskState, Steps
  <2>4. ASSUME NEW s \in Slots, Loaded(s) PROVE TypeOK'
    <3>1. task[s].doc \in Docs /\ "extracting" \in Steps /\ "extracting" \in Statuses
            /\ task[s].pc \in Steps
      BY <2>4, ProcessingTask DEF Loaded, Steps, InFlight, Statuses
    <3> QED BY <2>4, <3>1, ContinueType, WriteType DEF Loaded
  <2>5. ASSUME NEW s \in Slots, LoadFailed(s) PROVE TypeOK'
    <3>1. task[s].doc \in Docs /\ task[s].pc \in Steps
      BY <2>5, ProcessingTask DEF LoadFailed, Steps
    <3>2. "parser_failure" \in Outcomes /\ Running("parser_failure") \in Payload
      BY PayloadTypes DEF Outcomes, Retryable, Statuses
    <3>3. task' \in [Slots -> TaskState]
      <4>1. \E left \in Nat : Finish(s, "parser_failure", left)
        BY <2>5, <3>1, ProcessingTask DEF LoadFailed
      <4> QED BY <3>1, <3>2, <4>1, FinishType
    <3>4. CASE Refused
      BY <2>5, <3>3, <3>4, RefusedType DEF LoadFailed
    <3>5. CASE ~Refused
      <4>1. row' \in [Docs -> Row \union {Null}]
        BY <2>5, <3>1, <3>2, <3>5, RowTypes DEF LoadFailed
      <4>2. updated' \in [Docs -> Nat]
        BY <2>5, <3>5, TouchType DEF LoadFailed
      <4> QED BY <2>5, <3>3, <3>5, <4>1, <4>2 DEF LoadFailed
    <3> QED BY <3>4, <3>5
  <2>6. ASSUME NEW s \in Slots, StageDone(s) PROVE TypeOK'
    <3>1. task[s].doc \in Docs /\ task[s].pc \in Steps /\ task[s].left \in Nat
      BY <2>6, ProcessingTask DEF StageDone, NextStage, Steps, InFlight
    <3>2. NextStage[task[s].pc] \in Steps /\ NextStage[task[s].pc] \in Statuses
      BY <2>6 DEF StageDone, NextStage, Steps, InFlight, Statuses
    <3> QED BY <2>6, <3>1, <3>2, ContinueType, WriteType DEF StageDone
  <2>7. ASSUME NEW s \in Slots, task[s].pc \in InFlight,
               NEW status \in Outcomes \ {"unknown"}, End(s, status)
        PROVE  /\ row' \in [Docs -> Row \union {Null}] /\ updated' \in [Docs -> Nat]
               /\ task' \in [Slots -> TaskState] /\ task[s].doc \in Docs
               /\ faults' \in 0..MaxFaults /\ UNCHANGED <<known, up>>
    <3>1. task[s].doc \in Docs /\ task[s].pc \in Steps
      BY <2>7, ProcessingTask DEF Steps
    <3>2. status \in Statuses
      BY DEF Outcomes, Statuses
    <3>3. task' \in [Slots -> TaskState]
      BY <2>7, <3>1, FinishType DEF End
    <3>4. CASE Refused
      BY <2>7, <3>1, <3>3, <3>4, RefusedType DEF End
    <3>5. CASE ~Refused
      BY <2>7, <3>1, <3>2, <3>3, <3>5, WriteType DEF End
    <3> QED BY <3>4, <3>5
  <2>8. ASSUME NEW s \in Slots, Complete(s) PROVE TypeOK'
    <3>1. task[s].doc \in Docs /\ task[s].pc \in Steps /\ Present(task[s].doc)
      BY <2>8, ProcessingTask DEF Complete, Steps, InFlight
    <3>2. PICK status \in Success :
            Write(task[s].doc, Running(status)) /\ Finish(s, status, 0)
      BY <2>8 DEF Complete
    <3>3. status \in Statuses /\ status \in Outcomes
      BY DEF Statuses, Outcomes
    <3>4. task' \in [Slots -> TaskState]
      BY <3>1, <3>2, <3>3, FinishType
    <3> QED BY <2>8, <3>1, <3>2, <3>3, <3>4, WriteType DEF Complete
  <2>9. ASSUME NEW s \in Slots, Reject(s) PROVE TypeOK'
    BY <2>7, <2>9 DEF Reject, InFlight, Outcomes, Rejected, Retryable
  <2>10. ASSUME NEW s \in Slots, ParseFail(s) PROVE TypeOK'
    BY <2>7, <2>10 DEF ParseFail, Outcomes, Retryable
  <2>11. ASSUME NEW s \in Slots, Timeout(s) PROVE TypeOK'
    BY <2>7, <2>11 DEF Timeout, Outcomes, Retryable, Slots
  <2>12. ASSUME NEW s \in Slots, RowGone(s) PROVE TypeOK'
    <3>1. task[s].pc \in Steps
      BY <2>12 DEF RowGone, Steps
    <3> QED BY <2>12, <3>1, FinishType DEF RowGone, Outcomes, Retryable
  <2>13. ASSUME NEW s \in Slots, Settle(s) PROVE TypeOK'
    <3>1. task[s].doc \in Docs /\ task[s].snap \in Row
      BY <2>13, SettlingTask DEF Settle
    <3>2. Present(task[s].doc) => Settled(row[task[s].doc], task[s]) \in Row
      BY <3>1, SettledType DEF Present
    <3>3. CASE Refused
      BY <2>13, <3>3, RefusedType DEF Settle, TaskState
    <3>4. CASE ~Refused
      BY <2>13, <3>1, <3>2, <3>4, TouchType DEF Settle, TaskState
    <3> QED BY <3>3, <3>4
  <2>14. ASSUME NEW p \in Procs, NEW d \in Docs, LateReport(p, d) PROVE TypeOK'
    BY <2>14, WriteType DEF LateReport, Statuses, InFlight
  <2>15. ASSUME NEW p \in Procs, NEW d \in Docs, ThreadEnds(p, d) PROVE TypeOK'
    BY <2>15 DEF ThreadEnds
  <2>16. ASSUME NEW p \in Procs, Kill(p) PROVE TypeOK'
    BY <2>16 DEF Kill, TaskState
  <2>17. ASSUME NEW p \in Procs, Start(p) PROVE TypeOK'
    <3>1. \A d \in Docs : Present(d) =>
            Claimed(row[d], SchemaLease) \in Row /\ Recovered(row[d]) \in Row
      BY RowTypes DEF Present
    <3>2. row' \in [Docs -> Row \union {Null}]
      BY <2>17, <3>1 DEF Start, Oldest
    <3>3. updated' \in [Docs -> Nat]
      BY <2>17, TouchType DEF Start
    <3> QED BY <2>17, <3>2, <3>3 DEF Start
  <2>18. ASSUME NEW p \in Procs, ExpireStaleLeases(p) PROVE TypeOK'
    <3>1. \A d \in Docs : Present(d) => Claimed(row[d], Null) \in Row
      BY RowTypes DEF Present
    <3> QED BY <2>18, <3>1 DEF ExpireStaleLeases
  <2>19. CASE Tick
    <3>1. row' \in [Docs -> Row \union {Null}]
      BY <2>19, ElapseRowType DEF Tick, Present
    <3>2. \A t \in TaskState : [t EXCEPT !.left = IF @ > 0 THEN @ - 1 ELSE 0] \in TaskState
      BY DEF TaskState, IdleTask
    <3> QED BY <2>19, <3>1, <3>2 DEF Tick
  <2>20. CASE UNCHANGED vars
    BY <2>20 DEF vars
  <2> QED
    BY <2>1, <2>2, <2>3, <2>4, <2>5, <2>6, <2>8, <2>9, <2>10, <2>11, <2>12, <2>13,
       <2>14, <2>15, <2>16, <2>17, <2>18, <2>19, <2>20 DEF Next
<1> QED
  BY <1>1, <1>2, PTL DEF Spec

-----------------------------------------------------------------------------
(* One worker process: the inductive invariant *)

OneProcess == \A p, q \in Procs : p = q

\* A task that works on a document works on one document of Docs.
LEMMA WorkingTask ==
    ASSUME TypeOK, NEW s \in Slots, task[s].pc # "idle"
    PROVE  /\ task[s].doc \in Docs /\ Owns(s, task[s].doc)
           /\ task[s].snap \in Row
           /\ task[s].pc \in Steps \union {"settle"}
           /\ task[s].left \in Nat
           /\ task[s].pc = "settle" => task[s].outcome \in Outcomes
<1>1. task[s] \in TaskState
  BY DEF TypeOK
<1>2. CASE task[s].pc \in Steps
  BY <1>2, <1>1, ProcessingTask DEF Owns, Steps, InFlight
<1>3. CASE task[s].pc = "settle"
  BY <1>3, <1>1, SettlingTask DEF Owns
<1> QED
  BY <1>1, <1>2, <1>3 DEF TaskState, IdleTask

\* A step of one task that keeps its document and writes at most that
\* document's row keeps IInv if it keeps it for that task and document.
LEMMA OwnStep ==
    ASSUME TypeOK, IInv, NEW s \in Slots, task[s].pc # "idle",
           UNCHANGED <<known, up>>,
           \A t \in Slots : t # s => task'[t] = task[t],
           task'[s].pc # "idle", task'[s].doc = task[s].doc,
           \A d \in Docs : d # task[s].doc => row'[d] = row[d],
           Present(task[s].doc)' => Status(task[s].doc)' # "failed",
           OwnedRow(s, task[s].doc)'
    PROVE  IInv'
<1> DEFINE dd == task[s].doc
<1>1. dd \in Docs /\ Owns(s, dd)
  BY WorkingTask
<1>2. \A t \in Slots, d \in Docs : Owns(t, d)' <=> Owns(t, d)
  BY <1>1 DEF Owns
<1>3. \A t \in Slots : Owns(t, dd) => t = s
  BY <1>1 DEF IInv, OneTaskPerDocument
<1>4. OneTaskPerDocument'
  BY <1>2 DEF IInv, OneTaskPerDocument
<1>5. OwnerInv'
  <2> SUFFICES ASSUME NEW t \in Slots, NEW d \in Docs, Owns(t, d)
               PROVE  up'[t[1]] /\ d \in known' /\ OwnedRow(t, d)'
    BY <1>2 DEF OwnerInv
  <2>1. up'[t[1]] /\ d \in known' /\ OwnedRow(t, d)
    BY DEF IInv, OwnerInv
  <2>2. CASE d = dd
    BY <2>1, <2>2, <1>3
  <2>3. CASE d # dd
    <3>1. row'[d] = row[d]
      BY <2>3
    <3>2. t # s
      BY <2>3 DEF Owns
    <3> QED
      BY <2>1, <3>1, <3>2 DEF OwnedRow, Present, Status
  <2> QED BY <2>2, <2>3
<1>6. FailedMeansExhausted'
  BY <1>1 DEF IInv, FailedMeansExhausted, Present, Status
<1>7. \A d \in Docs : Present(d)' => d \in known'
  BY <1>1 DEF IInv, Present, OwnerInv
<1> QED
  BY <1>4, <1>5, <1>6, <1>7 DEF IInv

LEMMA WriteFacts ==
    ASSUME TypeOK, NEW d \in Docs, Present(d), NEW status, Write(d, Running(status))
    PROVE  /\ Status(d)' = status
           /\ row'[d].claimed_until = row[d].claimed_until
           /\ \A e \in Docs : e # d => row'[e] = row[e]
<1>1. row[d] \in Row
  BY DEF TypeOK, Present
<1>2. row'[d] = SetPayload(row[d], Running(status))
  BY DEF Write, TypeOK
<1>3. SetPayload(row[d], Running(status)).payload.status = status
        /\ SetPayload(row[d], Running(status)).claimed_until = row[d].claimed_until
  BY <1>1 DEF SetPayload, Running, Row
<1> QED
  BY <1>2, <1>3 DEF Write, Status, TypeOK

LEMMA ContinueFacts ==
    ASSUME TypeOK, NEW s \in Slots, task[s].pc \in Steps, NEW pc, NEW left, Continue(s, pc, left)
    PROVE  /\ task'[s].pc = pc /\ task'[s].left = left /\ task'[s].doc = task[s].doc
           /\ \A t \in Slots : t # s => task'[t] = task[t]
<1>1. task[s] \in [pc : Steps, doc : Docs, snap : Row, outcome : {Null}, left : Nat]
  BY ProcessingTask DEF TypeOK
<1>2. task'[s] = [task[s] EXCEPT !.pc = pc, !.left = left]
  BY DEF Continue, TypeOK
<1> QED
  BY <1>1, <1>2 DEF Continue, TypeOK

LEMMA FinishFacts ==
    ASSUME TypeOK, NEW s \in Slots, task[s].pc \in Steps, NEW outcome, NEW left,
           Finish(s, outcome, left)
    PROVE  /\ task'[s].pc = "settle" /\ task'[s].outcome = outcome
           /\ task'[s].doc = task[s].doc /\ task'[s].left = left
           /\ \A t \in Slots : t # s => task'[t] = task[t]
<1>1. task[s] \in [pc : Steps, doc : Docs, snap : Row, outcome : {Null}, left : Nat]
  BY ProcessingTask DEF TypeOK
<1>2. task'[s] = [task[s] EXCEPT !.pc = "settle", !.outcome = outcome, !.left = left]
  BY DEF Finish, TypeOK
<1> QED
  BY <1>1, <1>2 DEF Finish, TypeOK

\* The last status of a run is the outcome its task settles with, or one the
\* run wrote before.
LEMMA EndKeepsIInv ==
    ASSUME TypeOK, IInv, NEW s \in Slots, task[s].pc \in InFlight,
           NEW status, status \notin {"failed", "queued"}, Ended(s, status)
    PROVE  IInv'
<1>1. task[s].pc \in Steps /\ task[s].pc # "idle" /\ task[s].doc \in Docs
  BY WorkingTask DEF Steps, InFlight
<1>2. /\ task'[s].pc = "settle" /\ task'[s].outcome = status
      /\ task'[s].doc = task[s].doc /\ \A t \in Slots : t # s => task'[t] = task[t]
  BY <1>1, FinishFacts DEF Ended
<1>3. CASE Present(task[s].doc) /\ Write(task[s].doc, Running(status))
  <2>1. Status(task[s].doc)' = status /\ \A d \in Docs : d # task[s].doc => row'[d] = row[d]
    BY <1>1, <1>2, <1>3, WriteFacts DEF Status
  <2> QED
    BY <1>1, <1>2, <2>1, OwnStep DEF Ended, OwnedRow, InFlight
<1>4. CASE row' = row
  <2>1. Present(task[s].doc) => Status(task[s].doc) \in InFlight
    BY <1>1, WorkingTask DEF IInv, OwnerInv, OwnedRow
  <2>2. OwnedRow(s, task[s].doc)'
    BY <1>2, <1>4, <2>1 DEF OwnedRow, InFlight, Present, Status
  <2> QED
    BY <1>1, <1>2, <1>4, <2>1, <2>2, OwnStep DEF Ended, InFlight, Present, Status
<1> QED BY <1>3, <1>4 DEF Ended

\* A step that keeps every task and, of the rows, only frees a lease that has
\* run out, deletes a row, or reports "extracting", keeps IInv.
LEMMA RowStep ==
    ASSUME TypeOK, IInv, UNCHANGED <<task, up, known>>,
           \A d \in Docs : Present(d)' =>
             /\ Present(d)
             /\ Status(d)' \in {Status(d), "extracting"}
             /\ Status(d)' = "failed" => row'[d].attempts = row[d].attempts
             /\ \A s \in Slots : Owns(s, d) /\ OnLease(s) =>
                  row'[d].claimed_until = row[d].claimed_until
    PROVE  IInv'
<1>1. OneTaskPerDocument' /\ \A d \in Docs : Present(d)' => d \in known'
  BY DEF IInv, OneTaskPerDocument, Owns
<1>2. OwnerInv'
  <2> SUFFICES ASSUME NEW t \in Slots, NEW d \in Docs, Owns(t, d)
               PROVE  up'[t[1]] /\ d \in known' /\ OwnedRow(t, d)'
    BY DEF OwnerInv, Owns
  <2>1. up'[t[1]] /\ d \in known' /\ OwnedRow(t, d)
    BY DEF IInv, OwnerInv
  <2>2. ASSUME Present(d)', task[t].pc = "settle" PROVE OwnedRow(t, d)'
    <3>1. Status(d) = "queued" => row'[d].claimed_until = row[d].claimed_until
      BY <2>2 DEF OnLease, Owns
    <3>2. Status(d)' = "queued" => Status(d) = "queued"
      BY <2>2
    <3> QED BY <2>1, <2>2, <3>1, <3>2 DEF OwnedRow, InFlight, Steps
  <2>3. ASSUME Present(d)', task[t].pc # "settle" PROVE OwnedRow(t, d)'
    BY <2>1, <2>3 DEF OwnedRow, OnLease, InFlight
  <2> QED BY <2>1, <2>2, <2>3 DEF OwnedRow
<1>3. FailedMeansExhausted'
  BY DEF IInv, FailedMeansExhausted
<1> QED
  BY <1>1, <1>2, <1>3 DEF IInv

\* A document that a claim may take is not worked on by any task.
LEMMA DueUnowned ==
    ASSUME TypeOK, IInv, NEW d \in Docs, Present(d), Due(row[d])
    PROVE  \A t \in Slots : ~Owns(t, d)
<1> SUFFICES ASSUME NEW t \in Slots, Owns(t, d) PROVE FALSE
  OBVIOUS
<1>1. OwnedRow(t, d) /\ task[t].pc \in Steps \union {"settle"} /\ task[t].left \in Nat
  BY WorkingTask DEF Owns, IInv, OwnerInv
<1> QED
  BY <1>1 DEF OwnedRow, Due, LeaseFree, Status, Steps, InFlight

\* Every step of one process with any number of tasks keeps the invariant:
\* the claim is the only step that gives a document an owner, and it finds
\* the row of an owned one leased or out of the queue.
THEOREM IInvStep ==
    ASSUME OneProcess, TypeOK, IInv, [Next]_vars
    PROVE  IInv'
<1>1. ASSUME NEW d \in Docs, Upload(d) PROVE IInv'
  <2>1. ~Present(d) /\ \A s \in Slots : ~Owns(s, d)
    BY <1>1 DEF Upload, IInv, OwnerInv
  <2>2. Status(d)' = "queued" /\ \A e \in Docs : e # d => row'[e] = row[e]
    BY <1>1 DEF Upload, TypeOK, Status, NewRow, QueuedPayload
  <2>3. \A s \in Slots, e \in Docs : Owns(s, e)' <=> Owns(s, e)
    BY <1>1 DEF Upload, Owns
  <2>4. OwnerInv'
    BY <1>1, <2>1, <2>2, <2>3 DEF Upload, IInv, OwnerInv, OwnedRow, Present, Status
  <2> QED
    BY <1>1, <2>2, <2>3, <2>4
    DEF Upload, IInv, OneTaskPerDocument, FailedMeansExhausted, Present, Status
<1>2. ASSUME NEW d \in Docs, Delete(d) PROVE IInv'
  <2>1. row'[d] = Null /\ \A e \in Docs : e # d => row'[e] = row[e]
    BY <1>2 DEF Delete, TypeOK
  <2> QED
    BY <1>2, <2>1, RowStep DEF Delete, Present, Status
<1>3. ASSUME NEW s \in Slots, Claim(s) PROVE IInv'
  <2>1. PICK d \in Oldest :
          /\ row' = [row EXCEPT ![d] = Claimed(row[d], LeaseTime)]
          /\ task' = [task EXCEPT ![s] =
                        [pc |-> "load", doc |-> d, snap |-> Claimed(row[d], LeaseTime),
                         outcome |-> Null, left |-> LeaseTime]]
    BY <1>3 DEF Claim
  <2>2. d \in Docs /\ Present(d) /\ Due(row[d]) /\ row[d] \in Row
    BY DEF Oldest, TypeOK, Present
  <2>3. \A t \in Slots : ~Owns(t, d)
    BY <2>2, DueUnowned
  <2>4. Status(d)' = "queued" /\ row'[d].claimed_until = LeaseTime
    BY <2>1, <2>2 DEF Claimed, Row, Status, Due, TypeOK
  <2>5. task'[s].pc = "load" /\ task'[s].doc = d /\ task'[s].left = LeaseTime
    BY <2>1 DEF TypeOK
  <2>6. \A t \in Slots : t # s => task'[t] = task[t]
    BY <2>1 DEF TypeOK
  <2>7. \A e \in Docs : e # d => row'[e] = row[e]
    BY <2>1 DEF TypeOK
  <2>8. OneTaskPerDocument'
    BY <2>3, <2>5, <2>6 DEF IInv, OneTaskPerDocument, Owns
  <2>9. OwnerInv'
    <3> SUFFICES ASSUME NEW t \in Slots, NEW e \in Docs, Owns(t, e)'
                 PROVE  up'[t[1]] /\ e \in known' /\ OwnedRow(t, e)'
      BY DEF OwnerInv
    <3>1. CASE t = s
      BY <1>3, <2>2, <2>4, <2>5, <3>1 DEF Claim, IInv, OwnedRow, Owns, InFlight, Present
    <3>2. CASE t # s
      <4>1. Owns(t, e) /\ e # d
        BY <2>3, <2>6, <3>2 DEF Owns
      <4> QED
        BY <1>3, <2>6, <2>7, <3>2, <4>1 DEF Claim, IInv, OwnerInv, OwnedRow, Present, Status
    <3> QED BY <3>1, <3>2
  <2> QED
    BY <1>3, <2>2, <2>4, <2>7, <2>8, <2>9 DEF Claim, IInv, FailedMeansExhausted, Present, Status
<1>4. ASSUME NEW s \in Slots, Loaded(s) PROVE IInv'
  <2>1. task[s].doc \in Docs /\ task[s].pc \in Steps
    BY <1>4, WorkingTask DEF Loaded, Steps
  <2>2. /\ task'[s].pc = "extracting" /\ task'[s].doc = task[s].doc
        /\ \A t \in Slots : t # s => task'[t] = task[t]
    BY <1>4, <2>1, ContinueFacts DEF Loaded
  <2>3. /\ Status(task[s].doc)' = "extracting"
        /\ \A d \in Docs : d # task[s].doc => row'[d] = row[d]
    BY <1>4, <2>1, <2>2, WriteFacts DEF Loaded, Status
  <2> QED
    BY <1>4, <2>2, <2>3, OwnStep DEF Loaded, OwnedRow, InFlight
<1>5. ASSUME NEW s \in Slots, LoadFailed(s) PROVE IInv'
  <2>1. task[s].doc \in Docs /\ task[s].pc \in Steps
    BY <1>5, WorkingTask DEF LoadFailed, Steps
  <2>2. /\ task'[s].pc = "settle" /\ task'[s].doc = task[s].doc
        /\ task'[s].outcome = "parser_failure"
        /\ \A t \in Slots : t # s => task'[t] = task[t]
    BY <1>5, <2>1, FinishFacts DEF LoadFailed
  <2>3. CASE ~Refused
    <3>1. /\ Status(task[s].doc)' = "parser_failure"
          /\ \A d \in Docs : d # task[s].doc => row'[d] = row[d]
      BY <1>5, <2>1, <2>2, <2>3
      DEF LoadFailed, Status, SetPayload, NewRow, Running, TypeOK, Row
    <3> QED
      BY <1>5, <2>2, <3>1, OwnStep DEF LoadFailed, OwnedRow, InFlight
  <2>4. CASE Refused
    <3>1. row' = row /\ task'[s].left = task[s].left
      <4>1. faults' # faults /\ row' = row
        BY <2>4 DEF Refused, TypeOK
      <4>2. Finish(s, "parser_failure", task[s].left)
        BY <1>5, <4>1 DEF LoadFailed
      <4> QED BY <2>1, <4>1, <4>2, FinishFacts
    <3>2. Present(task[s].doc) =>
            /\ Status(task[s].doc) \in {"queued", "extracting"}
            /\ row[task[s].doc].claimed_until = task[s].left
      BY <1>5, WorkingTask DEF LoadFailed, IInv, OwnerInv, OwnedRow
    <3>3. OwnedRow(s, task[s].doc)'
      BY <2>2, <3>1, <3>2 DEF OwnedRow, InFlight, Present, Status
    <3> QED
      BY <1>5, <2>2, <3>1, <3>2, <3>3, OwnStep DEF LoadFailed, Present, Status
  <2> QED BY <2>3, <2>4
<1>6. ASSUME NEW s \in Slots, StageDone(s) PROVE IInv'
  <2>1. /\ task[s].doc \in Docs /\ task[s].pc \in Steps
        /\ NextStage[task[s].pc] \in InFlight
    BY <1>6, WorkingTask DEF StageDone, NextStage, Steps, InFlight
  <2>2. /\ task'[s].pc = NextStage[task[s].pc] /\ task'[s].doc = task[s].doc
        /\ \A t \in Slots : t # s => task'[t] = task[t]
    BY <1>6, <2>1, ContinueFacts DEF StageDone
  <2>3. /\ Status(task[s].doc)' = NextStage[task[s].pc]
        /\ \A d \in Docs : d # task[s].doc => row'[d] = row[d]
    BY <1>6, <2>1, <2>2, WriteFacts DEF StageDone, Status
  <2> QED
    BY <1>6, <2>1, <2>2, <2>3, OwnStep DEF StageDone, OwnedRow, InFlight, NextStage
<1>7. ASSUME NEW s \in Slots, Complete(s) PROVE IInv'
  <2>1. task[s].pc \in InFlight /\ \E status \in Success : Ended(s, status)
    BY <1>7, EndEnded DEF Complete, InFlight
  <2> QED BY <2>1, EndKeepsIInv DEF Success
<1>8. ASSUME NEW s \in Slots, Reject(s) PROVE IInv'
  BY <1>8, EndEnded, EndKeepsIInv DEF Reject, Rejected, InFlight
<1>9. ASSUME NEW s \in Slots, ParseFail(s) PROVE IInv'
  BY <1>9, EndEnded, EndKeepsIInv DEF ParseFail
<1>10. ASSUME NEW s \in Slots, Timeout(s) PROVE IInv'
  BY <1>10, EndEnded, EndKeepsIInv DEF Timeout
<1>11. ASSUME NEW s \in Slots, RowGone(s) PROVE IInv'
  <2>1. PICK outcome : Finish(s, outcome, 0)
    BY <1>11 DEF RowGone
  <2>2. task[s].pc \in Steps /\ task[s].pc # "idle"
    BY <1>11 DEF RowGone, Steps
  <2>3. /\ task'[s].pc = "settle" /\ task'[s].doc = task[s].doc
        /\ \A t \in Slots : t # s => task'[t] = task[t]
    BY <2>1, <2>2, FinishFacts
  <2> QED
    BY <1>11, <2>2, <2>3, OwnStep DEF RowGone, OwnedRow, Present
<1>14. ASSUME NEW p \in Procs, NEW d \in Docs, LateReport(p, d) PROVE IInv'
  <2>1. /\ Status(d)' = "extracting" /\ row'[d].claimed_until = row[d].claimed_until
        /\ \A e \in Docs : e # d => row'[e] = row[e]
    BY <1>14, WriteFacts DEF LateReport
  <2> QED
    BY <1>14, <2>1, RowStep DEF LateReport, Present, Status
<1>15. ASSUME NEW p \in Procs, NEW d \in Docs, ThreadEnds(p, d) PROVE IInv'
  BY <1>15, RowStep DEF ThreadEnds, Present, Status
<1>18. ASSUME NEW p \in Procs, ExpireStaleLeases(p) PROVE IInv'
  <2> SUFFICES ASSUME NEW d \in Docs, Present(d)'
               PROVE  /\ Present(d)
                      /\ Status(d)' = Status(d) /\ row'[d].attempts = row[d].attempts
                      /\ \A s \in Slots : Owns(s, d) /\ OnLease(s) =>
                           row'[d].claimed_until = row[d].claimed_until
    BY <1>18, RowStep DEF ExpireStaleLeases
  <2>1. Present(d)
    BY <1>18 DEF ExpireStaleLeases, Present
  <2>2. row[d] \in Row
    BY <2>1 DEF TypeOK, Present
  <2>3. \A s \in Slots : Owns(s, d) /\ OnLease(s) => ~LeaseLapsed(row[d])
    BY <2>1, WorkingTask DEF IInv, OwnerInv, OwnedRow, OnLease, LeaseLapsed, Owns
  <2>4. row'[d] = IF LeaseLapsed(row[d]) THEN Claimed(row[d], Null) ELSE row[d]
    BY <1>18, <2>1 DEF ExpireStaleLeases
  <2> QED
    BY <2>1, <2>2, <2>3, <2>4 DEF Claimed, Status, Row
<1>12. ASSUME NEW s \in Slots, Settle(s) PROVE IInv'
  <2> PICK dd : dd = task[s].doc
    OBVIOUS
  <2>1. /\ dd \in Docs /\ Owns(s, dd) /\ task[s].snap \in Row
        /\ task[s].outcome \in Outcomes
    BY <1>12, WorkingTask DEF Settle
  <2>2. task'[s].pc = "idle" /\ \A t \in Slots : t # s => task'[t] = task[t]
    BY <1>12 DEF Settle, TypeOK, IdleTask
  <2>3. \A t \in Slots : ~Owns(t, dd)'
    BY <2>1, <2>2 DEF IInv, OneTaskPerDocument, Owns
  <2>4. \A t \in Slots, d \in Docs : Owns(t, d)' => Owns(t, d) /\ t # s
    BY <2>2 DEF Owns
  <2>5. \A d \in Docs : d # dd => row'[d] = row[d]
    BY <1>12 DEF Settle, Refused, TypeOK
  <2>6. Present(dd)' => Present(dd)
    BY <1>12 DEF Settle, Refused, Present
  <2>7. Status(dd)' = "failed" /\ Present(dd) => row'[dd].attempts >= MaxAttempts
    <3> SUFFICES ASSUME Present(dd), row'[dd].payload.status = "failed"
                 PROVE  row'[dd].attempts >= MaxAttempts
      BY DEF Status
    <3>1. row[dd] \in Row /\ row'[dd] \in {row[dd], Settled(row[dd], task[s])}
      BY <1>12, <2>1 DEF Settle, Refused, TypeOK, Present
    <3>2. row[dd].payload.status # "failed"
      BY <2>1, <1>12
      DEF IInv, OwnerInv, OwnedRow, Settle, Outcomes, Success, Rejected, Retryable, InFlight,
          Status
    <3>6. CASE row'[dd] = row[dd]
      BY <3>2, <3>6
    <3>3. CASE row'[dd] = Released(row[dd], task[s].snap)
      <4>1. row'[dd].payload = row[dd].payload
        BY <2>1, <3>1, <3>3 DEF Released, Flush, Row
      <4> QED BY <3>2, <4>1
    <3>4. CASE row'[dd] = RetryScheduled(row[dd], task[s].snap)
      <4>1. row'[dd].payload \in {row[dd].payload, QueuedPayload}
        BY <2>1, <3>1, <3>4 DEF RetryScheduled, Flush, Row
      <4> QED BY <3>2, <4>1 DEF QueuedPayload
    <3>5. CASE /\ row'[dd] = MarkedFailed(row[dd], task[s].snap)
               /\ ~(task[s].snap.attempts + 1 < MaxAttempts)
      <4>1. row'[dd].attempts = task[s].snap.attempts + 1
        BY <2>1, <3>1, <3>5 DEF MarkedFailed, Flush, Row
      <4> QED BY <2>1, <3>5, <4>1 DEF Row
    <3> QED
      BY <3>1, <3>3, <3>4, <3>5, <3>6 DEF Settled
  <2>8. OwnerInv'
    BY <1>12, <2>1, <2>2, <2>3, <2>4, <2>5
    DEF Settle, IInv, OwnerInv, OwnedRow, Present, Status
  <2>9. OneTaskPerDocument'
    BY <2>4 DEF IInv, OneTaskPerDocument
  <2>10. FailedMeansExhausted'
    <3> SUFFICES ASSUME NEW d \in Docs, Present(d)', Status(d)' = "failed"
                 PROVE  row'[d].attempts >= MaxAttempts
      BY DEF FailedMeansExhausted
    <3>1. CASE d = dd
      BY <2>6, <2>7, <3>1
    <3>2. CASE d # dd
      BY <2>5, <3>2 DEF IInv, FailedMeansExhausted, Present, Status
    <3> QED BY <3>1, <3>2
  <2> QED
    BY <1>12, <2>5, <2>6, <2>8, <2>9, <2>10 DEF Settle, IInv, Present
<1>16. ASSUME NEW p \in Procs, Kill(p) PROVE IInv'
  <2>1. \A t \in Slots : t[1] = p
    BY DEF Slots, OneProcess
  <2>2. \A t \in Slots : task'[t].pc = "idle"
    BY <1>16, <2>1 DEF Kill, IdleTask
  <2> QED
    BY <1>16, <2>2
    DEF Kill, IInv, OwnerInv, OneTaskPerDocument, FailedMeansExhausted, Owns, Present, Status
<1>17. ASSUME NEW p \in Procs, Start(p) PROVE IInv'
  <2>1. \A t \in Slots, d \in Docs : ~Owns(t, d)
    <3> SUFFICES ASSUME NEW t \in Slots, NEW d \in Docs, Owns(t, d) PROVE FALSE
      OBVIOUS
    <3>1. t[1] = p /\ up[t[1]]
      BY DEF Slots, OneProcess, IInv, OwnerInv
    <3> QED BY <1>17, <3>1 DEF Start
  <2>2. \A t \in Slots, d \in Docs : ~Owns(t, d)'
    BY <1>17, <2>1 DEF Start, Owns
  <2>3. \A d \in Docs : Present(d)' => Present(d)
    BY <1>17 DEF Start, Present, Oldest
  <2>4. FailedMeansExhausted'
    <3> SUFFICES ASSUME NEW d \in Docs, Present(d), Status(d)' = "failed"
                 PROVE  row'[d].attempts >= MaxAttempts
      BY <2>3 DEF FailedMeansExhausted
    <3>1. row[d] \in Row
      BY DEF TypeOK, Present
    <3>2. row'[d] \in {row[d], Claimed(row[d], SchemaLease), Recovered(row[d])}
      BY <1>17 DEF Start
    <3>3. Recovered(row[d]).payload.status # "failed"
      BY DEF Recovered, RecoveredPayload
    <3>4. /\ Claimed(row[d], SchemaLease).payload = row[d].payload
          /\ Claimed(row[d], SchemaLease).attempts = row[d].attempts
      BY <3>1 DEF Claimed, Row
    <3>5. Status(d) = "failed" /\ row'[d].attempts = row[d].attempts
      BY <3>2, <3>3, <3>4 DEF Status
    <3> QED BY <3>5 DEF IInv, FailedMeansExhausted
  <2> QED
    BY <1>17, <2>2, <2>3, <2>4 DEF Start, IInv, OwnerInv, OneTaskPerDocument
<1>19. CASE Tick
  <2>1. \A t \in Slots :
          /\ task'[t].pc = task[t].pc /\ task'[t].doc = task[t].doc
          /\ task'[t].outcome = task[t].outcome
          /\ task'[t].left = IF task[t].left > 0 THEN task[t].left - 1 ELSE 0
    <3>1. \A x \in TaskState :
            LET y == [x EXCEPT !.left = IF @ > 0 THEN @ - 1 ELSE 0] IN
            /\ y.pc = x.pc /\ y.doc = x.doc /\ y.outcome = x.outcome
            /\ y.left = IF x.left > 0 THEN x.left - 1 ELSE 0
      BY DEF TaskState, IdleTask
    <3> QED BY <1>19, <3>1 DEF Tick, TypeOK
  <2>2. \A t \in Slots, d \in Docs : Owns(t, d)' <=> Owns(t, d)
    BY <2>1 DEF Owns
  <2>3. \A d \in Docs : Present(d)' => /\ Present(d) /\ row[d] \in Row
                                       /\ row'[d] = ElapseRow(row[d])
    BY <1>19 DEF Tick, Present, TypeOK
  <2>4. \A d \in Docs : Present(d)' =>
          /\ Status(d)' = Status(d) /\ row'[d].attempts = row[d].attempts
          /\ row'[d].claimed_until = Elapse(row[d].claimed_until, Lapsed)
    BY <2>3, ZenonT(30) DEF ElapseRow, Row, Status
  <2>5. OwnerInv'
    <3> SUFFICES ASSUME NEW t \in Slots, NEW d \in Docs, Owns(t, d)
                 PROVE  up'[t[1]] /\ d \in known' /\ OwnedRow(t, d)'
      BY <2>2 DEF OwnerInv
    <3>1. up'[t[1]] /\ d \in known' /\ OwnedRow(t, d)
      BY <1>19 DEF Tick, IInv, OwnerInv
    <3> SUFFICES ASSUME Present(d)' PROVE OwnedRow(t, d)'
      BY <3>1 DEF OwnedRow
    <3>2. OnLease(t) => row'[d].claimed_until = task'[t].left
      <4> SUFFICES ASSUME OnLease(t) PROVE row'[d].claimed_until = task'[t].left
        OBVIOUS
      <4>1. task[t].left \in Nat /\ task[t].left > 0
        BY <1>19, WorkingTask DEF Tick, OnLease
      <4>2. row[d].claimed_until = task[t].left
        BY <2>3, <3>1 DEF OwnedRow, OnLease, Owns
      <4> QED BY <2>1, <2>4, <4>1, <4>2 DEF Elapse, Lapsed
    <3>3. task[t].pc = "load" => OnLease(t)
      BY DEF OnLease
    <3>4. task[t].pc = "settle" /\ Status(d) = "queued" => OnLease(t)
      BY <2>3 DEF OnLease, Owns
    <3> QED BY <2>1, <2>3, <2>4, <3>1, <3>2, <3>3, <3>4 DEF OwnedRow
  <2> QED
    BY <1>19, <2>2, <2>3, <2>4, <2>5 DEF Tick, IInv, OneTaskPerDocument, FailedMeansExhausted
<1>20. CASE UNCHANGED vars
  BY <1>20, RowStep DEF vars, Present, Status
<1> QED
  BY <1>1, <1>2, <1>3, <1>4, <1>5, <1>6, <1>7, <1>8, <1>9, <1>10, <1>11, <1>12,
     <1>14, <1>15, <1>16, <1>17, <1>18, <1>19, <1>20 DEF Next

LEMMA InitIInv == Init => IInv
  BY DEF Init, IInv, OwnerInv, OneTaskPerDocument, FailedMeansExhausted, Owns, Present, IdleTask

LEMMA IInvHolds == OneProcess => (Spec => []IInv)
<1> SUFFICES ASSUME OneProcess PROVE Spec => []IInv
  OBVIOUS
<1>1. Init => IInv
  BY InitIInv
<1>2. TypeOK /\ IInv /\ [Next]_vars => IInv'
  BY IInvStep
<1> QED
  BY <1>1, <1>2, TypeCorrect, PTL DEF Spec

-----------------------------------------------------------------------------
(* The theorems about one worker process *)

\* With one worker process no document is ever worked on by two tasks at
\* once, whatever leases, retries, deaths, recovery and late reports do.
THEOREM ExclusiveRuns == OneProcess => (Spec => []OneTaskPerDocument)
<1> SUFFICES ASSUME OneProcess PROVE Spec => []OneTaskPerDocument
  OBVIOUS
<1>1. IInv => OneTaskPerDocument
  BY DEF IInv
<1> QED
  BY <1>1, IInvHolds, PTL

\* With one worker process a document is "failed" only with its attempts
\* used up.
THEOREM FailedOnlyExhausted == OneProcess => (Spec => []FailedMeansExhausted)
<1> SUFFICES ASSUME OneProcess PROVE Spec => []FailedMeansExhausted
  OBVIOUS
<1>1. IInv => FailedMeansExhausted
  BY DEF IInv
<1> QED
  BY <1>1, IInvHolds, PTL

\* No step but a late report touches the status of a document that is ready:
\* no task that is still to write owns it, and a task that settles it found it
\* successful and only releases it.
LEMMA SuccessStep ==
    ASSUME TypeOK, IInv, [Next]_vars, NEW d \in Docs, Present(d), Status(d) \in Success,
           row'[d] # Null, ~(\E p \in Procs : LateReport(p, d))
    PROVE  row'[d].payload = row[d].payload
<1>1. row[d] \in Row /\ Status(d) \notin InFlight \union Retryable \union {"queued"}
  BY DEF TypeOK, Present, Success, InFlight, Retryable
<1>2. ASSUME NEW s \in Slots, task[s].pc \in Steps PROVE task[s].doc # d
  BY <1>1, <1>2, WorkingTask DEF IInv, OwnerInv, OwnedRow, Steps, InFlight
<1>3. ASSUME NEW s \in Slots, task[s].pc \in Steps, NEW status, Ended(s, status)
      PROVE  row'[d] = row[d]
  BY <1>2, <1>3 DEF Ended, Write, TypeOK
<1>4. ASSUME NEW e \in Docs, Upload(e) \/ Delete(e) PROVE row'[d] = row[d]
  BY <1>4 DEF Upload, Delete, TypeOK, IInv
<1>5. ASSUME NEW s \in Slots, Claim(s) PROVE row'[d] = row[d]
  <2>1. d \notin Oldest
    BY <1>1 DEF Oldest, Due, Status
  <2> QED BY <1>5, <2>1 DEF Claim, TypeOK
<1>6. ASSUME NEW s \in Slots, Loaded(s) \/ LoadFailed(s) \/ StageDone(s) PROVE row'[d] = row[d]
  <2>1. task[s].pc \in Steps
    BY <1>6 DEF Loaded, LoadFailed, StageDone, NextStage, Steps, InFlight
  <2> QED BY <1>2, <1>6, <2>1 DEF Loaded, LoadFailed, Refused, StageDone, Write, TypeOK
<1>7. ASSUME NEW s \in Slots,
             Complete(s) \/ Reject(s) \/ ParseFail(s) \/ Timeout(s) \/ RowGone(s)
      PROVE  row'[d] = row[d]
  <2>1. CASE RowGone(s)
    BY <2>1 DEF RowGone
  <2>2. CASE ~RowGone(s)
    <3>1. task[s].pc \in Steps
      BY <1>7, <2>2 DEF Complete, Reject, ParseFail, Timeout, Steps, InFlight
    <3>2. \E status : Ended(s, status)
      BY <1>7, <2>2, EndEnded DEF Reject, ParseFail, Timeout
    <3> QED BY <1>3, <3>1, <3>2
  <2> QED BY <2>1, <2>2
<1>8. ASSUME NEW s \in Slots, Settle(s) PROVE row'[d].payload = row[d].payload
  <2>1. CASE task[s].doc # d \/ Refused
    BY <1>8, <2>1 DEF Settle, Refused, TypeOK
  <2>2. CASE task[s].doc = d /\ ~Refused
    <3>1. task[s].snap \in Row /\ task[s].outcome = Status(d)
      BY <1>1, <1>8, <2>2, WorkingTask DEF Settle, IInv, OwnerInv, OwnedRow, InFlight
    <3>2. row'[d] = Settled(row[d], task[s])
      BY <1>8, <2>2 DEF Settle, TypeOK
    <3>3. Settled(row[d], task[s]) = Released(row[d], task[s].snap)
      BY <1>1, <3>1 DEF Settled
    <3>4. Released(row[d], task[s].snap).payload = row[d].payload
      BY <1>1, <3>1 DEF Released, Flush, Row
    <3> QED BY <3>2, <3>3, <3>4
  <2> QED BY <2>1, <2>2
<1>9. ASSUME NEW p \in Procs, NEW e \in Docs, LateReport(p, e) \/ ThreadEnds(p, e)
      PROVE  row'[d] = row[d]
  BY <1>9 DEF LateReport, ThreadEnds, Write, TypeOK
<1>10. ASSUME NEW p \in Procs, Start(p) PROVE row'[d] = row[d]
  BY <1>1, <1>10 DEF Start, Oldest, Due, Stale, Status
<1>11. ASSUME NEW p \in Procs, Kill(p) \/ ExpireStaleLeases(p)
       PROVE  row'[d].payload = row[d].payload
  BY <1>1, <1>11 DEF Kill, ExpireStaleLeases, Claimed, Row
<1>12. CASE Tick
  BY <1>1, <1>12 DEF Tick, ElapseRow, Present, Row
<1>13. CASE UNCHANGED vars
  BY <1>13 DEF vars
<1> QED
  BY <1>4, <1>5, <1>6, <1>7, <1>8, <1>9, <1>10, <1>11, <1>12, <1>13 DEF Next

\* With one worker process a document that is ready or partial keeps its
\* status until it is deleted, late reports of abandoned threads aside.
THEOREM SuccessKept == OneProcess => (Spec => SuccessIsFinal)
<1> SUFFICES ASSUME OneProcess PROVE Spec => SuccessIsFinal
  OBVIOUS
<1> DEFINE Kept == \A d \in Docs :
             Present(d) /\ Status(d) \in Success /\ row'[d] # Null
               /\ ~(\E p \in Procs : LateReport(p, d))
             => row'[d].payload = row[d].payload
<1>1. TypeOK /\ IInv /\ [Next]_vars => [Kept]_vars
  BY SuccessStep
<1>2. SuccessIsFinal <=> [][Kept]_vars
  BY DEF SuccessIsFinal
<1> HIDE DEF Kept
<1> QED
  BY <1>1, <1>2, TypeCorrect, IInvHolds, PTL DEF Spec

-----------------------------------------------------------------------------
(* Stranded documents, with any number of worker processes *)

\* A document that no step has written, and that every task which processed
\* it still processes, was stranded before if it is after.
LEMMA StrandedBefore ==
    ASSUME NEW d \in Docs, Stranded(d)',
           Present(d), row'[d].payload.status = row[d].payload.status,
           \A t \in Slots : task[t].pc \in Steps /\ task[t].doc = d
                              => task'[t].pc \in Steps /\ task'[t].doc = d
    PROVE  Stranded(d)
  BY DEF Stranded, Status

\* The end of a run strands no document if it writes the last status, which
\* is not in flight.
LEMMA EndStrandsNothing ==
    ASSUME TypeOK, NEW s \in Slots, task[s].pc \in InFlight,
           NEW status, status \notin InFlight, Ended(s, status),
           NEW d \in Docs, Stranded(d)',
           task[s].doc = d /\ Present(d) => Write(d, Running(status))
    PROVE  Stranded(d)
<1>1. task[s].pc \in Steps /\ task[s].pc # "idle" /\ task[s].doc \in Docs
  BY WorkingTask DEF Steps, InFlight
<1>2. \A t \in Slots : t # s => task'[t] = task[t]
  BY <1>1, FinishFacts DEF Ended
<1>3. CASE task[s].doc = d
  <2>1. CASE Present(d)
    BY <1>1, <1>3, <2>1, WriteFacts DEF Stranded
  <2>2. CASE ~Present(d)
    BY <1>3, <2>2 DEF Ended, Stranded, Present
  <2> QED BY <2>1, <2>2
<1>4. CASE task[s].doc # d
  <2>1. row'[d] = row[d]
    BY <1>1, <1>4 DEF Ended, Write, TypeOK
  <2>2. Present(d)
    BY <2>1 DEF Stranded, Present
  <2> QED BY <1>2, <1>4, <2>1, <2>2, StrandedBefore
<1> QED BY <1>3, <1>4

\* The run of a task that goes on with another status strands no document:
\* the task still processes the one it writes.
LEMMA GoingOnStrandsNothing ==
    ASSUME TypeOK, NEW s \in Slots, task[s].pc \in Steps, Present(task[s].doc),
           NEW status \in InFlight, NEW left,
           Write(task[s].doc, Running(status)), Continue(s, status, left),
           NEW d \in Docs, Stranded(d)'
    PROVE  Stranded(d)
<1>1. task[s].doc \in Docs
  BY WorkingTask DEF Steps, InFlight
<1>2. /\ task'[s].pc \in Steps /\ task'[s].doc = task[s].doc
      /\ \A t \in Slots : t # s => task'[t] = task[t]
  BY ContinueFacts DEF Steps
<1>3. task[s].doc # d
  BY <1>2 DEF Stranded
<1>4. row'[d] = row[d]
  BY <1>1, <1>3, WriteFacts
<1>5. Present(d)
  BY <1>4 DEF Stranded, Present
<1> QED
  BY <1>2, <1>4, <1>5, StrandedBefore

\* What settling a run leaves as the status of its row.
LEMMA SettledStatus ==
    ASSUME NEW r \in Row, NEW t, t.snap \in Row
    PROVE  Settled(r, t).payload.status \in {r.payload.status, "queued", "failed"}
<1>1. Released(r, t.snap).payload = r.payload
  BY DEF Released, Flush, Row
<1>2. RetryScheduled(r, t.snap).payload \in {r.payload, QueuedPayload}
  BY DEF RetryScheduled, Flush, Row
<1>3. MarkedFailed(r, t.snap).payload \in {r.payload, [status |-> "failed", stage |-> "other"]}
  BY DEF MarkedFailed, Flush, Row
<1> QED
  BY <1>1, <1>2, <1>3 DEF Settled, QueuedPayload

LEMMA StrandedStep ==
    ASSUME TypeOK, [Next]_vars, NEW d \in Docs, Stranded(d)',
           ~(\E p \in Procs : Kill(p) \/ LateReport(p, d)),
           ~(Refused /\ \E s \in Slots : Owns(s, d) /\ task'[s].pc = "settle")
    PROVE  Stranded(d)
<1>1. Status(d)' \in InFlight /\ row'[d] # Null
  BY DEF Stranded, Present
<1>2. "queued" \notin InFlight /\ "failed" \notin InFlight
  BY DEF InFlight
<1>3. ASSUME NEW e \in Docs, Upload(e) \/ Delete(e) PROVE Stranded(d)
  <2>1. d # e
    BY <1>1, <1>2, <1>3 DEF Upload, Delete, NewRow, QueuedPayload, Status, TypeOK
  <2>2. row'[d] = row[d] /\ task' = task
    BY <1>3, <2>1 DEF Upload, Delete, TypeOK
  <2> QED BY <1>1, <2>2, StrandedBefore DEF Present
<1>4. ASSUME NEW s \in Slots, Claim(s) PROVE Stranded(d)
  <2>1. PICK e \in Oldest :
          /\ row' = [row EXCEPT ![e] = Claimed(row[e], LeaseTime)]
          /\ task' = [task EXCEPT ![s] = [pc |-> "load", doc |-> e,
                        snap |-> Claimed(row[e], LeaseTime), outcome |-> Null,
                        left |-> LeaseTime]]
    BY <1>4 DEF Claim
  <2>2. e # d
    BY <2>1 DEF Stranded, TypeOK, Steps
  <2>3. row'[d] = row[d]
    BY <2>1, <2>2 DEF TypeOK
  <2>4. task[s].pc = "idle" /\ \A t \in Slots : t # s => task'[t] = task[t]
    BY <1>4, <2>1 DEF Claim, TypeOK
  <2> QED BY <1>1, <2>3, <2>4, StrandedBefore DEF Present, Steps, InFlight
<1>5. ASSUME NEW s \in Slots, Loaded(s) PROVE Stranded(d)
  BY <1>5, GoingOnStrandsNothing DEF Loaded, Steps, InFlight
<1>6. ASSUME NEW s \in Slots, StageDone(s) PROVE Stranded(d)
  <2>1. task[s].pc \in Steps /\ NextStage[task[s].pc] \in InFlight
    BY <1>6 DEF StageDone, NextStage, Steps, InFlight
  <2> QED BY <1>6, <2>1, GoingOnStrandsNothing DEF StageDone
<1>7. ASSUME NEW s \in Slots, LoadFailed(s) PROVE Stranded(d)
  <2>1. /\ task[s].pc \in Steps /\ task[s].doc \in Docs
        /\ \A t \in Slots : t # s => task'[t] = task[t]
    BY <1>7, WorkingTask, FinishFacts DEF LoadFailed, Steps
  <2>2. task[s].doc # d
    <3> SUFFICES ASSUME task[s].doc = d PROVE FALSE
      OBVIOUS
    <3>1. row[d] # Null => row[d] \in Row
      BY DEF TypeOK
    <3>2. Owns(s, d) /\ task'[s].pc = "settle"
      BY <1>7, <2>1, FinishFacts DEF LoadFailed, Owns
    <3>3. Status(d)' = "parser_failure"
      BY <1>7, <3>1, <3>2 DEF LoadFailed, NewRow, SetPayload, Running, Status, TypeOK, Row
    <3> QED BY <1>1, <3>3 DEF InFlight
  <2>3. row'[d] = row[d]
    BY <1>7, <2>1, <2>2 DEF LoadFailed, Refused, TypeOK
  <2> QED BY <1>1, <2>1, <2>2, <2>3, StrandedBefore DEF Present
<1>8. ASSUME NEW s \in Slots, Complete(s) \/ Reject(s) \/ ParseFail(s) \/ Timeout(s)
      PROVE  Stranded(d)
  <2>1. PICK status \in Statuses \ InFlight :
          /\ Ended(s, status)
          /\ Present(task[s].doc) => Write(task[s].doc, Running(status)) \/ Refused
    BY <1>8, EndEnded
    DEF Ended, End, Complete, Reject, ParseFail, Timeout, Statuses, InFlight, Success, Rejected,
        Retryable
  <2>2. task[s].pc \in InFlight /\ task[s].pc # "idle" /\ task[s].pc \in Steps
    BY <1>8 DEF Complete, Reject, ParseFail, Timeout, InFlight, Steps
  <2>3. task'[s].pc = "settle"
    BY <2>1, <2>2, FinishFacts DEF Ended
  <2>4. task[s].doc = d /\ Present(d) => Write(d, Running(status))
    BY <2>1, <2>2, <2>3 DEF Owns
  <2> QED BY <2>1, <2>2, <2>4, EndStrandsNothing
<1>9. ASSUME NEW s \in Slots, RowGone(s) PROVE Stranded(d)
  <2>1. /\ task[s].pc \in Steps
        /\ \A t \in Slots : t # s => task'[t] = task[t]
    BY <1>9, FinishFacts DEF RowGone, Steps
  <2>2. row' = row /\ task[s].doc # d
    BY <1>1, <1>9 DEF RowGone, Present
  <2> QED BY <1>1, <2>1, <2>2, StrandedBefore DEF Present
<1>10. ASSUME NEW s \in Slots, Settle(s) PROVE Stranded(d)
  <2>1. task[s].pc \notin Steps /\ task[s].snap \in Row /\ task[s].doc \in Docs
    BY <1>10, WorkingTask DEF Settle, Steps, InFlight
  <2>2. \A t \in Slots : t # s => task'[t] = task[t]
    BY <1>10 DEF Settle, TypeOK
  <2>3. Present(d) /\ row'[d].payload.status = row[d].payload.status
    <3>1. CASE task[s].doc = d /\ Present(d)
      <4>1. row'[d] \in {row[d], Settled(row[d], task[s])} /\ row[d] \in Row
        BY <1>10, <3>1 DEF Settle, Refused, TypeOK, Present
      <4>2. row'[d].payload.status \in {row[d].payload.status, "queued", "failed"}
        BY <2>1, <4>1, SettledStatus
      <4> QED BY <1>1, <1>2, <3>1, <4>2 DEF Status
    <3>2. CASE ~(task[s].doc = d /\ Present(d))
      BY <1>1, <1>10, <2>1, <3>2 DEF Settle, Refused, TypeOK, Present
    <3> QED BY <3>1, <3>2
  <2> QED BY <2>1, <2>2, <2>3, StrandedBefore
<1>11. ASSUME NEW p \in Procs, NEW e \in Docs, LateReport(p, e) \/ ThreadEnds(p, e)
       PROVE  Stranded(d)
  <2>1. row'[d] = row[d] /\ task' = task
    BY <1>11 DEF LateReport, ThreadEnds, Write, TypeOK
  <2> QED BY <1>1, <2>1, StrandedBefore DEF Present
<1>12. ASSUME NEW p \in Procs, Start(p) PROVE Stranded(d)
  <2>1. PICK claimed \in IF Oldest = {} THEN {{}} ELSE {{e} : e \in Oldest} :
          row' = [e \in Docs |->
                    IF e \in claimed THEN Claimed(row[e], SchemaLease)
                    ELSE IF e \in {f \in Docs : Present(f) /\ Stale(row[f])}
                           THEN Recovered(row[e])
                    ELSE row[e]]
    BY <1>12 DEF Start
  <2>2. claimed \subseteq Oldest
    BY <2>1
  <2>3. CASE d \in claimed
    <3>1. row[d] \in Row /\ row'[d] = Claimed(row[d], SchemaLease) /\ Status(d) = "queued"
      BY <2>1, <2>2, <2>3 DEF Oldest, Due, Status, Present, TypeOK
    <3>2. row'[d].payload = row[d].payload
      BY <3>1 DEF Claimed, Row
    <3> QED BY <1>1, <1>2, <3>1, <3>2 DEF Status
  <2>4. CASE d \notin claimed /\ Present(d) /\ Stale(row[d])
    <3>1. row'[d] = Recovered(row[d])
      BY <2>1, <2>4
    <3>2. Recovered(row[d]).payload = RecoveredPayload
      BY DEF Recovered
    <3>3. RecoveredPayload.status = "queued"
      BY DEF RecoveredPayload
    <3> QED BY <1>1, <1>2, <3>1, <3>2, <3>3 DEF Status
  <2>5. CASE d \notin claimed /\ ~(Present(d) /\ Stale(row[d]))
    <3>1. row'[d] = row[d] /\ task' = task
      BY <1>12, <2>1, <2>5 DEF Start
    <3> QED BY <1>1, <3>1, StrandedBefore DEF Present
  <2> QED BY <2>3, <2>4, <2>5
<1>13. ASSUME NEW p \in Procs, ExpireStaleLeases(p) PROVE Stranded(d)
  <2>1. Present(d) /\ row'[d].payload = row[d].payload /\ task' = task
    BY <1>1, <1>13 DEF ExpireStaleLeases, Claimed, Present, Row, TypeOK
  <2> QED BY <2>1, StrandedBefore
<1>14. CASE Tick
  <2>1. Present(d) /\ row'[d].payload = row[d].payload
    BY <1>1, <1>14 DEF Tick, ElapseRow, Present, Row, TypeOK
  <2>2. ASSUME NEW t \in Slots, task[t].pc \in Steps
        PROVE  task'[t].pc = task[t].pc /\ task'[t].doc = task[t].doc
    <3>1. task[t] \in [pc : Steps, doc : Docs, snap : Row, outcome : {Null}, left : Nat]
      BY <2>2, ProcessingTask DEF TypeOK
    <3> QED BY <1>14, <3>1 DEF Tick
  <2> QED BY <2>1, <2>2, StrandedBefore
<1>15. CASE UNCHANGED vars
  <2>1. row' = row /\ task' = task
    BY <1>15 DEF vars
  <2> QED BY <1>1, <2>1, StrandedBefore DEF Present
<1>16. ASSUME NEW p \in Procs, Kill(p) PROVE Stranded(d)
  BY <1>16
<1> QED
  BY <1>3, <1>4, <1>5, <1>6, <1>7, <1>8, <1>9, <1>10, <1>11, <1>12, <1>13, <1>14, <1>15, <1>16
  DEF Next

\* Whatever the number of worker processes, their tasks and the interleaving
\* of claims, retries, recovery and deletion, a document is left in flight
\* without a task only by the death of a process, the late report of a thread
\* that a timeout abandoned, or the refusal of the write that ends its run.
THEOREM StrandedByFault == Spec => StrandedOnlyByFaultOrLateReport
<1> DEFINE Kept == \A d \in Docs :
             ~Stranded(d) /\ Stranded(d)' =>
               \/ \E p \in Procs : Kill(p) \/ LateReport(p, d)
               \/ Refused /\ \E s \in Slots : Owns(s, d) /\ task'[s].pc = "settle"
<1>1. TypeOK /\ [Next]_vars => [Kept]_vars
  BY StrandedStep
<1>2. StrandedOnlyByFaultOrLateReport <=> [][Kept]_vars
  BY DEF StrandedOnlyByFaultOrLateReport
<1> HIDE DEF Kept
<1> QED
  BY <1>1, <1>2, TypeCorrect, PTL DEF Spec

-----------------------------------------------------------------------------
(* The queue implements DocumentLifecycle                                   *)

PhaseMap == [d \in Docs |-> PhaseOf(d)]
Held == {h \in Slots \X Docs : Owns(h[1], h[2])}
Threads == {d \in Docs : \E p \in Procs : <<p, d>> \in orphan}

-----------------------------------------------------------------------------
(* Steps of the lifecycle, in terms of phases and owners *)

SameOwners == \A s \in Slots, d \in Docs : Owns(s, d)' <=> Owns(s, d)
OtherPhases(d) == \A e \in Docs : e # d => PhaseOf(e)' = PhaseOf(e)

LEMMA HeldIff == \A s \in Slots, d \in Docs : <<s, d>> \in Held <=> Owns(s, d)
  BY DEF Held

LEMMA SameHeld == ASSUME SameOwners PROVE Held' = Held
  BY DEF SameOwners, Held

LEMMA SameThreads == ASSUME orphan' = orphan PROVE Threads' = Threads
  BY DEF Threads

LEMMA SamePhases ==
    ASSUME \A d \in Docs : PhaseOf(d)' = PhaseOf(d) PROVE PhaseMap' = PhaseMap
  BY DEF PhaseMap

LEMMA PhaseBecomes ==
    ASSUME NEW d \in Docs, OtherPhases(d)
    PROVE  PhaseMap' = [PhaseMap EXCEPT ![d] = PhaseOf(d)']
  BY DEF OtherPhases, PhaseMap

LEMMA StutterStep ==
    ASSUME SameOwners, orphan' = orphan, \A d \in Docs : PhaseOf(d)' = PhaseOf(d)
    PROVE  UNCHANGED Promise!lifecycle
  BY SameHeld, SameThreads, SamePhases DEF Promise!lifecycle, Held, Threads, PhaseMap

LEMMA UploadStep ==
    ASSUME NEW d \in Docs, SameOwners, orphan' = orphan, OtherPhases(d),
           PhaseOf(d) = "new", PhaseOf(d)' = "waiting", \A s \in Slots : ~Owns(s, d)
    PROVE  Promise!Upload(d)
<1>1. Promise!Free(d)
  BY HeldIff DEF Promise!Free, Held
<1> QED
  BY <1>1, SameHeld, SameThreads, PhaseBecomes
  DEF Promise!Upload, Promise!Becomes, Held, Threads, PhaseMap

LEMMA DeleteStep ==
    ASSUME NEW d \in Docs, SameOwners, orphan' = orphan, OtherPhases(d),
           PhaseOf(d) \notin {"new", "deleted"}, PhaseOf(d)' = "deleted"
    PROVE  Promise!Delete(d)
  BY SameHeld, SameThreads, PhaseBecomes
  DEF Promise!Delete, Promise!Becomes, Promise!Absent, Held, Threads, PhaseMap

LEMMA LateStep ==
    ASSUME NEW d \in Docs, SameOwners, orphan' = orphan, OtherPhases(d), d \in Threads,
           PhaseOf(d) \notin {"new", "deleted"}, PhaseOf(d)' = "working"
    PROVE  Promise!LateReport(d)
  BY SameHeld, SameThreads, PhaseBecomes
  DEF Promise!LateReport, Promise!Becomes, Promise!Absent, Held, Threads, PhaseMap

LEMMA WriteStep ==
    ASSUME NEW s \in Slots, NEW d \in Docs, Owns(s, d),
           SameOwners, orphan' = orphan, OtherPhases(d),
           \/ /\ PhaseOf(d) \in {"waiting", "working"}
              /\ PhaseOf(d)' \in {"working", "success", "rejected", "retryable"}
           \/ PhaseOf(d) = "deleted" /\ PhaseOf(d)' = "retryable"
    PROVE  Promise!Write(s, d)
<1>1. <<s, d>> \in Held
  BY HeldIff
<1> QED
  BY <1>1, SameHeld, SameThreads, PhaseBecomes
  DEF Promise!Write, Promise!Becomes, Promise!Ends, Held, Threads, PhaseMap

LEMMA AbandonStep ==
    ASSUME NEW s \in Slots, NEW d \in Docs, Owns(s, d),
           SameOwners, Threads' = Threads \union {d}, OtherPhases(d),
           \/ PhaseOf(d) = "working" /\ PhaseOf(d)' \in {"working", "retryable"}
           \/ PhaseOf(d) = "deleted" /\ PhaseOf(d)' = "deleted"
    PROVE  Promise!Abandon(s, d)
<1>1. <<s, d>> \in Held
  BY HeldIff
<1>2. PhaseOf(d)' = PhaseOf(d) => PhaseMap' = PhaseMap
  BY DEF OtherPhases, PhaseMap
<1> QED
  BY <1>1, <1>2, SameHeld, PhaseBecomes
  DEF Promise!Abandon, Promise!Becomes, Held, Threads, PhaseMap

LEMMA TakeStep ==
    ASSUME NEW s \in Slots, NEW d \in Docs, orphan' = orphan,
           \A e \in Docs : PhaseOf(e)' = PhaseOf(e), PhaseOf(d) = "waiting",
           \A t \in Slots : ~Owns(t, d), \A e \in Docs : ~Owns(s, e),
           \A t \in Slots, e \in Docs : Owns(t, e)' <=> Owns(t, e) \/ (t = s /\ e = d)
    PROVE  Promise!Take(s, d)
<1>1. Held' = Held \union {<<s, d>>}
  BY DEF Held
<1>2. Promise!Free(d) /\ Promise!Idle(s)
  BY HeldIff DEF Promise!Free, Promise!Idle, Held
<1> QED
  BY <1>1, <1>2, SameThreads, SamePhases DEF Promise!Take, Held, Threads, PhaseMap

LEMMA ReleaseStep ==
    ASSUME NEW s \in Slots, NEW d \in Docs, Owns(s, d), orphan' = orphan, OtherPhases(d),
           \A t \in Slots, e \in Docs : Owns(t, e)' <=> Owns(t, e) /\ ~(t = s /\ e = d),
           \/ PhaseOf(d)' = PhaseOf(d)
           \/ /\ PhaseOf(d) \in {"waiting", "working", "retryable"}
              /\ PhaseOf(d)' \in {"waiting", "failed"}
    PROVE  Promise!Release(s, d)
<1>1. <<s, d>> \in Held
  BY HeldIff
<1>2. Held' = Held \ {<<s, d>>}
  BY DEF Held
<1>3. PhaseOf(d)' = PhaseOf(d) => PhaseMap' = PhaseMap
  BY DEF OtherPhases, PhaseMap
<1> QED
  BY <1>1, <1>2, <1>3, SameThreads, PhaseBecomes
  DEF Promise!Release, Promise!Becomes, Held, Threads, PhaseMap

LEMMA RecoverStep ==
    ASSUME NEW D \in SUBSET Docs, SameOwners, orphan' = orphan,
           \A d \in D : PhaseOf(d) = "working" /\ \A s \in Slots : ~Owns(s, d),
           \A d \in Docs : PhaseOf(d)' = IF d \in D THEN "waiting" ELSE PhaseOf(d)
    PROVE  Promise!Recover
<1>1. \A d \in D : Promise!Free(d)
  BY HeldIff DEF Promise!Free, Held
<1>2. D \in SUBSET {d \in Docs : PhaseMap[d] = "working" /\ Promise!Free(d)}
  BY <1>1 DEF PhaseMap
<1>3. PhaseMap' = [d \in Docs |-> IF d \in D THEN "waiting" ELSE PhaseMap[d]]
  BY DEF PhaseMap
<1> QED
  BY <1>2, <1>3, SameHeld, SameThreads DEF Promise!Recover, Held, Threads, PhaseMap

LEMMA DieStep ==
    ASSUME NEW W \in SUBSET Slots, Held' = {h \in Held : h[1] \notin W},
           Threads' \subseteq Threads, \A d \in Docs : PhaseOf(d)' = PhaseOf(d)
    PROVE  Promise!Die
  BY SamePhases DEF Promise!Die, Held, Threads, PhaseMap

-----------------------------------------------------------------------------
(* Phases *)

\* Claims and recoveries leave a row, and what they make of its status.
LEMMA ClaimedFacts ==
    ASSUME NEW r \in Row, NEW lease \in Int \union {Null}
    PROVE  Claimed(r, lease) # Null /\ Claimed(r, lease).payload = r.payload
<1>1. Claimed(r, lease) \in Row
  BY RowTypes
<1>2. Claimed(r, lease).payload = r.payload
  BY DEF Claimed, Row
<1> QED BY <1>1, <1>2, NoRowAssumption

LEMMA RecoveredFacts ==
    ASSUME NEW r \in Row
    PROVE  Recovered(r) # Null /\ Recovered(r).payload.status = "queued"
<1>1. Recovered(r) \in Row
  BY RowTypes
<1>2. Recovered(r).payload.status = "queued"
  BY DEF Recovered, RecoveredPayload
<1> QED BY <1>1, <1>2, NoRowAssumption

LEMMA PhaseFacts ==
    /\ Phase("queued") = "waiting" /\ Phase("failed") = "failed"
    /\ \A status \in InFlight : Phase(status) = "working"
    /\ \A status \in Success : Phase(status) = "success"
    /\ \A status \in Rejected : Phase(status) = "rejected"
    /\ \A status \in Retryable : Phase(status) = "retryable"
    /\ \A status : Phase(status) \notin {"new", "deleted"}
  BY DEF Phase, InFlight, Success, Rejected, Retryable

LEMMA PhaseKept ==
    ASSUME NEW d \in Docs, d \in known' <=> d \in known, Present(d)' <=> Present(d),
           Present(d) => Status(d)' = Status(d)
    PROVE  PhaseOf(d)' = PhaseOf(d)
  BY DEF PhaseOf

LEMMA RowKept ==
    ASSUME NEW d \in Docs, known' = known, row'[d] = row[d]
    PROVE  PhaseOf(d)' = PhaseOf(d)
  BY PhaseKept DEF Present, Status

\* The steps of a run leave who owns what alone, and every other row.
LEMMA SameDoc ==
    ASSUME TypeOK, NEW s \in Slots, task[s].pc # "idle", task'[s].pc # "idle",
           task'[s].doc = task[s].doc, \A t \in Slots : t # s => task'[t] = task[t]
    PROVE  SameOwners
  BY DEF SameOwners, Owns

LEMMA OtherRows ==
    ASSUME NEW d, known' = known, \A e \in Docs : e # d => row'[e] = row[e]
    PROVE  OtherPhases(d)
  BY RowKept DEF OtherPhases

\* Writing a status leaves a row.
LEMMA WriteLeavesRow ==
    ASSUME TypeOK, NEW d \in Docs, Present(d), NEW status \in Statuses,
           Write(d, Running(status))
    PROVE  Present(d)'
<1>1. SetPayload(row[d], Running(status)) \in Row
  BY PayloadTypes, RowTypes DEF TypeOK, Present
<1> QED BY <1>1, NoRowAssumption DEF Write, Present, TypeOK

\* The last status of a run, or nothing if the row is gone or the write refused.
LEMMA EndPhases ==
    ASSUME TypeOK, IInv, NEW s \in Slots, task[s].pc \in InFlight,
           NEW d \in Docs, d = task[s].doc,
           NEW status \in Success \union Rejected \union Retryable, Ended(s, status)
    PROVE  /\ Owns(s, d) /\ SameOwners /\ OtherPhases(d)
           /\ \/ PhaseOf(d) = "working" /\ PhaseOf(d)' \in {"working", Phase(status)}
              \/ PhaseOf(d) = "deleted" /\ PhaseOf(d)' = "deleted"
<1>1. /\ task[s].pc \in Steps /\ task[s].pc # "idle" /\ Owns(s, d)
      /\ d \in known /\ OwnedRow(s, d) /\ known' = known /\ status \in Statuses
  BY WorkingTask DEF Steps, InFlight, IInv, OwnerInv, Ended, Statuses
<1>2. SameOwners
  BY <1>1, FinishFacts, SameDoc DEF Ended
<1>3. CASE Present(d) /\ Write(d, Running(status))
  <2>1. Write(d, Running(status))
    BY <1>3
  <2>2. /\ Status(d)' = status /\ Present(d)' /\ Status(d) \in InFlight
        /\ \A e \in Docs : e # d => row'[e] = row[e]
    BY <1>1, <1>3, <2>1, WriteFacts, WriteLeavesRow DEF OwnedRow
  <2>3. PhaseOf(d) = "working" /\ PhaseOf(d)' = Phase(status)
    BY <1>3, <2>2, PhaseFacts DEF PhaseOf
  <2> QED BY <1>1, <1>2, <2>2, <2>3, OtherRows
<1>4. CASE row' = row
  <2>1. PhaseOf(d) \in {"working", "deleted"}
    <3>1. Present(d) => Status(d) \in InFlight
      BY <1>1 DEF OwnedRow
    <3> QED BY <1>1, <3>1, PhaseFacts DEF PhaseOf
  <2>2. PhaseOf(d)' = PhaseOf(d)
    BY <1>1, <1>4, RowKept
  <2> QED BY <1>1, <1>2, <1>4, <2>1, <2>2, OtherRows
<1> QED BY <1>3, <1>4 DEF Ended

LEMMA EndStep ==
    ASSUME TypeOK, IInv, NEW s \in Slots, task[s].pc \in InFlight,
           NEW d \in Docs, d = task[s].doc,
           NEW status \in Success \union Rejected \union Retryable, Ended(s, status),
           orphan' = orphan
    PROVE  Promise!Write(s, d) \/ UNCHANGED Promise!lifecycle
<1>1. Phase(status) \in {"success", "rejected", "retryable"}
  BY PhaseFacts
<1>2. /\ Owns(s, d) /\ SameOwners /\ OtherPhases(d)
      /\ \/ PhaseOf(d) = "working" /\ PhaseOf(d)' \in {"working", Phase(status)}
         \/ PhaseOf(d) = "deleted" /\ PhaseOf(d)' = "deleted"
  BY EndPhases
<1>3. CASE PhaseOf(d) = "working"
  BY <1>1, <1>2, <1>3, WriteStep
<1>4. CASE PhaseOf(d) = "deleted"
  <2>1. \A e \in Docs : PhaseOf(e)' = PhaseOf(e)
    BY <1>2, <1>4 DEF OtherPhases
  <2> QED BY <1>2, <2>1, StutterStep
<1> QED BY <1>2, <1>3, <1>4

-----------------------------------------------------------------------------
(* Every step of the queue *)

\* Before its run fails or goes on, a task that loads holds a document that
\* waits, is already reported on, or is gone.
LEMMA LoadingPhase ==
    ASSUME TypeOK, IInv, NEW s \in Slots, task[s].pc = "load", NEW d \in Docs, d = task[s].doc
    PROVE  /\ Owns(s, d)
           /\ PhaseOf(d) \in {"waiting", "working", "deleted"}
           /\ Present(d) <=> PhaseOf(d) # "deleted"
<1>1. Owns(s, d) /\ d \in known /\ OwnedRow(s, d)
  BY WorkingTask DEF IInv, OwnerInv
<1> QED
  BY <1>1, PhaseFacts DEF OwnedRow, PhaseOf, InFlight

LEMMA QueueStep ==
    ASSUME OneProcess, TypeOK, IInv, [Next]_vars
    PROVE  Promise!Next \/ UNCHANGED Promise!lifecycle
<1>1. ASSUME NEW d \in Docs, Upload(d) PROVE Promise!Upload(d)
  <2>1. SameOwners /\ orphan' = orphan /\ \A s \in Slots : ~Owns(s, d)
    BY <1>1 DEF Upload, SameOwners, Owns, IInv, OwnerInv
  <2>2. PhaseOf(d) = "new"
    BY <1>1 DEF Upload, PhaseOf, IInv
  <2>3. row'[d] = NewRow(QueuedPayload) /\ NewRow(QueuedPayload) # Null
    BY <1>1, PayloadTypes, RowTypes, NoRowAssumption DEF Upload, TypeOK
  <2>4. PhaseOf(d)' = "waiting"
    BY <2>3, PhaseFacts DEF PhaseOf, Present, Status, NewRow, QueuedPayload
  <2>5. OtherPhases(d)
    BY <1>1 DEF Upload, OtherPhases, PhaseOf, Present, Status, TypeOK
  <2> QED BY <2>1, <2>2, <2>4, <2>5, UploadStep
<1>2. ASSUME NEW d \in Docs, Delete(d) PROVE Promise!Delete(d)
  <2>1. SameOwners /\ orphan' = orphan /\ d \in known /\ known' = known
    BY <1>2 DEF Delete, SameOwners, Owns, IInv
  <2>2. PhaseOf(d) \notin {"new", "deleted"}
    BY <1>2, PhaseFacts DEF Delete, PhaseOf
  <2>3. row'[d] = Null /\ \A e \in Docs : e # d => row'[e] = row[e]
    BY <1>2 DEF Delete, TypeOK
  <2>4. PhaseOf(d)' = "deleted"
    BY <2>1, <2>3 DEF PhaseOf, Present
  <2> QED BY <2>1, <2>2, <2>3, <2>4, OtherRows, DeleteStep
<1>3. ASSUME NEW s \in Slots, Claim(s) PROVE \E d \in Docs : Promise!Take(s, d)
  <2>1. PICK d \in Oldest :
          /\ row' = [row EXCEPT ![d] = Claimed(row[d], LeaseTime)]
          /\ task' = [task EXCEPT ![s] =
                        [pc |-> "load", doc |-> d, snap |-> Claimed(row[d], LeaseTime),
                         outcome |-> Null, left |-> LeaseTime]]
    BY <1>3 DEF Claim
  <2>2. d \in Docs /\ Present(d) /\ Due(row[d]) /\ row[d] \in Row
    BY DEF Oldest, TypeOK, Present
  <2>3. Claimed(row[d], LeaseTime) # Null
        /\ Claimed(row[d], LeaseTime).payload = row[d].payload
    BY <2>2, RowAssumption, ClaimedFacts DEF RowAssumption
  <2>4. \A e \in Docs : PhaseOf(e)' = PhaseOf(e)
    <3> SUFFICES ASSUME NEW e \in Docs PROVE PhaseOf(e)' = PhaseOf(e)
      OBVIOUS
    <3>1. known' = known
      BY <1>3 DEF Claim
    <3>2. CASE e = d
      <4>1. row'[e] = Claimed(row[d], LeaseTime)
        BY <2>1, <2>2, <3>2 DEF TypeOK
      <4> QED BY <2>2, <2>3, <3>1, <3>2, <4>1, PhaseKept DEF Present, Status
    <3>3. CASE e # d
      BY <2>1, <3>1, <3>3, RowKept DEF TypeOK
    <3> QED BY <3>2, <3>3
  <2>5. PhaseOf(d) = "waiting"
    BY <2>2, PhaseFacts DEF PhaseOf, Due, Status
  <2>6. \A t \in Slots, e \in Docs : Owns(t, e)' <=> Owns(t, e) \/ (t = s /\ e = d)
    BY <1>3, <2>1, <2>2 DEF Claim, Owns, TypeOK
  <2>7. (\A t \in Slots : ~Owns(t, d)) /\ (\A e \in Docs : ~Owns(s, e)) /\ orphan' = orphan
    BY <1>3, <2>2, DueUnowned DEF Claim, Owns
  <2> QED BY <2>2, <2>4, <2>5, <2>6, <2>7, TakeStep
<1>4. ASSUME NEW s \in Slots, Loaded(s) \/ StageDone(s)
      PROVE  \E d \in Docs : Promise!Write(s, d)
  <2>1. PICK d : d = task[s].doc
    OBVIOUS
  <2>2. PICK stage \in InFlight :
          Write(d, Running(stage)) /\ \E left : Continue(s, stage, left)
    BY <1>4, <2>1 DEF Loaded, StageDone, NextStage, InFlight
  <2>3. /\ task[s].pc \in Steps /\ task[s].pc # "idle" /\ d \in Docs /\ Owns(s, d)
        /\ d \in known /\ OwnedRow(s, d) /\ Present(d)
        /\ known' = known /\ orphan' = orphan
    BY <1>4, <2>1, WorkingTask
    DEF Loaded, StageDone, NextStage, Steps, InFlight, IInv, OwnerInv
  <2>4. SameOwners
    BY <2>2, <2>3, ContinueFacts, SameDoc DEF InFlight
  <2>5. /\ Status(d)' = stage /\ Present(d)'
        /\ \A e \in Docs : e # d => row'[e] = row[e]
    BY <2>2, <2>3, WriteFacts, WriteLeavesRow DEF Statuses
  <2>6. PhaseOf(d)' = "working"
    BY <2>5, PhaseFacts DEF PhaseOf
  <2>7. PhaseOf(d) \in {"waiting", "working"}
    BY <2>3, PhaseFacts DEF OwnedRow, PhaseOf, Steps, InFlight
  <2> QED BY <2>3, <2>4, <2>5, <2>6, <2>7, OtherRows, WriteStep
<1>5. ASSUME NEW s \in Slots, LoadFailed(s)
      PROVE  (\E d \in Docs : Promise!Write(s, d)) \/ UNCHANGED Promise!lifecycle
  <2>1. PICK d : d = task[s].doc
    OBVIOUS
  <2>2. /\ task[s].pc \in Steps /\ task[s].pc # "idle" /\ d \in Docs /\ Owns(s, d)
        /\ PhaseOf(d) \in {"waiting", "working", "deleted"}
        /\ known' = known /\ orphan' = orphan
    BY <1>5, <2>1, WorkingTask, LoadingPhase DEF LoadFailed, Steps
  <2>3. SameOwners
    BY <1>5, <2>2, FinishFacts, SameDoc DEF LoadFailed
  <2>4. CASE Refused
    <3>1. \A e \in Docs : PhaseOf(e)' = PhaseOf(e)
      BY <2>2, <2>4, RowKept DEF Refused
    <3> QED BY <2>2, <2>3, <3>1, StutterStep
  <2>5. CASE ~Refused
    <3>1. row'[d] = IF row[d] = Null THEN NewRow(Running("parser_failure"))
                    ELSE SetPayload(row[d], Running("parser_failure"))
      BY <1>5, <2>1, <2>2, <2>5 DEF LoadFailed, TypeOK
    <3>2. Running("parser_failure") \in Payload
      BY PayloadTypes DEF Statuses, Retryable
    <3>3. row'[d] \in Row
      BY <2>2, <3>1, <3>2, RowTypes DEF TypeOK
    <3>4. row'[d].payload = Running("parser_failure")
      BY <2>2, <3>1 DEF NewRow, SetPayload, TypeOK, Row
    <3>5. Present(d)' /\ Status(d)' = "parser_failure"
      BY <3>3, <3>4, NoRowAssumption DEF Present, Status, Running
    <3>6. PhaseOf(d)' = "retryable"
      BY <3>5, PhaseFacts DEF PhaseOf, Retryable
    <3>7. \A e \in Docs : e # d => row'[e] = row[e]
      BY <1>5, <2>1, <2>5 DEF LoadFailed, TypeOK
    <3> QED BY <2>2, <2>3, <3>6, <3>7, OtherRows, WriteStep
  <2> QED BY <2>4, <2>5
<1>6. ASSUME NEW s \in Slots, Complete(s) \/ Reject(s) \/ ParseFail(s)
      PROVE  (\E d \in Docs : Promise!Write(s, d)) \/ UNCHANGED Promise!lifecycle
  <2>1. PICK status \in Success \union Rejected \union Retryable : Ended(s, status)
    BY <1>6, EndEnded DEF Reject, ParseFail, Retryable
  <2>2. task[s].pc \in InFlight /\ task[s].doc \in Docs /\ orphan' = orphan
    BY <1>6, WorkingTask DEF Complete, Reject, ParseFail, InFlight
  <2> QED BY <2>1, <2>2, EndStep
<1>7. ASSUME NEW s \in Slots, Timeout(s)
      PROVE  \/ \E d \in Docs : Promise!Write(s, d) \/ Promise!Abandon(s, d)
             \/ UNCHANGED Promise!lifecycle
  <2>1. PICK d : d = task[s].doc
    OBVIOUS
  <2>2. /\ task[s].pc \in InFlight /\ d \in Docs /\ Ended(s, "resource_limit")
        /\ "resource_limit" \in Success \union Rejected \union Retryable
    BY <1>7, <2>1, EndEnded, WorkingTask DEF Timeout, InFlight, Retryable
  <2>3. CASE orphan' = orphan
    BY <2>1, <2>2, <2>3, EndStep
  <2>4. CASE orphan' = orphan \union {<<s[1], d>>}
    <3>1. Threads' = Threads \union {d}
      BY <2>2, <2>4 DEF Threads, Slots
    <3>2. Phase("resource_limit") = "retryable"
      BY PhaseFacts DEF Retryable
    <3>3. /\ Owns(s, d) /\ SameOwners /\ OtherPhases(d)
          /\ \/ PhaseOf(d) = "working" /\ PhaseOf(d)' \in {"working", "retryable"}
             \/ PhaseOf(d) = "deleted" /\ PhaseOf(d)' = "deleted"
      BY <2>1, <2>2, <3>2, EndPhases
    <3> QED BY <2>2, <3>1, <3>3, AbandonStep
  <2> QED BY <1>7, <2>1, <2>3, <2>4 DEF Timeout
<1>8. ASSUME NEW s \in Slots, RowGone(s) PROVE UNCHANGED Promise!lifecycle
  <2>1. task[s].pc \in Steps /\ task[s].pc # "idle"
    BY <1>8 DEF RowGone, Steps
  <2>2. SameOwners
    BY <1>8, <2>1, FinishFacts, SameDoc DEF RowGone
  <2>3. orphan' = orphan /\ \A d \in Docs : PhaseOf(d)' = PhaseOf(d)
    BY <1>8, RowKept DEF RowGone
  <2> QED BY <2>2, <2>3, StutterStep
<1>9. ASSUME NEW s \in Slots, Settle(s) PROVE \E d \in Docs : Promise!Release(s, d)
  <2>1. PICK d : d = task[s].doc
    OBVIOUS
  <2>2. /\ d \in Docs /\ Owns(s, d) /\ OwnedRow(s, d) /\ task[s].snap \in Row
        /\ task[s].outcome \in Outcomes /\ known' = known /\ orphan' = orphan
    BY <1>9, <2>1, WorkingTask DEF Settle, IInv, OwnerInv
  <2>3. task'[s].pc = "idle" /\ \A t \in Slots : t # s => task'[t] = task[t]
    BY <1>9 DEF Settle, TypeOK, IdleTask
  <2>4. \A t \in Slots, e \in Docs : Owns(t, e)' <=> Owns(t, e) /\ ~(t = s /\ e = d)
    BY <2>1, <2>3 DEF Owns
  <2>5. \A e \in Docs : e # d => row'[e] = row[e]
    BY <1>9, <2>1 DEF Settle, Refused, TypeOK
  <2>6. CASE ~Present(d) \/ Refused
    <3>1. PhaseOf(d)' = PhaseOf(d)
      BY <1>9, <2>1, <2>2, <2>6, RowKept DEF Settle, Refused
    <3> QED BY <2>2, <2>4, <2>5, <3>1, OtherRows, ReleaseStep
  <2>7. CASE Present(d) /\ ~Refused
    <3>1. row[d] \in Row /\ row'[d] = Settled(row[d], task[s])
      BY <1>9, <2>1, <2>2, <2>7 DEF Settle, TypeOK, Present
    <3>2. Present(d)'
      BY <2>2, <3>1, SettledType, NoRowAssumption DEF Present
    <3>3. CASE row'[d] = Released(row[d], task[s].snap)
      <4>1. row'[d].payload = row[d].payload
        BY <2>2, <3>1, <3>3 DEF Released, Flush, Row
      <4>2. PhaseOf(d)' = PhaseOf(d)
        BY <2>2, <2>7, <3>2, <4>1, PhaseKept DEF Status
      <4> QED BY <2>2, <2>4, <2>5, <4>2, OtherRows, ReleaseStep
    <3>4. CASE /\ task[s].outcome \in Retryable
               /\ \/ row'[d] = RetryScheduled(row[d], task[s].snap)
                  \/ row'[d] = MarkedFailed(row[d], task[s].snap)
      <4>1. row'[d].payload \in
              {row[d].payload, QueuedPayload, [status |-> "failed", stage |-> "other"]}
        BY <2>2, <3>1, <3>4 DEF RetryScheduled, MarkedFailed, Flush, Row
      <4>2. PhaseOf(d) \in {"waiting", "working", "retryable"}
        BY <1>9, <2>2, <2>7, <3>4, PhaseFacts DEF Settle, OwnedRow, PhaseOf, InFlight
      <4>3. \/ PhaseOf(d)' = PhaseOf(d)
            \/ PhaseOf(d)' \in {"waiting", "failed"}
        BY <2>7, <3>2, <4>1, PhaseFacts DEF PhaseOf, Status, QueuedPayload
      <4> QED BY <2>2, <2>4, <2>5, <4>2, <4>3, OtherRows, ReleaseStep
    <3> QED BY <3>1, <3>3, <3>4 DEF Settled
  <2> QED BY <2>6, <2>7
<1>10. ASSUME NEW p \in Procs, NEW d \in Docs, LateReport(p, d) PROVE Promise!LateReport(d)
  <2>1. /\ SameOwners /\ orphan' = orphan /\ known' = known /\ d \in Threads
        /\ Present(d) /\ Write(d, Running("extracting"))
    BY <1>10 DEF LateReport, SameOwners, Owns, Threads
  <2>2. /\ Status(d)' = "extracting" /\ Present(d)'
        /\ \A e \in Docs : e # d => row'[e] = row[e]
    BY <2>1, WriteFacts, WriteLeavesRow DEF Statuses, InFlight
  <2>3. PhaseOf(d) \notin {"new", "deleted"} /\ PhaseOf(d)' = "working"
    BY <2>1, <2>2, PhaseFacts DEF PhaseOf, InFlight
  <2> QED BY <2>1, <2>2, <2>3, OtherRows, LateStep
<1>11. ASSUME NEW p \in Procs, NEW d \in Docs, ThreadEnds(p, d) PROVE Promise!Die
  <2>1. SameOwners /\ \A e \in Docs : PhaseOf(e)' = PhaseOf(e)
    BY <1>11, RowKept DEF ThreadEnds, SameOwners, Owns
  <2>2. Threads' \subseteq Threads
    BY <1>11 DEF ThreadEnds, Threads
  <2>3. Held' = {h \in Held : h[1] \notin {}}
    BY <2>1, SameHeld
  <2> QED
    <3> DEFINE W == {}
    <3>1. W \in SUBSET Slots /\ Held' = {h \in Held : h[1] \notin W}
      BY <2>3
    <3> HIDE DEF W
    <3> QED BY <2>1, <2>2, <3>1, DieStep
<1>12. ASSUME NEW p \in Procs, Kill(p) PROVE Promise!Die
  <2>1. \A s \in Slots : s[1] = p
    BY DEF Slots, OneProcess
  <2>2. \A s \in Slots : task'[s].pc = "idle"
    BY <1>12, <2>1 DEF Kill, IdleTask
  <2>3. Held' = {h \in Held : h[1] \notin Slots}
    BY <2>2 DEF Held, Owns
  <2>4. Threads' \subseteq Threads
    BY <1>12 DEF Kill, Threads
  <2>5. \A d \in Docs : PhaseOf(d)' = PhaseOf(d)
    BY <1>12, RowKept DEF Kill
  <2> QED BY <2>3, <2>4, <2>5, DieStep
<1>13. ASSUME NEW p \in Procs, Start(p) PROVE Promise!Recover
  <2>1. \A s \in Slots, d \in Docs : ~Owns(s, d)
    <3> SUFFICES ASSUME NEW s \in Slots, NEW d \in Docs, Owns(s, d) PROVE FALSE
      OBVIOUS
    <3>1. s[1] = p /\ up[s[1]]
      BY DEF Slots, OneProcess, IInv, OwnerInv
    <3> QED BY <1>13, <3>1 DEF Start
  <2>2. SameOwners /\ orphan' = orphan /\ known' = known
    BY <1>13 DEF Start, SameOwners, Owns
  <2> DEFINE D == {d \in Docs : Present(d) /\ Stale(row[d])}
  <2>3. \A d \in D : PhaseOf(d) = "working"
    BY PhaseFacts DEF PhaseOf, Stale, Status
  <2>4. ASSUME NEW d \in Docs
        PROVE  PhaseOf(d)' = IF d \in D THEN "waiting" ELSE PhaseOf(d)
    <3>1. CASE row'[d] = row[d] /\ d \notin D
      BY <2>2, <3>1, RowKept
    <3>2. CASE d \in D /\ row'[d] = Recovered(row[d])
      <4>1. row[d] \in Row
        BY <3>2 DEF TypeOK, Present
      <4>2. Present(d)' /\ Status(d)' = "queued"
        BY <3>2, <4>1, RecoveredFacts DEF Present, Status
      <4> QED BY <3>2, <4>2, PhaseFacts DEF PhaseOf
    <3>3. CASE d \in Oldest /\ row'[d] = Claimed(row[d], SchemaLease)
      <4>1. row[d] \in Row /\ Present(d) /\ Status(d) = "queued"
        BY <3>3 DEF TypeOK, Present, Oldest, Due, Status
      <4>2. Present(d)' /\ Status(d)' = Status(d)
        BY <3>3, <4>1, QueueAssumption, ClaimedFacts DEF QueueAssumption, Present, Status
      <4>3. d \notin D
        BY <4>1 DEF Stale, InFlight, Status
      <4> QED BY <2>2, <4>1, <4>2, <4>3, PhaseKept
    <3> QED BY <1>13, <3>1, <3>2, <3>3 DEF Start
  <2> HIDE DEF D
  <2>5. D \in SUBSET Docs
    BY DEF D
  <2> QED BY <2>1, <2>2, <2>3, <2>4, <2>5, RecoverStep
<1>14. ASSUME NEW p \in Procs, ExpireStaleLeases(p) PROVE UNCHANGED Promise!lifecycle
  <2>1. SameOwners /\ orphan' = orphan /\ known' = known
    BY <1>14 DEF ExpireStaleLeases, SameOwners, Owns
  <2>2. ASSUME NEW d \in Docs PROVE PhaseOf(d)' = PhaseOf(d)
    <3>1. CASE row'[d] = row[d]
      BY <2>1, <3>1, RowKept
    <3>2. CASE Present(d) /\ row'[d] = Claimed(row[d], Null)
      <4>1. row[d] \in Row
        BY <3>2 DEF TypeOK, Present
      <4>2. Present(d)' /\ Status(d)' = Status(d)
        BY <3>2, <4>1, ClaimedFacts DEF Present, Status
      <4> QED BY <2>1, <3>2, <4>2, PhaseKept
    <3> QED BY <1>14, <3>1, <3>2 DEF ExpireStaleLeases
  <2> QED BY <2>1, <2>2, StutterStep
<1>15. CASE Tick
  <2>1. \A t \in Slots : task'[t].pc = task[t].pc /\ task'[t].doc = task[t].doc
    <3>1. \A x \in TaskState :
            LET y == [x EXCEPT !.left = IF @ > 0 THEN @ - 1 ELSE 0] IN
            y.pc = x.pc /\ y.doc = x.doc
      BY DEF TaskState, IdleTask
    <3> QED BY <1>15, <3>1 DEF Tick, TypeOK
  <2>2. SameOwners /\ orphan' = orphan /\ known' = known
    BY <1>15, <2>1 DEF Tick, SameOwners, Owns
  <2>3. ASSUME NEW d \in Docs PROVE PhaseOf(d)' = PhaseOf(d)
    <3>1. CASE ~Present(d)
      BY <1>15, <2>2, <3>1, RowKept DEF Tick, Present
    <3>2. CASE Present(d)
      <4>1. row[d] \in Row /\ row'[d] = ElapseRow(row[d])
        BY <1>15, <3>2 DEF Tick, TypeOK, Present
      <4>2. Present(d)' /\ Status(d)' = Status(d)
        BY <4>1, ElapseRowType, NoRowAssumption DEF Present, Status, ElapseRow, Row
      <4> QED BY <2>2, <3>2, <4>2, PhaseKept
    <3> QED BY <3>1, <3>2
  <2> QED BY <2>2, <2>3, StutterStep
<1>16. CASE UNCHANGED vars
  <2>1. SameOwners /\ orphan' = orphan /\ \A d \in Docs : PhaseOf(d)' = PhaseOf(d)
    BY <1>16, RowKept DEF vars, SameOwners, Owns
  <2> QED BY <2>1, StutterStep
<1> QED
  BY <1>1, <1>2, <1>3, <1>4, <1>5, <1>6, <1>7, <1>8, <1>9, <1>10, <1>11, <1>12,
     <1>13, <1>14, <1>15, <1>16
  DEF Next, Promise!Next

LEMMA InitMaps == Init => Promise!Init
<1> SUFFICES ASSUME Init PROVE Promise!Init
  OBVIOUS
<1>1. PhaseMap = [d \in Docs |-> "new"]
  BY DEF Init, PhaseMap, PhaseOf, Present
<1>2. Held = {}
  BY DEF Init, Held, Owns, IdleTask
<1>3. Threads = {}
  BY DEF Init, Threads
<1> QED
  BY <1>1, <1>2, <1>3 DEF Promise!Init, PhaseMap, Held, Threads

\* With one worker process the queue keeps its promise: every document has
\* one holder at most, and nobody else moves it from phase to phase.
THEOREM Implements == OneProcess => (Spec => ImplementsLifecycle)
<1> SUFFICES ASSUME OneProcess PROVE Spec => ImplementsLifecycle
  OBVIOUS
<1>1. Init => Promise!Init
  BY InitMaps
<1>2. TypeOK /\ IInv /\ [Next]_vars => [Promise!Next]_(Promise!lifecycle)
  BY QueueStep
<1> QED
  BY <1>1, <1>2, TypeCorrect, IInvHolds, PTL DEF Spec, ImplementsLifecycle, Promise!Spec

=============================================================================
