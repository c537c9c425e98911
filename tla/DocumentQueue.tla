--------------------------- MODULE DocumentQueue ---------------------------
(***************************************************************************)
(* The document queue kept in document_state and the worker processes that *)
(* serve it: claims and leases, the runs of process_document with every    *)
(* status they commit, the retry policy, worker deaths and restarts,       *)
(* startup recovery, lease expiry, and deletion through the API.           *)
(*                                                                         *)
(* One action is one committed transaction of the code, or one the database *)
(* refuses: the session is aborted, and what it should have written is not. *)
(***************************************************************************)
EXTENDS DocumentRow, FiniteSets

CONSTANTS
    Docs,         \* document ids
    Procs,        \* worker processes
    Tasks,        \* the worker_concurrency claim tasks of one process
    ProcTimeout,  \* processing_timeout_seconds, in ticks
    SchemaLease,  \* the one-second lease of _check_queue_schema, in ticks
    MaxFaults     \* bound: how often a worker is killed or a transaction refused

ASSUME QueueAssumption ==
    /\ IsFiniteSet(Docs)
    /\ Null \notin Docs
    /\ ProcTimeout \in Nat \ {0}
    /\ SchemaLease \in Nat
    /\ MaxFaults \in Nat

VARIABLES
    row,      \* document_state: the row of a document, or Null
    known,    \* the documents ever uploaded (an id is never used twice)
    updated,  \* updated_at as a rank: of two rows the lower was written earlier
    task,     \* the claim tasks
    up,       \* which worker processes are past their startup
    orphan,   \* partition threads that outlived their run: <<process, document>>
    faults    \* how many kills and refused transactions there have been

vars == <<row, known, updated, task, up, orphan, faults>>

Slots == Procs \X Tasks

\* What process_document reports for a document whose row it did not find.
Outcomes == Success \union Rejected \union Retryable \union {"unknown"}

Steps == {"load"} \union InFlight

IdleTask == [pc |-> "idle", doc |-> Null, snap |-> Null, outcome |-> Null, left |-> 0]

TaskState ==
    {IdleTask}
      \union [pc : Steps, doc : Docs, snap : Row, outcome : {Null}, left : Nat]
      \union [pc : {"settle"}, doc : Docs, snap : Row, outcome : Outcomes, left : Nat]

TypeOK ==
    /\ row \in [Docs -> Row \union {Null}]
    /\ known \subseteq Docs
    /\ updated \in [Docs -> Nat]
    /\ task \in [Slots -> TaskState]
    /\ up \in [Procs -> BOOLEAN]
    /\ orphan \subseteq Procs \X Docs
    /\ faults \in 0..MaxFaults

-----------------------------------------------------------------------------
Present(d) == row[d] # Null
Status(d)  == row[d].payload.status
Owns(s, d) == task[s].pc # "idle" /\ task[s].doc = d

\* updated_at of the rows in D becomes now(); the order of the others stays.
Touch(D) ==
    updated' = [d \in Docs |->
                  IF d \in D THEN Cardinality(Docs)
                  ELSE Cardinality({e \in Docs \ D : updated[e] < updated[d]})]

\* The rows claim_next may return: the due ones written longest ago.
Oldest == {d \in Docs : /\ Present(d) /\ Due(row[d])
                        /\ \A e \in Docs : Present(e) /\ Due(row[e]) => updated[d] <= updated[e]}

\* The run of a task goes on, or is over with an outcome.
Continue(s, pc, left) ==
    task' = [task EXCEPT ![s] = [@ EXCEPT !.pc = pc, !.left = left]]
Finish(s, outcome, left) ==
    task' = [task EXCEPT ![s] = [@ EXCEPT !.pc = "settle", !.outcome = outcome, !.left = left]]

Write(d, payload) ==
    /\ row' = [row EXCEPT ![d] = SetPayload(@, payload)]
    /\ Touch({d})

\* A transaction is refused, and nothing of it is in the database.
Refused ==
    /\ faults < MaxFaults
    /\ faults' = faults + 1
    /\ UNCHANGED <<row, updated>>

Init ==
    /\ row = [d \in Docs |-> Null]
    /\ known = {}
    /\ updated = [d \in Docs |-> 0]
    /\ task = [s \in Slots |-> IdleTask]
    /\ up = [p \in Procs |-> FALSE]
    /\ orphan = {}
    /\ faults = 0

-----------------------------------------------------------------------------
(* The API: upload and deletion of a document's row *)

Upload(d) ==
    /\ d \notin known
    /\ known' = known \union {d}
    /\ row' = [row EXCEPT ![d] = NewRow(QueuedPayload)]
    /\ Touch({d})
    /\ UNCHANGED <<task, up, orphan, faults>>

Delete(d) ==
    /\ Present(d)
    /\ row' = [row EXCEPT ![d] = Null]
    /\ UNCHANGED <<known, updated, task, up, orphan, faults>>

-----------------------------------------------------------------------------
(* One run of a claim task: run_worker_once around process_document *)

\* The claim is committed before the document is processed; the task keeps
\* the row object it claimed.
Claim(s) ==
    /\ up[s[1]] /\ task[s].pc = "idle"
    /\ \E d \in Oldest :
         LET claimed == Claimed(row[d], LeaseTime) IN
         /\ row' = [row EXCEPT ![d] = claimed]
         /\ task' = [task EXCEPT ![s] = [pc |-> "load", doc |-> d, snap |-> claimed,
                                         outcome |-> Null, left |-> LeaseTime]]
         /\ Touch({d})
    /\ UNCHANGED <<known, up, orphan, faults>>

\* The source PDF is on disk: status "extracting", and the timeout starts.
Loaded(s) ==
    /\ task[s].pc = "load" /\ Present(task[s].doc)
    /\ Write(task[s].doc, Running("extracting"))
    /\ Continue(s, "extracting", ProcTimeout)
    /\ UNCHANGED <<known, up, orphan, faults>>

\* The PDF could not be loaded. set_status inserts the row if it is gone.  If
\* that is refused, as when the run's first read or write is, the row stays as
\* the claim left it.
LoadFailed(s) ==
    /\ task[s].pc = "load"
    /\ \/ /\ row' = [row EXCEPT ![task[s].doc] =
                      IF @ = Null THEN NewRow(Running("parser_failure"))
                      ELSE SetPayload(@, Running("parser_failure"))]
          /\ Touch({task[s].doc})
          /\ Finish(s, "parser_failure", 0)
          /\ UNCHANGED faults
       \/ Refused /\ Finish(s, "parser_failure", task[s].left)
    /\ UNCHANGED <<known, up, orphan>>

NextStage == [extracting |-> "tables", tables |-> "images", images |-> "embedding"]

StageDone(s) ==
    /\ task[s].pc \in DOMAIN NextStage /\ Present(task[s].doc)
    /\ Write(task[s].doc, Running(NextStage[task[s].pc]))
    /\ Continue(s, NextStage[task[s].pc], task[s].left)
    /\ UNCHANGED <<known, up, orphan, faults>>

\* A run that fails ends, and its handler commits the last status. The handler
\* swallows what goes wrong with that: the KeyError of a row that is gone, and
\* the refusal of a session that the failed stage aborted.
End(s, status) ==
    /\ \/ /\ IF Present(task[s].doc)
               THEN Write(task[s].doc, Running(status))
               ELSE UNCHANGED <<row, updated>>
          /\ UNCHANGED faults
       \/ Refused
    /\ Finish(s, status, 0)
    /\ UNCHANGED <<known, up>>

Complete(s) ==
    /\ task[s].pc = "embedding" /\ Present(task[s].doc)
    /\ \E status \in Success :
         Write(task[s].doc, Running(status)) /\ Finish(s, status, 0)
    /\ UNCHANGED <<known, up, orphan, faults>>

\* Preflight rejects the document.
Reject(s) ==
    /\ task[s].pc = "extracting"
    /\ \E status \in Rejected \union {"resource_limit"} : End(s, status)
    /\ UNCHANGED orphan

\* A stage raises: its update_status finds no row, or it could not write.
ParseFail(s) ==
    /\ task[s].pc \in InFlight
    /\ End(s, "parser_failure")
    /\ UNCHANGED orphan

\* Mutant of Timeout: the handler does not commit the status.
TimeoutWithoutStatus(s) ==
    /\ task[s].pc \in InFlight /\ task[s].left = 0
    /\ Finish(s, "resource_limit", 0)
    /\ UNCHANGED <<row, known, updated, up, orphan, faults>>

\* Mutant of Timeout: only the extraction stage runs under the timeout.
TimeoutOfExtraction(s) ==
    /\ task[s].pc = "extracting" /\ task[s].left = 0
    /\ End(s, "resource_limit")
    /\ orphan' = orphan \union {<<s[1], task[s].doc>>}

\* asyncio.timeout cancels the run, not the thread that runs partition.
Timeout(s) ==
    /\ task[s].pc \in InFlight /\ task[s].left = 0
    /\ End(s, "resource_limit")
    /\ \/ UNCHANGED orphan
       \/ /\ task[s].pc = "extracting"
          /\ orphan' = orphan \union {<<s[1], task[s].doc>>}

\* The row was deleted before the run read it, or before its first write.
RowGone(s) ==
    /\ task[s].pc = "load" /\ ~Present(task[s].doc)
    /\ \E outcome \in {"unknown", "parser_failure"} : Finish(s, outcome, 0)
    /\ UNCHANGED <<row, known, updated, up, orphan, faults>>

\* Mutant of Settled: gives up one attempt too early.
SettledTooEarly(r, t) ==
    CASE t.outcome \notin Retryable                -> Released(r, t.snap)
      [] t.outcome \in Retryable /\ t.snap.attempts + 2 < MaxAttempts
                                                   -> RetryScheduled(r, t.snap)
      [] OTHER                                     -> MarkedFailed(r, t.snap)

\* run_worker_once after the processor returned: release, retry or give up.
\* The attempt number is the one computed from the claimed row.
Settled(r, t) ==
    CASE t.outcome \notin Retryable         -> Released(r, t.snap)
      [] t.outcome \in Retryable /\ t.snap.attempts + 1 < MaxAttempts
                                            -> RetryScheduled(r, t.snap)
      [] OTHER                              -> MarkedFailed(r, t.snap)

\* _process_one commits that, or is refused: the row keeps its lease and the
\* status the run left in it, and the loop only logs the exception.
Settle(s) ==
    /\ task[s].pc = "settle"
    /\ \/ /\ IF Present(task[s].doc)
               THEN /\ row' = [row EXCEPT ![task[s].doc] = Settled(@, task[s])]
                    /\ Touch({task[s].doc})
               ELSE UNCHANGED <<row, updated>>
          /\ UNCHANGED faults
       \/ Refused
    /\ task' = [task EXCEPT ![s] = IdleTask]
    /\ UNCHANGED <<known, up, orphan>>

-----------------------------------------------------------------------------
(* A partition thread that outlived its run *)

\* _report_ocr: update_status in a session of its own, whatever the row says.
LateReport(p, d) ==
    /\ <<p, d>> \in orphan /\ Present(d)
    /\ Write(d, Running("extracting"))
    /\ UNCHANGED <<known, task, up, orphan, faults>>

ThreadEnds(p, d) ==
    /\ <<p, d>> \in orphan
    /\ orphan' = orphan \ {<<p, d>>}
    /\ UNCHANGED <<row, known, updated, task, up, faults>>

-----------------------------------------------------------------------------
(* A worker process *)

\* A crash, or SIGTERM: run_worker returns without awaiting its tasks, and
\* they are cancelled where they stand.
Kill(p) ==
    /\ up[p] /\ faults < MaxFaults
    /\ up' = [up EXCEPT ![p] = FALSE]
    /\ task' = [s \in Slots |-> IF s[1] = p THEN IdleTask ELSE task[s]]
    /\ orphan' = {o \in orphan : o[1] # p}
    /\ faults' = faults + 1
    /\ UNCHANGED <<row, known, updated>>

\* _check_queue_schema claims a due document, if there is one, and nothing
\* releases it; recover_stale follows in the same transaction.
Start(p) ==
    /\ ~up[p]
    /\ up' = [up EXCEPT ![p] = TRUE]
    /\ LET stale == {d \in Docs : Present(d) /\ Stale(row[d])} IN
       \E claimed \in IF Oldest = {} THEN {{}} ELSE {{d} : d \in Oldest} :
         /\ row' = [d \in Docs |->
                      IF d \in claimed THEN Claimed(row[d], SchemaLease)
                      ELSE IF d \in stale THEN Recovered(row[d])
                      ELSE row[d]]
         /\ Touch(claimed \union stale)
    /\ UNCHANGED <<known, task, orphan, faults>>

\* Once per poll cycle; a plain UPDATE, which leaves updated_at alone.
ExpireStaleLeases(p) ==
    /\ up[p]
    /\ \E d \in Docs : Present(d) /\ LeaseLapsed(row[d])
    /\ row' = [d \in Docs |->
                 IF Present(d) /\ LeaseLapsed(row[d]) THEN Claimed(row[d], Null) ELSE row[d]]
    /\ UNCHANGED <<known, updated, task, up, orphan, faults>>

-----------------------------------------------------------------------------
(* Time: every deadline is one tick nearer. A source PDF is loaded, or given *)
(* up and the failure settled, within the lease of its claim: the one        *)
(* assumption on the environment.                                            *)

\* Nothing but the lease keeps another claim from the task's document.
OnLease(s) ==
    \/ task[s].pc = "load"
    \/ /\ task[s].pc = "settle" /\ Present(task[s].doc)
       /\ Status(task[s].doc) = "queued"

Tick ==
    /\ \A s \in Slots : OnLease(s) => task[s].left > 0
    /\ row' = [d \in Docs |-> IF Present(d) THEN ElapseRow(row[d]) ELSE Null]
    /\ task' = [s \in Slots |-> [task[s] EXCEPT !.left = IF @ > 0 THEN @ - 1 ELSE 0]]
    /\ UNCHANGED <<known, updated, up, orphan, faults>>

Next ==
    \/ \E d \in Docs : Upload(d) \/ Delete(d)
    \/ \E s \in Slots :
         \/ Claim(s)
         \/ Loaded(s)
         \/ LoadFailed(s)
         \/ StageDone(s)
         \/ Complete(s)
         \/ Reject(s)
         \/ ParseFail(s)
         \/ Timeout(s)
         \/ RowGone(s)
         \/ Settle(s)
    \/ \E p \in Procs, d \in Docs : LateReport(p, d) \/ ThreadEnds(p, d)
    \/ \E p \in Procs : Kill(p) \/ Start(p) \/ ExpireStaleLeases(p)
    \/ Tick

Spec == Init /\ [][Next]_vars

\* What the code and its platform guarantee: time passes; a worker process is
\* restarted; a task claims when it can; a load ends; a run is cut off at its
\* timeout (no stage is assumed to end by itself); a run's outcome is applied.
Fairness ==
    /\ WF_vars(Tick)
    /\ \A p \in Procs : WF_vars(Start(p)) /\ WF_vars(ExpireStaleLeases(p))
    /\ \A s \in Slots :
         /\ WF_vars(Claim(s))
         /\ WF_vars(Loaded(s) \/ LoadFailed(s) \/ RowGone(s))
         /\ WF_vars(Timeout(s))
         /\ WF_vars(Settle(s))

FairSpec == Spec /\ Fairness

-----------------------------------------------------------------------------
(* Properties of one worker process with any number of tasks: the deployment *)
(* docker-compose.prod.yml describes                                         *)

\* Two tasks never work on the same document, however leases, retries,
\* recovery and restarts interleave: no run's writes are mixed with another's.
OneTaskPerDocument ==
    \A s, t \in Slots : \A d \in Docs : Owns(s, d) /\ Owns(t, d) => s = t

\* "failed" is only ever reached by using up the attempts: the counter in the
\* row and the status written by mark_failed never part, although both come
\* from the row object read at the claim.
FailedMeansExhausted ==
    \A d \in Docs : Present(d) /\ Status(d) = "failed" => row[d].attempts >= MaxAttempts

\* What a task that works on a document knows of its row, while it exists:
\* the lease it took is still there when the load ends, and while it
\* runs the status is one no claim looks for. What a settling run finds is its
\* outcome, an in-flight status if that was refused or overwritten by a late
\* report, or the queued row of a load failure that was refused, whose lease is
\* still there.
OwnedRow(s, d) ==
    Present(d) =>
      /\ task[s].pc = "load" =>
           /\ Status(d) \in {"queued", "extracting"}
           /\ row[d].claimed_until = task[s].left
      /\ task[s].pc \in InFlight => Status(d) \in InFlight
      /\ task[s].pc = "settle" =>
           /\ Status(d) \in {task[s].outcome, "queued"} \union InFlight
           /\ Status(d) = "queued" => row[d].claimed_until = task[s].left

OwnerInv ==
    \A s \in Slots : \A d \in Docs :
      Owns(s, d) => up[s[1]] /\ d \in known /\ OwnedRow(s, d)

\* The strengthening of the invariants above that every step preserves.
IInv ==
    /\ \A d \in Docs : Present(d) => d \in known
    /\ OwnerInv
    /\ OneTaskPerDocument
    /\ FailedMeansExhausted

\* A document that is ready or partial stays so until it is deleted: no other
\* run, retry or recovery takes it back. Only a partition thread that
\* outlived a timed-out run still can.
SuccessIsFinal ==
    [][\A d \in Docs :
          Present(d) /\ Status(d) \in Success /\ row'[d] # Null
            /\ ~(\E p \in Procs : LateReport(p, d))
          => row'[d].payload = row[d].payload]_vars

\* The queue as DocumentLifecycle sees it.
Phase(status) ==
    CASE status = "queued"     -> "waiting"
      [] status \in InFlight   -> "working"
      [] status \in Success    -> "success"
      [] status \in Rejected   -> "rejected"
      [] status \in Retryable  -> "retryable"
      [] OTHER                 -> "failed"

PhaseOf(d) ==
    IF Present(d) THEN Phase(Status(d)) ELSE IF d \in known THEN "deleted" ELSE "new"

Promise == INSTANCE DocumentLifecycle WITH
    Workers <- Slots,
    phase   <- [d \in Docs |-> PhaseOf(d)],
    held    <- {h \in Slots \X Docs : Owns(h[1], h[2])},
    threads <- {d \in Docs : \E p \in Procs : <<p, d>> \in orphan}

\* Leases, row copies, retries and recovery together amount to what
\* DocumentLifecycle promises: one holder per document, and no change of its
\* phase by anyone else.
ImplementsLifecycle == Promise!Spec

\* A document is left in an in-flight status with no task processing it only
\* when its process dies, a late thread reports, or the write of the run's
\* last status is refused: every other way a run can end takes the status out
\* of the in-flight ones first.
Stranded(d) ==
    /\ Present(d) /\ Status(d) \in InFlight
    /\ ~\E s \in Slots : task[s].pc \in Steps /\ task[s].doc = d

StrandedOnlyByFaultOrLateReport ==
    [][\A d \in Docs :
          ~Stranded(d) /\ Stranded(d)' =>
            \/ \E p \in Procs : Kill(p) \/ LateReport(p, d)
            \/ Refused /\ \E s \in Slots : Owns(s, d) /\ task'[s].pc = "settle"]_vars

\* Every queued document is taken out of the queue, or deleted: the oldest
\* first, whatever its lease or backoff deadline, under crashes too.
QueuedIsServed ==
    \A d \in Docs : (Present(d) /\ Status(d) = "queued")
                       ~> ~(Present(d) /\ Status(d) = "queued")

\* Every run ends and frees its task for the next document, even if a stage
\* hangs for ever.
RunEnds == \A s \in Slots : (task[s].pc # "idle") ~> (task[s].pc = "idle")

-----------------------------------------------------------------------------
(* What the code's own documents say, and the code does not do *)

\* README: document-level retries; a document whose attempts are exhausted
\* ends in "failed". So once its run is settled a document is never left in
\* a retryable failure.
RetryableFailureIsRequeuedOrFailed ==
    \A d \in Docs : Present(d) /\ (\A s \in Slots : ~Owns(s, d))
                      => Status(d) \notin Retryable

\* recover_stale's docstring and README: the lease lets a restarted worker
\* reclaim a document stranded mid-extraction instead of leaving it stuck for
\* ever. The document still carries the lease of the run that was killed.
StrandedIsRecovered ==
    \A d \in Docs :
      (Stranded(d) /\ row[d].claimed_until # Null /\ \A s \in Slots : ~Owns(s, d))
         ~> ~Stranded(d)

=============================================================================
