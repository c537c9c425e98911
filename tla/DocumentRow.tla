---------------------------- MODULE DocumentRow ----------------------------
(***************************************************************************)
(* One row of the table document_state, and what each method of            *)
(* DocumentStateRepository does to it.  Times are kept relative to now, in *)
(* ticks: a deadline t stands for "now + t", so a lease that ran out is    *)
(* negative.  Of the status payload only the status and the part of the    *)
(* stage text the queue depends on are kept.                               *)
(***************************************************************************)
EXTENDS Integers

CONSTANTS
    Null,          \* SQL NULL, and the absence of a row
    LeaseTime,     \* worker_claim_timeout_seconds, in ticks
    MaxAttempts,   \* worker_max_attempts
    RetryBase      \* worker_retry_base_seconds, in ticks

ASSUME NullAssumption == Null \notin Int
ASSUME RowAssumption ==
    /\ LeaseTime \in Nat \ {0}
    /\ MaxAttempts \in Nat \ {0}
    /\ RetryBase \in Nat \ {0}
\* Arithmetic the provers do not know: a power of two is a positive number.
ASSUME BackoffAssumption == \A n \in 0..MaxAttempts : RetryBase * 2 ^ n \in Nat \ {0}

InFlight  == {"extracting", "tables", "images", "embedding"}
Success   == {"ready", "partial"}
Rejected  == {"invalid", "encrypted"}
Retryable == {"parser_failure", "resource_limit"}
Statuses  == {"queued", "failed"} \union InFlight \union Success \union Rejected \union Retryable

\* The stage texts that tell two queued payloads apart; "other" is any text
\* the pipeline or mark_failed writes.
Stages == {"queued", "queued (recovered)", "other"}

Payload == [status : Statuses, stage : Stages]
Row == [payload : Payload, attempts : Nat,
        next_attempt_at : Int \union {Null}, claimed_until : Int \union {Null}]

\* No row is taken for a missing one.
ASSUME NoRowAssumption == Null \notin Row

QueuedPayload    == [status |-> "queued", stage |-> "queued"]
RecoveredPayload == [status |-> "queued", stage |-> "queued (recovered)"]
Running(status)  == [status |-> status, stage |-> "other"]

\* A row inserted by set_status: the server defaults of the queue columns.
NewRow(payload) ==
    [payload |-> payload, attempts |-> 0, next_attempt_at |-> Null, claimed_until |-> Null]

-----------------------------------------------------------------------------
(* Time *)

\* A deadline one tick later; it is not followed below floor, where no test
\* on it can change any more.
Elapse(t, floor) == IF t = Null THEN Null ELSE IF t > floor THEN t - 1 ELSE t

\* expire_stale_leases tests a deadline against now - LeaseTime.
Lapsed == -(LeaseTime + 1)

ElapseRow(r) ==
    [r EXCEPT !.next_attempt_at = Elapse(@, 0), !.claimed_until = Elapse(@, Lapsed)]

\* base * 2^(attempt - 1)
retry_delay(attempt) == RetryBase * 2 ^ (attempt - 1)

-----------------------------------------------------------------------------
(* The queries' WHERE clauses *)

\* Mutant of LeaseFree: the lease is not looked at.
LeaseIgnored(r) == TRUE

LeaseFree(r) == r.claimed_until = Null \/ r.claimed_until < 0

\* Mutant of Due: the status is not looked at.
DueWhateverStatus(r) ==
    /\ r.next_attempt_at = Null \/ r.next_attempt_at <= 0
    /\ LeaseFree(r)

\* Mutant of Due: a row with a backoff deadline is never due again.
DueWithoutDeadline(r) ==
    /\ r.payload.status = "queued"
    /\ r.next_attempt_at = Null
    /\ LeaseFree(r)

Due(r) ==
    /\ r.payload.status = "queued"
    /\ r.next_attempt_at = Null \/ r.next_attempt_at <= 0
    /\ LeaseFree(r)

\* Mutant of Stale: only the documents that wait are left out.
StaleUnlessQueued(r) == r.payload.status # "queued" /\ LeaseFree(r)

Stale(r) == r.payload.status \in InFlight /\ LeaseFree(r)

LeaseLapsed(r) ==
    /\ r.payload.status = "queued"
    /\ r.claimed_until # Null
    /\ r.claimed_until < -LeaseTime

-----------------------------------------------------------------------------
(* What the methods leave in the row *)

\* The unit of work writes the columns whose value differs from the value
\* the session loaded; the others keep what the database holds by then.
Flush(db, loaded, new) ==
    [c \in DOMAIN db |-> IF new[c] # loaded[c] THEN new[c] ELSE db[c]]

\* update_status and set_status on an existing row, in a session of their own.
SetPayload(r, payload) == [r EXCEPT !.payload = payload]

Claimed(r, lease) == [r EXCEPT !.claimed_until = lease]

\* The three methods that end a run work on the object claim_next loaded:
\* the session does not expire it on commit.
Released(r, snap) == Flush(r, snap, [snap EXCEPT !.claimed_until = Null])

RetryScheduled(r, snap) ==
    Flush(r, snap,
          [payload         |-> QueuedPayload,
           attempts        |-> snap.attempts + 1,
           next_attempt_at |-> retry_delay(snap.attempts + 1),
           claimed_until   |-> Null])

MarkedFailed(r, snap) ==
    Flush(r, snap,
          [payload         |-> [status |-> "failed", stage |-> "other"],
           attempts        |-> snap.attempts + 1,
           next_attempt_at |-> Null,
           claimed_until   |-> Null])

\* Mutant of Recovered: the recovery gives the attempt back.
RecoveredWithAttemptBack(r) ==
    [payload |-> RecoveredPayload, attempts |-> r.attempts - 1,
     next_attempt_at |-> Null, claimed_until |-> Null]

Recovered(r) ==
    [payload |-> RecoveredPayload, attempts |-> r.attempts + 1,
     next_attempt_at |-> Null, claimed_until |-> Null]
=============================================================================
