--------------------------- MODULE DodoWebhooks ----------------------------
(***************************************************************************)
(* Deliveries of subscription events by the payment provider and what they *)
(* do to the tables dodo_webhook_events (the ledger) and subscriptions.    *)
(* Deliveries may be repeated, reordered and processed concurrently; each  *)
(* is handled in one READ COMMITTED transaction, whose statements are the  *)
(* actions.  A row a transaction inserted or updated is locked until that  *)
(* transaction ends.                                                       *)
(***************************************************************************)
EXTENDS Integers, FiniteSets

CONSTANTS
    None,
    Subs,       \* provider subscription ids
    Events,     \* what the provider sends: see EventAssumption
    Handlers,   \* requests the API serves at the same time
    MaxRollbacks    \* bound: how often processing an event raises

KeepPlanStatuses == {"active", "on_hold", "cancelled"}
SubStatuses == KeepPlanStatuses \union {"failed", "expired"}

SubRow == [status : SubStatuses, period_end : Nat \union {None}, last_webhook_at : Nat]

\* resolves: a user and a plan are found for the event.  period_end is None
\* when the payload has no next_billing_date.
ASSUME EventAssumption ==
    /\ IsFiniteSet(Events)
    /\ None \notin Int /\ None \notin SubRow /\ MaxRollbacks \in Nat
    /\ Events \subseteq [id : STRING, sub : Subs, at : Nat, status : SubStatuses,
                         period_end : Nat \union {None}, resolves : BOOLEAN]
    /\ \A e, f \in Events : e.id = f.id => e = f

VARIABLES
    ledger,    \* event ids whose transaction committed, all with status done
    subRow,    \* the subscription's row, or None
    delivery, \* the requests in progress
    rollbacks, \* transactions rolled back so far
    applied,   \* history: how often an event was written to its subscription
    raced      \* history: subscriptions written between another request's
               \* read and its write

webhooks == <<ledger, subRow, delivery, rollbacks, applied, raced>>

Idle == [pc |-> "idle", event |-> None, existing |-> None]

Deliveries ==
    {Idle} \union [pc : {"claim", "read", "upsert", "commit", "done"}, event : Events,
                   existing : SubRow \union {None}]

WebhooksTypeOK ==
    /\ ledger \subseteq {e.id : e \in Events}
    /\ subRow \in [Subs -> SubRow \union {None}]
    /\ delivery \in [Handlers -> Deliveries]
    /\ rollbacks \in 0..MaxRollbacks
    /\ applied \in [Events -> Nat]
    /\ raced \subseteq Subs

WebhooksInit ==
    /\ ledger = {}
    /\ subRow = [s \in Subs |-> None]
    /\ delivery = [h \in Handlers |-> Idle]
    /\ rollbacks = 0
    /\ applied = [e \in Events |-> 0]
    /\ raced = {}

-----------------------------------------------------------------------------
MoveTo(h, pc) == delivery' = [delivery EXCEPT ![h].pc = pc]

\* The event's ledger row is inserted and not yet committed by a request.
ClaimedBy(h, id) ==
    delivery[h].pc \in {"read", "upsert", "commit", "done"} /\ delivery[h].event.id = id

\* Mutant of IsStale: no ordering guard.
IsStaleNever(existing, e) == FALSE

\* timestamp <= last_webhook_at
IsStale(existing, e) == existing # None /\ e.at <= existing.last_webhook_at

\* Mutants of Upserted: the payload's period as it is; only a payload with a
\* period is given a timestamp.
UpsertedVerbatim(existing, e) ==
    [status |-> e.status, last_webhook_at |-> e.at, period_end |-> e.period_end]

UpsertedUndated(existing, e) ==
    [status |-> e.status, period_end |-> e.period_end,
     last_webhook_at |-> IF e.period_end = None THEN None ELSE e.at]

\* The row upsert_from_dodo writes: the billing period known at the read is
\* kept when the payload omits it.
Upserted(existing, e) ==
    [status |-> e.status, last_webhook_at |-> e.at,
     period_end |-> IF e.period_end # None THEN e.period_end
                    ELSE IF existing # None THEN existing.period_end ELSE None]

\* A verified delivery arrives: of any event, again or for the first time.
Receive(h, e) ==
    /\ delivery[h].pc = "idle"
    /\ delivery' = [delivery EXCEPT ![h] = [pc |-> "claim", event |-> e, existing |-> None]]
    /\ UNCHANGED <<ledger, subRow, rollbacks, applied, raced>>

\* Mutant of Claim: a SELECT, and the key is inserted only at the end.
ClaimUnlocked(h) ==
    /\ delivery[h].pc = "claim"
    /\ IF delivery[h].event.id \in ledger
         THEN delivery' = [delivery EXCEPT ![h] = Idle]
         ELSE MoveTo(h, "read")
    /\ UNCHANGED <<ledger, subRow, rollbacks, applied, raced>>

\* INSERT ... ON CONFLICT DO NOTHING: waits for a transaction that inserted
\* the same key, and ends the request if the key is there.
Claim(h) ==
    /\ delivery[h].pc = "claim"
    /\ \A g \in Handlers : ~ClaimedBy(g, delivery[h].event.id)
    /\ IF delivery[h].event.id \in ledger
         THEN delivery' = [delivery EXCEPT ![h] = Idle]
         ELSE MoveTo(h, "read")
    /\ UNCHANGED <<ledger, subRow, rollbacks, applied, raced>>

\* The user, the plan and the last known row are read; an event without
\* user or plan, or a stale one, is only recorded.
Read(h) ==
    LET e == delivery[h].event IN
    /\ delivery[h].pc = "read"
    /\ IF ~e.resolves \/ IsStale(subRow[e.sub], e)
         THEN MoveTo(h, "done")
         ELSE delivery' = [delivery EXCEPT ![h].pc = "upsert", ![h].existing = subRow[e.sub]]
    /\ UNCHANGED <<ledger, subRow, rollbacks, applied, raced>>

\* INSERT ... ON CONFLICT DO UPDATE: waits for the row's lock, then writes
\* the values computed from what was read.
Upsert(h) ==
    /\ delivery[h].pc = "upsert"
    /\ \A g \in Handlers : ~(delivery[g].pc = "commit" /\ delivery[g].event.sub = delivery[h].event.sub)
    /\ MoveTo(h, "commit")
    /\ UNCHANGED <<ledger, subRow, rollbacks, applied, raced>>

\* mark_done and commit: the ledger row and the subscription together.
Commit(h) ==
    LET e == delivery[h].event IN
    /\ delivery[h].pc \in {"commit", "done"}
    /\ ledger' = ledger \union {e.id}
    /\ IF delivery[h].pc = "commit"
         THEN /\ subRow' = [subRow EXCEPT ![e.sub] = Upserted(delivery[h].existing, e)]
              /\ applied' = [applied EXCEPT ![e] = @ + 1]
              /\ raced' = IF subRow[e.sub] # delivery[h].existing
                          THEN raced \union {e.sub} ELSE raced
         ELSE UNCHANGED <<subRow, applied, raced>>
    /\ delivery' = [delivery EXCEPT ![h] = Idle]
    /\ UNCHANGED rollbacks

\* Mutant of Rollback: the claim was committed on its own.
RollbackKeepingClaim(h) ==
    /\ delivery[h].pc \in {"read", "upsert", "commit", "done"} /\ rollbacks < MaxRollbacks
    /\ rollbacks' = rollbacks + 1
    /\ delivery' = [delivery EXCEPT ![h] = Idle]
    /\ ledger' = ledger \union {delivery[h].event.id}
    /\ UNCHANGED <<subRow, applied, raced>>

\* Any statement raises, or the process dies: the transaction is undone, and
\* the provider, which gets no 200, delivers the event again.
Rollback(h) ==
    /\ delivery[h].pc # "idle" /\ rollbacks < MaxRollbacks
    /\ rollbacks' = rollbacks + 1
    /\ delivery' = [delivery EXCEPT ![h] = Idle]
    /\ UNCHANGED <<ledger, subRow, applied, raced>>

WebhooksNext ==
    \E h \in Handlers :
      \/ \E e \in Events : Receive(h, e)
      \/ Claim(h)
      \/ Read(h)
      \/ Upsert(h)
      \/ Commit(h)
      \/ Rollback(h)

WebhooksSpec == WebhooksInit /\ [][WebhooksNext]_webhooks

\* The provider delivers an event until it is acknowledged; a delivery that
\* arrived runs on.
Redelivered(e) == \E h \in Handlers : Receive(h, e) /\ e.id \notin ledger

DeliverySteps(h) == Claim(h) \/ Read(h) \/ Upsert(h) \/ Commit(h)

WebhookFairness ==
    /\ \A e \in Events : SF_webhooks(Redelivered(e))
    /\ \A h \in Handlers : WF_webhooks(DeliverySteps(h))

WebhooksFairSpec == WebhooksSpec /\ WebhookFairness

-----------------------------------------------------------------------------
(* Entitlement: enforcement._subscription_entitles at time now *)
Entitles(r, now) ==
    /\ r.status \in KeepPlanStatuses
    /\ r.status = "active" \/ (r.period_end # None /\ r.period_end >= now)

-----------------------------------------------------------------------------
(* Properties *)

\* However often and however concurrently an event is delivered, it is
\* written to its subscription at most once, and only together with its
\* ledger row: a rolled back attempt leaves neither.
AppliedOnceWithItsLedgerRow ==
    \A e \in Events : applied[e] <= 1 /\ (applied[e] = 1 => e.id \in ledger)

\* In whatever order the events of a subscription arrive, its row is that of
\* the newest event handled so far, or of one of them when several are equally
\* new - unless two requests for it overlapped.
NewestEventWins ==
    \A s \in Subs \ raced :
      LET handled == {e \in Events : e.sub = s /\ e.resolves /\ e.id \in ledger} IN
      /\ subRow[s] = None <=> handled = {}
      /\ \A e \in handled : e.at <= subRow[s].last_webhook_at
      /\ handled # {} => \E e \in handled :
            e.at = subRow[s].last_webhook_at /\ e.status = subRow[s].status

\* A customer whose subscription is cancelled or on hold keeps the plan to
\* the end of the last period that was applied, although the cancellation
\* itself does not say when that is - unless two requests overlapped.
PaidPeriodIsKept ==
    \A e \in Events :
      /\ applied[e] > 0 /\ e.period_end # None /\ e.sub \notin raced
      /\ \A f \in Events : f.sub = e.sub /\ f.at > e.at /\ applied[f] > 0 => f.period_end = None
      /\ subRow[e.sub].status \in {"cancelled", "on_hold"}
      => \A now \in 0..e.period_end : Entitles(subRow[e.sub], now)

\* The events the provider keeps delivering all take effect in the end: each
\* is applied or a newer one is, failures of single deliveries
\* notwithstanding.
EveryEventTakesEffect ==
    <>\A e \in Events : e.resolves =>
        \E f \in Events : f.sub = e.sub /\ f.at >= e.at /\ applied[f] > 0

-----------------------------------------------------------------------------
(* What the code says of itself, and concurrent deliveries break *)

\* webhooks.py: "Strictly-newer events only".
OnlyNewerEventsAreApplied ==
    [][\A s \in Subs : subRow[s] # None /\ subRow'[s] # subRow[s]
         => subRow'[s].last_webhook_at > subRow[s].last_webhook_at]_webhooks

=============================================================================
