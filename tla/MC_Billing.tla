----------------------------- MODULE MC_Billing ----------------------------
(* The deliveries of a payment provider, the requests of a user and the     *)
(* checkouts, each checked on its own.                                      *)
(*                                                                          *)
(* Webhooks: one subscription that is started, renewed, at the same time put *)
(* on hold, and cancelled, and one whose event finds no user; two deliveries *)
(* at a time.                                                                *)
(* Usage: three requests of a user whose plan allows one upload and two     *)
(* words a day, over a midnight, with two pooled connections.               *)
(* Checkout: two checkouts of two plans that have no products yet, one of   *)
(* which may fail at any step.                                              *)
EXTENDS DodoWebhooks, UsageMetering, Checkout

CONSTANTS s1, s2, Parts

VARIABLE part

MCSizes == {1, 2}
MCAnswers == {0, 1, 3}
MCSubs == {s1, s2}

Event(id, sub, at, status, period_end, resolves) ==
    [id |-> id, sub |-> sub, at |-> at, status |-> status,
     period_end |-> period_end, resolves |-> resolves]

MCEvents == {Event("started", s1, 1, "active", 4, TRUE),
             Event("renewed", s1, 2, "active", 6, TRUE),
             Event("cancelled", s1, 3, "cancelled", None, TRUE),
             Event("no_user", s2, 1, "active", 5, FALSE),
             Event("on_hold", s1, 2, "on_hold", None, TRUE)}

MCSlugs == <<"plus_monthly", "pro_yearly">>

MCInit == part \in Parts /\ WebhooksInit /\ Init /\ CheckoutInit

MCNext ==
    \/ part = "webhooks" /\ WebhooksNext /\ UNCHANGED <<part, vars, checkout>>
    \/ part = "usage" /\ Next /\ UNCHANGED <<part, webhooks, checkout>>
    \/ part = "checkout" /\ CheckoutNext /\ UNCHANGED <<part, webhooks, vars>>

MCSpec == MCInit /\ [][MCNext]_<<part, webhooks, vars, checkout>>

\* The fairness of each part, which asks nothing while another part runs.
MCFairSpec ==
    /\ MCSpec
    /\ \A e \in Events : SF_webhooks(part = "webhooks" /\ Redelivered(e))
    /\ \A h \in Handlers : WF_webhooks(DeliverySteps(h))
    /\ MeteringFairness
    /\ \A c \in Checkouts : WF_checkout(CheckoutSteps(c))

\* Every part's variables keep their types.
BillingTypeOK == WebhooksTypeOK /\ TypeOK /\ CheckoutTypeOK

\* EveryEventTakesEffect, where there are events: in the end every event is
\* applied or a newer one is, although single deliveries fail (process_event).
DeliveredEventTakesEffect == part = "webhooks" => EveryEventTakesEffect

\* Nobody waits for ever: uploads and chats that share too few connections
\* end (upload_pdf), and so do checkouts that wait for each other's rows
\* (create_checkout).
EveryRequestIsAnswered ==
    /\ part = "usage" => EveryRequestEnds
    /\ part = "checkout" => EveryCheckoutEnds

=============================================================================
