------------------------------ MODULE Checkout ------------------------------
(***************************************************************************)
(* Checkout requests (POST /billing/checkout): the first one creates the    *)
(* plans' products at the payment provider and records their ids in the     *)
(* table plans; then a session is opened that sells one plan's product, and *)
(* the provider's subscription event is resolved back to a plan.            *)
(* A request is one READ COMMITTED transaction that spans its calls to the  *)
(* provider; products the provider created outlive its rollback.            *)
(***************************************************************************)
EXTENDS Integers, Sequences, FiniteSets, SequencesExt

CONSTANTS
    NoProduct,  \* plans.dodo_product_id is NULL
    NoPlan,     \* resolved to no plan, or not yet bought
    Slugs,      \* the paid plans, in the order of SUBSCRIPTION_PRODUCTS
    Checkouts,  \* checkout requests
    MaxCheckoutFails    \* bound: how many requests fail at some step

Plans == ToSet(Slugs)

ASSUME CheckoutAssumption ==
    /\ Slugs \in Seq(Plans) /\ IsInjective(Slugs) /\ NoPlan \notin Plans
    /\ NoProduct \notin Nat /\ MaxCheckoutFails \in Nat

VARIABLES
    products,   \* the provider's products, the plan each is for; a product's
                \* id is its place
    recorded,   \* plans.dodo_product_id, as committed
    request,    \* the checkout requests
    granted,    \* the plan a bought subscription was given
    keptMeta,   \* history: did the bought event carry its metadata?
    overlapped, \* history: a request listed the products while another was
                \* creating them
    checkoutFails

checkout == <<products, recorded, request, granted, keptMeta, overlapped, checkoutFails>>

ProductIds == Nat \union {NoProduct}

CheckoutRequests ==
    [pc : {"new", "list", "create", "store", "pay", "commit", "paid", "bought", "failed"},
     slug : Plans \union {NoPlan}, found : [Plans -> ProductIds], unstored : Seq(Plans),
     wrote : SUBSET Plans, product : ProductIds]

CheckoutTypeOK ==
    /\ products \in Seq(Plans)
    /\ recorded \in [Plans -> ProductIds]
    /\ granted \in [Checkouts -> Plans \union {NoPlan}]
    /\ keptMeta \in [Checkouts -> BOOLEAN]
    /\ overlapped \in BOOLEAN /\ checkoutFails \in 0..MaxCheckoutFails
    /\ request \in [Checkouts -> CheckoutRequests]

NoneFound == [s \in Plans |-> NoProduct]

CheckoutInit ==
    /\ products = <<>>
    /\ recorded = NoneFound
    /\ request = [c \in Checkouts |->
                    [pc |-> "new", slug |-> NoPlan, found |-> NoneFound, unstored |-> <<>>,
                     wrote |-> {}, product |-> NoProduct]]
    /\ granted = [c \in Checkouts |-> NoPlan]
    /\ keptMeta = [c \in Checkouts |-> FALSE]
    /\ overlapped = FALSE
    /\ checkoutFails = 0

-----------------------------------------------------------------------------
\* The ids of a plan's products at the provider.
ProductsOf(s) == {i \in DOMAIN products : products[i] = s}

\* The request's plan is read: a plan without product starts the sync.
BeginCheckout(c, s) ==
    /\ request[c].pc = "new"
    /\ request' = [request EXCEPT ![c].slug = s, ![c].product = recorded[s],
                     ![c].pc = IF recorded[s] = NoProduct THEN "list" ELSE "pay"]
    /\ UNCHANGED <<products, recorded, granted, keptMeta, overlapped, checkoutFails>>

\* Mutant of ListProducts: the sync does not ask what is there.
ListNothing(c) ==
    /\ request[c].pc = "list"
    /\ request' = [request EXCEPT ![c].pc = "create"]
    /\ overlapped' = (overlapped \/ \E d \in Checkouts : request[d].pc = "create")
    /\ UNCHANGED <<products, recorded, granted, keptMeta, checkoutFails>>

\* products.list: one id for each plan that has a product, whichever the
\* provider lists last; the plans in the provider's order.
ListProducts(c) ==
    /\ request[c].pc = "list"
    /\ LET listed == {s \in Plans : ProductsOf(s) # {}} IN
       \E ids \in [listed -> DOMAIN products], order \in SetToSeqs(listed) :
         /\ \A s \in listed : ids[s] \in ProductsOf(s)
         /\ request' = [request EXCEPT ![c].pc = "create", ![c].unstored = order,
                          ![c].found = [s \in Plans |-> IF s \in listed THEN ids[s] ELSE NoProduct]]
    /\ overlapped' = (overlapped \/ \E d \in Checkouts : request[d].pc = "create")
    /\ UNCHANGED <<products, recorded, granted, keptMeta, checkoutFails>>

\* products.create for the first plan of the catalog that has none, or the
\* sync is done.
CreateProduct(c) ==
    LET missing == {i \in DOMAIN Slugs : request[c].found[Slugs[i]] = NoProduct} IN
    /\ request[c].pc = "create"
    /\ \/ /\ missing = {}
          /\ request' = [request EXCEPT ![c].pc = "store"]
          /\ UNCHANGED products
       \/ \E i \in missing :
            /\ \A j \in missing : i <= j
            /\ products' = Append(products, Slugs[i])
            /\ request' = [request EXCEPT ![c].found[Slugs[i]] = Len(products) + 1,
                             ![c].unstored = Append(@, Slugs[i])]
    /\ UNCHANGED <<recorded, granted, keptMeta, overlapped, checkoutFails>>

\* The plan's row is written by another request that has not ended.
LockedBy(d, c, s) == d # c /\ s \in request[d].wrote

\* c waits for a row that d holds.
WaitsFor(c, d) ==
    /\ request[c].pc = "store" /\ request[c].unstored # <<>>
    /\ LockedBy(d, c, Head(request[c].unstored))

\* set_dodo_product_id_by_slug, one UPDATE for each plan, which waits for the
\* row's lock; then the request's own plan is read again.
StoreId(c) ==
    /\ request[c].pc = "store" /\ \A d \in Checkouts : ~WaitsFor(c, d)
    /\ IF request[c].unstored = <<>>
         THEN request' = [request EXCEPT ![c].pc = "pay",
                            ![c].product = request[c].found[request[c].slug]]
         ELSE request' = [request EXCEPT ![c].unstored = Tail(@),
                            ![c].wrote = @ \union {Head(request[c].unstored)}]
    /\ UNCHANGED <<products, recorded, granted, keptMeta, overlapped, checkoutFails>>

\* create_checkout_session: the provider's session sells the product.
OpenSession(c) ==
    /\ request[c].pc = "pay"
    /\ request' = [request EXCEPT ![c].pc = "commit"]
    /\ UNCHANGED <<products, recorded, granted, keptMeta, overlapped, checkoutFails>>

\* The dependency commits the transaction, then the URL is sent.
CommitCheckout(c) ==
    /\ request[c].pc = "commit"
    /\ recorded' = [s \in Plans |-> IF s \in request[c].wrote THEN request[c].found[s]
                                    ELSE recorded[s]]
    /\ request' = [request EXCEPT ![c].pc = "paid", ![c].wrote = {}]
    /\ UNCHANGED <<products, granted, keptMeta, overlapped, checkoutFails>>

\* The request ends with an error: its ids are rolled back and its locks
\* released; the products it created stay at the provider.
RollbackCheckout(c) == request' = [request EXCEPT ![c].pc = "failed", ![c].wrote = {}]

\* A call to the provider or a statement raises (502, 500), at any step.
FailCheckout(c) ==
    /\ request[c].pc \in {"list", "create", "store", "pay", "commit"}
    /\ checkoutFails < MaxCheckoutFails
    /\ checkoutFails' = checkoutFails + 1
    /\ RollbackCheckout(c)
    /\ UNCHANGED <<products, recorded, granted, keptMeta, overlapped>>

\* Two requests that wait for each other's rows: the database aborts one.
AbortDeadlock(c) ==
    /\ \E d \in Checkouts : WaitsFor(c, d) /\ WaitsFor(d, c)
    /\ RollbackCheckout(c)
    /\ UNCHANGED <<products, recorded, granted, keptMeta, overlapped, checkoutFails>>

\* process_subscription_event: the plan named by the session's metadata,
\* else the plan with the product's id, else the event is skipped.
ResolvedPlan(slug, product, meta) ==
    LET byId == {s \in Plans : recorded[s] = product} IN
    IF meta THEN slug ELSE IF byId # {} THEN CHOOSE s \in byId : TRUE ELSE NoPlan

\* The customer pays, and the provider's event arrives, with its metadata or
\* without.
Buy(c) ==
    /\ request[c].pc = "paid"
    /\ \E meta \in BOOLEAN :
         /\ granted' = [granted EXCEPT ![c] = ResolvedPlan(request[c].slug, request[c].product, meta)]
         /\ keptMeta' = [keptMeta EXCEPT ![c] = meta]
    /\ request' = [request EXCEPT ![c].pc = "bought"]
    /\ UNCHANGED <<products, recorded, overlapped, checkoutFails>>

CheckoutSteps(c) ==
    \/ ListProducts(c)
    \/ CreateProduct(c)
    \/ StoreId(c)
    \/ OpenSession(c)
    \/ CommitCheckout(c)
    \/ AbortDeadlock(c)

CheckoutNext ==
    \E c \in Checkouts :
      \/ \E s \in Plans : BeginCheckout(c, s)
      \/ CheckoutSteps(c)
      \/ FailCheckout(c)
      \/ Buy(c)

CheckoutSpec == CheckoutInit /\ [][CheckoutNext]_checkout

-----------------------------------------------------------------------------
(* Properties *)

\* What a customer pays for is what the customer gets.  A session sells a
\* product of its plan; the product sync is idempotent, however many of its
\* runs failed half way: a plan has two products only if two first checkouts
\* overlapped.  A bought subscription is never given another plan, and goes
\* without a plan only when its event lost its metadata and an overlapping
\* checkout's product has replaced the one it was sold (create_checkout,
\* sync_subscription_products, process_subscription_event).
PaidPlanIsGranted ==
    /\ \A c \in Checkouts : request[c].pc \in {"commit", "paid", "bought"} =>
         /\ request[c].product \in DOMAIN products
         /\ products[request[c].product] = request[c].slug
    /\ ~overlapped => IsInjective(products)
    /\ \A c \in Checkouts : request[c].pc = "bought" =>
         \/ granted[c] = request[c].slug
         \/ granted[c] = NoPlan /\ overlapped /\ ~keptMeta[c]

\* A checkout that began is answered, whatever rows it waits for.
EveryCheckoutEnds ==
    \A c \in Checkouts : (request[c].pc = "list") ~> (request[c].pc \in {"paid", "bought", "failed"})

=============================================================================
