---------------------------- MODULE Billing_proofs ----------------------------
(***************************************************************************)
(* What is paid for is what is granted, for any catalog of plans and any    *)
(* number of checkouts that overlap, wait for each other and fail; the      *)
(* quotas that are granted are overrun by no more than the requests that    *)
(* overlap, and what the meters hold adds up to what the requests counted,  *)
(* for any limits and any number of requests and days. An event of the      *)
(* payment provider is applied once and with its ledger row, however many   *)
(* deliveries are handled at the same time and however often they fail,     *)
(* and, where requests for one subscription do not overlap, the newest      *)
(* event wins and the period that was paid is kept.                         *)
(***************************************************************************)
EXTENDS MC_Billing, FiniteSetTheorems, SequenceTheorems, WellFoundedInduction, TLAPS

-----------------------------------------------------------------------------
(* The checkout: inductive invariant *)

\* An id that was found or recorded for a plan is the id of one of its
\* products.
IdsInv ==
    \A s \in Plans :
      /\ recorded[s] # NoProduct => recorded[s] \in ProductsOf(s)
      /\ \A c \in Checkouts : request[c].found[s] # NoProduct => request[c].found[s] \in ProductsOf(s)

\* Where a request is with its sync: what it found is still to be stored or
\* written, and when it sells a product its plan has an id or is about to.
RequestInv ==
    \A c \in Checkouts :
      /\ request[c].pc # "new" => request[c].slug \in Plans
      /\ request[c].pc \in {"new", "list", "create"} => request[c].wrote = {}
      /\ request[c].pc = "create" =>
           \A s \in Plans : request[c].found[s] # NoProduct => s \in ToSet(request[c].unstored)
      /\ request[c].pc = "store" =>
           \A s \in Plans : /\ request[c].found[s] # NoProduct
                           /\ s \in ToSet(request[c].unstored) \union request[c].wrote
      /\ \A s \in request[c].wrote : request[c].found[s] # NoProduct
      /\ request[c].pc \in {"pay", "commit", "paid", "bought"} =>
           request[c].product \in ProductsOf(request[c].slug)
      /\ request[c].pc \in {"pay", "commit"} =>
           recorded[request[c].slug] # NoProduct \/ request[c].slug \in request[c].wrote
      /\ request[c].pc \in {"paid", "bought"} => recorded[request[c].slug] # NoProduct

\* While no request listed the products during another's sync, one request at
\* most creates products, and only for plans that have none.
AloneInv ==
    ~overlapped =>
      /\ \A c, d \in Checkouts : request[c].pc = "create" /\ request[d].pc = "create" => c = d
      /\ \A c \in Checkouts : request[c].pc = "create" =>
           \A s \in Plans : request[c].found[s] = NoProduct => ProductsOf(s) = {}
      /\ IsInjective(products)

GrantedInv ==
    \A c \in Checkouts : request[c].pc = "bought" =>
      \/ granted[c] = request[c].slug
      \/ granted[c] = NoPlan /\ overlapped /\ ~keptMeta[c]

CheckoutInv == CheckoutTypeOK /\ IdsInv /\ RequestInv /\ AloneInv /\ GrantedInv

-----------------------------------------------------------------------------
(* The checkout: lemmas *)

USE CheckoutAssumption DEF CheckoutAssumption

LEMMA CatalogType ==
    /\ Len(Slugs) \in Nat /\ DOMAIN Slugs = 1..Len(Slugs)
    /\ \A i \in DOMAIN Slugs : Slugs[i] \in Plans
    /\ \A s \in Plans : \E i \in DOMAIN Slugs : Slugs[i] = s
<1>1. Len(Slugs) \in Nat /\ DOMAIN Slugs = 1..Len(Slugs)
  OBVIOUS
<1> QED
  BY <1>1 DEF Plans, ToSet

LEMMA PlansFinite == IsFiniteSet(Plans)
<1>1. IsFiniteSet(DOMAIN Slugs)
  BY CatalogType, FS_Interval
<1>2. Slugs \in Surjection(DOMAIN Slugs, Plans)
  BY CatalogType DEF Surjection
<1> QED
  BY <1>1, <1>2, FS_Surjection

\* The provider's order of the listed plans has every one of them.
LEMMA OrderOfAll ==
    ASSUME NEW S \in SUBSET Plans, NEW order \in SetToSeqs(S)
    PROVE  order \in Seq(Plans) /\ ToSet(order) = S
<1> DEFINE n == Cardinality(S)
<1>1. IsFiniteSet(S) /\ n \in Nat
  BY PlansFinite, FS_Subset, FS_CardinalityType
<1>2. order \in [1..n -> S] /\ \A i, j \in 1..n : i # j => order[i] # order[j]
  BY DEF SetToSeqs
<1>3. Cardinality(1..n) = n
  BY <1>1, FS_Interval
<1>4. order \in Injection(1..n, S)
  BY <1>2 DEF Injection, IsInjective
<1>5. order \in Surjection(1..n, S)
  BY <1>1, <1>3, <1>4, FS_Injection
<1>6. \A s \in S : \E i \in 1..n : order[i] = s
  BY <1>5 DEF Surjection
<1>7. order \in Seq(Plans)
  BY <1>1, <1>2, SeqDef
<1> QED
  BY <1>2, <1>6, <1>7 DEF ToSet

LEMMA Types ==
    ASSUME CheckoutTypeOK
    PROVE  /\ products \in Seq(Plans) /\ Len(products) \in Nat /\ DOMAIN products = 1..Len(products)
           /\ recorded \in [Plans -> ProductIds]
           /\ request \in [Checkouts -> CheckoutRequests]
           /\ \A c \in Checkouts :
                /\ request[c] \in CheckoutRequests /\ request[c].found \in [Plans -> ProductIds]
                /\ request[c].slug \in Plans \union {NoPlan} /\ request[c].unstored \in Seq(Plans)
                /\ request[c].wrote \subseteq Plans /\ request[c].product \in ProductIds
  BY DEF CheckoutTypeOK, CheckoutRequests

\* A new product takes none of the ids there are.
LEMMA ProductAppended ==
    ASSUME NEW s \in Plans, products \in Seq(Plans), products' = Append(products, s)
    PROVE  /\ products' \in Seq(Plans) /\ Len(products') = Len(products) + 1
           /\ \A t \in Plans : ProductsOf(t) \subseteq ProductsOf(t)'
           /\ \A t \in Plans : t # s => ProductsOf(t)' = ProductsOf(t)
           /\ Len(products) + 1 \in ProductsOf(s)'
           /\ IsInjective(products) /\ ProductsOf(s) = {} => IsInjective(products')
<1>1. /\ Len(products) \in Nat /\ DOMAIN products = 1..Len(products)
      /\ products' \in Seq(Plans) /\ Len(products') = Len(products) + 1
      /\ DOMAIN products' = 1..(Len(products) + 1)
      /\ products'[Len(products) + 1] = s
      /\ \A i \in DOMAIN products : products'[i] = products[i]
  OBVIOUS
<1>2. Len(products) + 1 \notin DOMAIN products /\ DOMAIN products' = DOMAIN products \union {Len(products) + 1}
  BY <1>1
<1> QED
  BY <1>1, <1>2 DEF ProductsOf, IsInjective

LEMMA AppendedSet ==
    ASSUME NEW l \in Seq(Plans), NEW s \in Plans
    PROVE  ToSet(Append(l, s)) = ToSet(l) \union {s}
<1>1. /\ Len(l) \in Nat /\ DOMAIN l = 1..Len(l) /\ DOMAIN Append(l, s) = 1..(Len(l) + 1)
      /\ Append(l, s)[Len(l) + 1] = s /\ \A i \in 1..Len(l) : Append(l, s)[i] = l[i]
  OBVIOUS
<1>2. 1..(Len(l) + 1) = 1..Len(l) \union {Len(l) + 1}
  BY <1>1
<1> QED
  BY <1>1, <1>2 DEF ToSet

LEMMA SetOfTail ==
    ASSUME NEW l \in Seq(Plans), l # <<>>
    PROVE  ToSet(l) = ToSet(Tail(l)) \union {Head(l)}
<1>1. /\ Len(l) \in Nat \ {0} /\ DOMAIN l = 1..Len(l) /\ DOMAIN Tail(l) = 1..(Len(l) - 1)
      /\ l[1] = Head(l) /\ \A i \in 1..(Len(l) - 1) : Tail(l)[i] = l[i + 1]
  OBVIOUS
<1>2. \A i \in 1..Len(l) : i = 1 \/ (i - 1 \in 1..(Len(l) - 1) /\ (i - 1) + 1 = i)
  BY <1>1
<1>3. \A i \in 1..(Len(l) - 1) : i + 1 \in 1..Len(l)
  BY <1>1
<1>4. ToSet(l) \subseteq ToSet(Tail(l)) \union {Head(l)}
  <2>1. ASSUME NEW i \in DOMAIN l PROVE l[i] \in ToSet(Tail(l)) \union {Head(l)}
    <3>1. i # 1 => Tail(l)[i - 1] = l[i] /\ i - 1 \in DOMAIN Tail(l)
      BY <1>1, <1>2, <2>1
    <3> QED
      BY <1>1, <3>1 DEF ToSet
  <2> QED
    BY <2>1 DEF ToSet
<1>5. ToSet(Tail(l)) \union {Head(l)} \subseteq ToSet(l)
  BY <1>1, <1>3 DEF ToSet
<1> QED
  BY <1>4, <1>5

-----------------------------------------------------------------------------
(* The checkout: steps *)

\* ProductsOf is a matter of the products alone.
LEMMA SameProducts ==
    ASSUME UNCHANGED products
    PROVE  \A s : ProductsOf(s)' = ProductsOf(s)
  BY DEF ProductsOf

LEMMA BeginStep ==
    ASSUME CheckoutInv, NEW c \in Checkouts, NEW s \in Plans, BeginCheckout(c, s)
    PROVE  CheckoutInv'
<1> USE Types DEF CheckoutInv
<1>1. /\ request[c].pc = "new" /\ UNCHANGED <<products, recorded, granted, keptMeta, overlapped, checkoutFails>>
      /\ request' = [request EXCEPT ![c].slug = s, ![c].product = recorded[s],
                       ![c].pc = IF recorded[s] = NoProduct THEN "list" ELSE "pay"]
  BY DEF BeginCheckout
<1>2. /\ request' \in [Checkouts -> CheckoutRequests]
      /\ request'[c].slug = s /\ request'[c].product = recorded[s]
      /\ request'[c].pc = (IF recorded[s] = NoProduct THEN "list" ELSE "pay")
      /\ request'[c].found = request[c].found /\ request'[c].wrote = request[c].wrote
      /\ \A d \in Checkouts : d # c => request'[d] = request[d]
  BY <1>1 DEF CheckoutRequests
<1>3. \A t : ProductsOf(t)' = ProductsOf(t)
  BY <1>1, SameProducts
<1>4. CheckoutTypeOK'
  BY <1>1, <1>2 DEF CheckoutTypeOK
<1>5. IdsInv'
  BY <1>1, <1>2, <1>3 DEF IdsInv
<1>6. RequestInv'
  BY <1>1, <1>2, <1>3, SMTT(30) DEF RequestInv, IdsInv
<1>7. AloneInv'
  BY <1>1, <1>2, <1>3 DEF AloneInv
<1>8. GrantedInv'
  BY <1>1, <1>2 DEF GrantedInv
<1> QED
  BY <1>4, <1>5, <1>6, <1>7, <1>8

\* What is listed is found; a plan is found to have no product when it has
\* none, and has none until the request creates it, while it is alone.
LEMMA ListStep ==
    ASSUME CheckoutInv, NEW c \in Checkouts, ListProducts(c)
    PROVE  CheckoutInv'
<1> DEFINE listed == {s \in Plans : ProductsOf(s) # {}}
<1> USE Types DEF CheckoutInv
<1>1. PICK ids \in [listed -> DOMAIN products], order \in SetToSeqs(listed) :
         /\ \A s \in listed : ids[s] \in ProductsOf(s)
         /\ request' = [request EXCEPT ![c].pc = "create", ![c].unstored = order,
                          ![c].found = [s \in Plans |-> IF s \in listed THEN ids[s] ELSE NoProduct]]
  BY DEF ListProducts
<1>2. /\ request[c].pc = "list" /\ UNCHANGED <<products, recorded, granted, keptMeta, checkoutFails>>
  BY DEF ListProducts
<1>3. /\ overlapped' \in BOOLEAN
      /\ overlapped => overlapped'
      /\ ~overlapped' => \A d \in Checkouts : request[d].pc # "create"
  BY Zenon DEF ListProducts
<1> DEFINE found == [s \in Plans |-> IF s \in listed THEN ids[s] ELSE NoProduct]
<1>4. order \in Seq(Plans) /\ ToSet(order) = listed
  BY OrderOfAll
<1>5. /\ \A s \in Plans : found[s] # NoProduct => found[s] \in ProductsOf(s) /\ s \in listed
      /\ \A s \in Plans : found[s] = NoProduct => ProductsOf(s) = {}
      /\ found \in [Plans -> ProductIds]
  <2>1. \A s \in listed : ids[s] \in ProductsOf(s) /\ ids[s] \in Nat
    BY <1>1
  <2> QED
    BY <2>1 DEF ProductIds
<1>6. /\ request' \in [Checkouts -> CheckoutRequests]
      /\ request'[c].pc = "create" /\ request'[c].found = found /\ request'[c].unstored = order
      /\ request'[c].slug = request[c].slug /\ request'[c].wrote = request[c].wrote
      /\ \A d \in Checkouts : d # c => request'[d] = request[d]
  <2> HIDE DEF found, listed
  <2>1. request' = [request EXCEPT ![c].pc = "create", ![c].unstored = order, ![c].found = found]
    BY <1>1 DEF found, listed
  <2> QED
    BY <1>4, <1>5, <2>1, ZenonT(30) DEF CheckoutRequests
<1> HIDE DEF found
<1>7. \A t : ProductsOf(t)' = ProductsOf(t)
  BY <1>2, SameProducts
<1>8. CheckoutTypeOK'
  BY <1>2, <1>3, <1>6 DEF CheckoutTypeOK
<1>9. IdsInv'
  BY <1>2, <1>5, <1>6, <1>7 DEF IdsInv
<1>10. RequestInv'
  <2>1. request[c].wrote = {}
    BY <1>2 DEF RequestInv
  <2> QED
    BY <1>2, <1>4, <1>5, <1>6, <1>7, <2>1 DEF RequestInv
<1>11. AloneInv'
  BY <1>2, <1>3, <1>5, <1>6, <1>7 DEF AloneInv
<1>12. GrantedInv'
  BY <1>2, <1>3, <1>6 DEF GrantedInv
<1> QED
  BY <1>8, <1>9, <1>10, <1>11, <1>12

LEMMA OneRequest ==
    ASSUME NEW f \in [Checkouts -> CheckoutRequests], NEW c \in Checkouts, NEW r \in CheckoutRequests
    PROVE  /\ [f EXCEPT ![c] = r] \in [Checkouts -> CheckoutRequests]
           /\ \A d \in Checkouts : d # c => [f EXCEPT ![c] = r][d] = f[d]
  OBVIOUS

\* The plan that is created had no product, unless another request created
\* one meanwhile.
LEMMA CreateOneStep ==
    ASSUME CheckoutInv, NEW c \in Checkouts, NEW s \in Plans,
           request[c].pc = "create", request[c].found[s] = NoProduct,
           products' = Append(products, s),
           NEW n \in Nat, n = Len(products) + 1,
           request' = [request EXCEPT ![c].found[s] = n, ![c].unstored = Append(@, s)],
           UNCHANGED <<recorded, granted, keptMeta, overlapped, checkoutFails>>
    PROVE  CheckoutInv'
<1> DEFINE found == [request[c].found EXCEPT ![s] = n]
<1> USE Types DEF CheckoutInv
<1>1. /\ products' \in Seq(Plans) /\ Len(products') = n
      /\ \A t \in Plans : ProductsOf(t) \subseteq ProductsOf(t)'
      /\ \A t \in Plans : t # s => ProductsOf(t)' = ProductsOf(t)
      /\ n \in ProductsOf(s)'
      /\ IsInjective(products) /\ ProductsOf(s) = {} => IsInjective(products')
  BY ProductAppended
<1>2. request' = [request EXCEPT ![c].found = found, ![c].unstored = Append(@, s)]
  OBVIOUS
<1>3. found[s] = n /\ (\A t \in Plans : t # s => found[t] = request[c].found[t]) /\ found \in [Plans -> ProductIds]
  BY DEF ProductIds
<1> HIDE DEF found
<1>4. Append(request[c].unstored, s) \in Seq(Plans)
  OBVIOUS
<1>5. ToSet(Append(request[c].unstored, s)) = ToSet(request[c].unstored) \union {s}
  BY AppendedSet
<1>6. /\ request' \in [Checkouts -> CheckoutRequests]
      /\ request'[c].pc = "create" /\ request'[c].found = found
      /\ request'[c].unstored = Append(request[c].unstored, s)
      /\ request'[c].slug = request[c].slug /\ request'[c].wrote = request[c].wrote
      /\ \A d \in Checkouts : d # c => request'[d] = request[d]
  <2> DEFINE next == [request[c] EXCEPT !.found = found, !.unstored = Append(@, s)]
  <2>1. request' = [request EXCEPT ![c] = next]
    BY <1>2
  <2>2. next \in CheckoutRequests
    BY <1>3, <1>4 DEF CheckoutRequests
  <2>3. request'[c] = next
    BY <2>1
  <2>4. /\ next.pc = "create" /\ next.found = found /\ next.unstored = Append(request[c].unstored, s)
        /\ next.slug = request[c].slug /\ next.wrote = request[c].wrote
    BY DEF CheckoutRequests
  <2> HIDE DEF next
  <2>5. request' \in [Checkouts -> CheckoutRequests] /\ \A d \in Checkouts : d # c => request'[d] = request[d]
    <3>1. request \in [Checkouts -> CheckoutRequests]
      OBVIOUS
    <3>2. /\ [request EXCEPT ![c] = next] \in [Checkouts -> CheckoutRequests]
          /\ \A d \in Checkouts : d # c => [request EXCEPT ![c] = next][d] = request[d]
      BY <2>2, <3>1, OneRequest
    <3> QED
      BY <2>1, <3>2, Zenon
  <2> QED
    BY <2>3, <2>4, <2>5
<1>7. CheckoutTypeOK'
  BY <1>1, <1>6 DEF CheckoutTypeOK
<1>8. IdsInv'
  BY <1>1, <1>3, <1>6 DEF IdsInv
<1>9. RequestInv'
  <2>1. \A t \in Plans : found[t] # NoProduct => t \in ToSet(request'[c].unstored)
    BY <1>3, <1>5, <1>6, ZenonT(30) DEF RequestInv
  <2>2. request'[c].slug \in Plans /\ request'[c].wrote = {}
    BY <1>6 DEF RequestInv
  <2> QED
    BY <1>1, <1>6, <2>1, <2>2, SMTT(30) DEF RequestInv
<1>10. AloneInv'
  <2> SUFFICES ASSUME ~overlapped PROVE AloneInv'
    BY DEF AloneInv
  <2>1. \A d, e \in Checkouts : request'[d].pc = "create" /\ request'[e].pc = "create" => d = e
    BY <1>6 DEF AloneInv
  <2>2. ProductsOf(s) = {}
    BY DEF AloneInv
  <2>3. ASSUME NEW d \in Checkouts, request'[d].pc = "create", NEW t \in Plans, request'[d].found[t] = NoProduct
        PROVE  ProductsOf(t)' = {}
    <3>1. d = c
      BY <1>6, <2>1, <2>3
    <3>2. t # s
      BY <1>3, <1>6, <2>3, <3>1
    <3> QED
      BY <1>1, <1>3, <1>6, <2>3, <3>1, <3>2 DEF AloneInv
  <2> QED
    BY <1>1, <2>1, <2>2, <2>3 DEF AloneInv
<1>11. GrantedInv'
  BY <1>6 DEF GrantedInv
<1> QED
  BY <1>7, <1>8, <1>9, <1>10, <1>11

LEMMA CreateStep ==
    ASSUME CheckoutInv, NEW c \in Checkouts, CreateProduct(c)
    PROVE  CheckoutInv'
<1> DEFINE missing == {i \in DOMAIN Slugs : request[c].found[Slugs[i]] = NoProduct}
<1> USE Types DEF CheckoutInv
<1>1. /\ request[c].pc = "create"
      /\ UNCHANGED <<recorded, granted, keptMeta, overlapped, checkoutFails>>
      /\ \/ missing = {} /\ request' = [request EXCEPT ![c].pc = "store"] /\ UNCHANGED products
         \/ \E i \in missing : /\ products' = Append(products, Slugs[i])
                               /\ request' = [request EXCEPT ![c].found[Slugs[i]] = Len(products) + 1,
                                                ![c].unstored = Append(@, Slugs[i])]
  BY DEF CreateProduct
<1>2. request[c].pc = "create" /\ UNCHANGED <<recorded, granted, keptMeta, overlapped, checkoutFails>>
  BY <1>1
<1>3. CASE missing = {} /\ request' = [request EXCEPT ![c].pc = "store"] /\ UNCHANGED products
  <2>1. /\ request' \in [Checkouts -> CheckoutRequests]
        /\ request'[c].pc = "store" /\ request'[c].found = request[c].found
        /\ request'[c].unstored = request[c].unstored
        /\ request'[c].slug = request[c].slug /\ request'[c].wrote = request[c].wrote
        /\ \A d \in Checkouts : d # c => request'[d] = request[d]
    BY <1>3 DEF CheckoutRequests
  <2>2. \A t : ProductsOf(t)' = ProductsOf(t)
    BY <1>3, SameProducts
  <2>3. \A s \in Plans : request[c].found[s] # NoProduct
    BY <1>3, CatalogType
  <2> HIDE DEF missing
  <2>4. CheckoutTypeOK'
    BY <1>2, <1>3, <2>1 DEF CheckoutTypeOK
  <2>5. IdsInv'
    BY <1>2, <1>3, <2>1, <2>2 DEF IdsInv
  <2>6. RequestInv'
    BY <1>2, <1>3, <2>1, <2>2, <2>3 DEF RequestInv
  <2>7. AloneInv'
    BY <1>2, <1>3, <2>1, <2>2 DEF AloneInv
  <2>8. GrantedInv'
    BY <1>2, <2>1 DEF GrantedInv
  <2> QED
    BY <2>4, <2>5, <2>6, <2>7, <2>8
<1>4. ASSUME NEW i \in missing, products' = Append(products, Slugs[i]),
             request' = [request EXCEPT ![c].found[Slugs[i]] = Len(products) + 1,
                           ![c].unstored = Append(@, Slugs[i])]
      PROVE  CheckoutInv'
  <2>1. Slugs[i] \in Plans /\ request[c].found[Slugs[i]] = NoProduct
    BY CatalogType
  <2>2. Len(products) + 1 \in Nat
    OBVIOUS
  <2> HIDE DEF missing, CheckoutInv
  <2> QED
    BY <1>2, <1>4, <2>1, <2>2, CreateOneStep
<1> QED
  BY <1>1, <1>3, <1>4

LEMMA StoreStep ==
    ASSUME CheckoutInv, NEW c \in Checkouts, StoreId(c)
    PROVE  CheckoutInv'
<1> USE Types DEF CheckoutInv
<1>1. /\ request[c].pc = "store"
      /\ UNCHANGED <<products, recorded, granted, keptMeta, overlapped, checkoutFails>>
      /\ IF request[c].unstored = <<>>
           THEN request' = [request EXCEPT ![c].pc = "pay",
                              ![c].product = request[c].found[request[c].slug]]
           ELSE request' = [request EXCEPT ![c].unstored = Tail(@),
                              ![c].wrote = @ \union {Head(request[c].unstored)}]
  BY DEF StoreId
<1>2. request[c].pc = "store" /\ UNCHANGED <<products, recorded, granted, keptMeta, overlapped, checkoutFails>>
  BY <1>1
<1>3. \A t : ProductsOf(t)' = ProductsOf(t)
  BY <1>2, SameProducts
<1>4. request[c].slug \in Plans
  BY <1>2 DEF RequestInv
<1>5. CASE request[c].unstored = <<>>
  <2>1. /\ request' \in [Checkouts -> CheckoutRequests]
        /\ request'[c].pc = "pay" /\ request'[c].found = request[c].found
        /\ request'[c].product = request[c].found[request[c].slug]
        /\ request'[c].slug = request[c].slug /\ request'[c].wrote = request[c].wrote
        /\ \A d \in Checkouts : d # c => request'[d] = request[d]
    <3>1. request' = [request EXCEPT ![c].pc = "pay", ![c].product = request[c].found[request[c].slug]]
      BY <1>1, <1>5
    <3>2. request[c].found[request[c].slug] \in ProductIds
      BY <1>4
    <3> QED
      BY <3>1, <3>2, ZenonT(30) DEF CheckoutRequests
  <2>2. ToSet(request[c].unstored) = {}
    BY <1>5 DEF ToSet
  <2>3. CheckoutTypeOK'
    BY <1>2, <2>1 DEF CheckoutTypeOK
  <2>4. IdsInv'
    BY <1>2, <1>3, <2>1 DEF IdsInv
  <2>5. RequestInv'
    BY <1>2, <1>3, <1>4, <2>1, <2>2 DEF RequestInv, IdsInv
  <2>6. AloneInv'
    BY <1>2, <1>3, <2>1, ZenonT(30) DEF AloneInv
  <2>7. GrantedInv'
    BY <1>2, <2>1 DEF GrantedInv
  <2> QED
    BY <2>3, <2>4, <2>5, <2>6, <2>7
<1>6. CASE request[c].unstored # <<>>
  <2> DEFINE first == Head(request[c].unstored)
             rest == Tail(request[c].unstored)
  <2>1. first \in Plans /\ rest \in Seq(Plans)
    BY <1>6
  <2>2. ToSet(request[c].unstored) = ToSet(rest) \union {first}
    BY <1>6, SetOfTail
  <2>3. request' = [request EXCEPT ![c].unstored = rest, ![c].wrote = @ \union {first}]
    BY <1>1, <1>6
  <2> HIDE DEF first, rest
  <2>4. /\ request' \in [Checkouts -> CheckoutRequests]
        /\ request'[c].pc = "store" /\ request'[c].found = request[c].found
        /\ request'[c].unstored = rest /\ request'[c].wrote = request[c].wrote \union {first}
        /\ request'[c].slug = request[c].slug
        /\ \A d \in Checkouts : d # c => request'[d] = request[d]
    BY <1>2, <2>1, <2>3, ZenonT(30) DEF CheckoutRequests
  <2>5. CheckoutTypeOK'
    BY <1>2, <2>4 DEF CheckoutTypeOK
  <2>6. IdsInv'
    BY <1>2, <1>3, <2>4 DEF IdsInv
  <2>7. RequestInv'
    BY <1>2, <1>3, <1>4, <2>1, <2>2, <2>4 DEF RequestInv
  <2>8. AloneInv'
    BY <1>2, <1>3, <2>4, SMTT(30) DEF AloneInv
  <2>9. GrantedInv'
    BY <1>2, <2>4 DEF GrantedInv
  <2> QED
    BY <2>5, <2>6, <2>7, <2>8, <2>9
<1> QED
  BY <1>5, <1>6

LEMMA OpenStep ==
    ASSUME CheckoutInv, NEW c \in Checkouts, OpenSession(c)
    PROVE  CheckoutInv'
<1> USE Types DEF CheckoutInv
<1>1. /\ request[c].pc = "pay" /\ request' = [request EXCEPT ![c].pc = "commit"]
      /\ UNCHANGED <<products, recorded, granted, keptMeta, overlapped, checkoutFails>>
  BY DEF OpenSession
<1>2. /\ request' \in [Checkouts -> CheckoutRequests]
      /\ request'[c].pc = "commit" /\ request'[c].found = request[c].found
      /\ request'[c].wrote = request[c].wrote
      /\ request'[c].slug = request[c].slug /\ request'[c].product = request[c].product
      /\ \A d \in Checkouts : d # c => request'[d] = request[d]
  BY <1>1 DEF CheckoutRequests
<1>3. \A t : ProductsOf(t)' = ProductsOf(t)
  BY <1>1, SameProducts
<1>4. CheckoutTypeOK' /\ IdsInv'
  BY <1>1, <1>2, <1>3 DEF CheckoutTypeOK, IdsInv
<1>5. RequestInv'
  BY <1>1, <1>2, <1>3 DEF RequestInv
<1>6. AloneInv' /\ GrantedInv'
  BY <1>1, <1>2, <1>3 DEF AloneInv, GrantedInv
<1> QED
  BY <1>4, <1>5, <1>6

\* A recorded id may be replaced, never taken away.
LEMMA CommitStep ==
    ASSUME CheckoutInv, NEW c \in Checkouts, CommitCheckout(c)
    PROVE  CheckoutInv'
<1> USE Types DEF CheckoutInv
<1>1. /\ request[c].pc = "commit" /\ request' = [request EXCEPT ![c].pc = "paid", ![c].wrote = {}]
      /\ recorded' = [s \in Plans |-> IF s \in request[c].wrote THEN request[c].found[s] ELSE recorded[s]]
      /\ UNCHANGED <<products, granted, keptMeta, overlapped, checkoutFails>>
  BY DEF CommitCheckout
<1>2. /\ request' \in [Checkouts -> CheckoutRequests]
      /\ request'[c].pc = "paid" /\ request'[c].found = request[c].found /\ request'[c].wrote = {}
      /\ request'[c].slug = request[c].slug /\ request'[c].product = request[c].product
      /\ \A d \in Checkouts : d # c => request'[d] = request[d]
  BY <1>1, ZenonT(30) DEF CheckoutRequests
<1>3. /\ recorded' \in [Plans -> ProductIds]
      /\ \A s \in Plans : recorded'[s] = IF s \in request[c].wrote THEN request[c].found[s] ELSE recorded[s]
  BY <1>1
<1>4. \A s \in Plans : /\ recorded[s] # NoProduct => recorded'[s] # NoProduct
                       /\ s \in request[c].wrote => recorded'[s] # NoProduct
  BY <1>3 DEF RequestInv
<1>5. \A t : ProductsOf(t)' = ProductsOf(t)
  BY <1>1, SameProducts
<1>6. CheckoutTypeOK'
  BY <1>1, <1>2, <1>3 DEF CheckoutTypeOK
<1>7. IdsInv'
  BY <1>2, <1>3, <1>5 DEF IdsInv
<1>8. RequestInv'
  BY <1>1, <1>2, <1>4, <1>5, SMTT(30) DEF RequestInv
<1>9. AloneInv' /\ GrantedInv'
  BY <1>1, <1>2, <1>5 DEF AloneInv, GrantedInv
<1> QED
  BY <1>6, <1>7, <1>8, <1>9

LEMMA RollbackStep ==
    ASSUME CheckoutInv, NEW c \in Checkouts, FailCheckout(c) \/ AbortDeadlock(c)
    PROVE  CheckoutInv'
<1> USE Types DEF CheckoutInv
<1>1. /\ request[c].pc \in {"list", "create", "store", "pay", "commit"}
      /\ request' = [request EXCEPT ![c].pc = "failed", ![c].wrote = {}]
      /\ UNCHANGED <<products, recorded, granted, keptMeta, overlapped>>
      /\ checkoutFails' \in 0..MaxCheckoutFails
  BY SMTT(30) DEF FailCheckout, AbortDeadlock, RollbackCheckout, WaitsFor, CheckoutTypeOK
<1>2. /\ request' \in [Checkouts -> CheckoutRequests]
      /\ request'[c].pc = "failed" /\ request'[c].found = request[c].found /\ request'[c].wrote = {}
      /\ request'[c].slug = request[c].slug
      /\ \A d \in Checkouts : d # c => request'[d] = request[d]
  <2> DEFINE q == [request[c] EXCEPT !.pc = "failed", !.wrote = {}]
  <2>1. request' = [request EXCEPT ![c] = q]
    BY <1>1 DEF CheckoutTypeOK
  <2>2. request[c] \in CheckoutRequests
    BY DEF CheckoutTypeOK
  <2>3. /\ q \in CheckoutRequests /\ q.pc = "failed" /\ q.found = request[c].found /\ q.wrote = {}
        /\ q.slug = request[c].slug
    BY <2>2 DEF CheckoutRequests
  <2> HIDE DEF q
  <2> QED
    BY <2>1, <2>3 DEF CheckoutTypeOK
<1>3. \A t : ProductsOf(t)' = ProductsOf(t)
  BY <1>1, SameProducts
<1>4. CheckoutTypeOK' /\ IdsInv'
  BY <1>1, <1>2, <1>3 DEF CheckoutTypeOK, IdsInv
<1>5. RequestInv'
  BY <1>1, <1>2, <1>3 DEF RequestInv
<1>6. AloneInv' /\ GrantedInv'
  BY <1>1, <1>2, <1>3 DEF AloneInv, GrantedInv
<1> QED
  BY <1>4, <1>5, <1>6

\* An id is the id of one plan's product, so a plan found by the id is the one
\* that was sold; it is found if the id on record is still that product's,
\* which it is while the plan has no other.
LEMMA BuyStep ==
    ASSUME CheckoutInv, NEW c \in Checkouts, Buy(c)
    PROVE  CheckoutInv'
<1> DEFINE slug == request[c].slug
           product == request[c].product
<1> USE Types DEF CheckoutInv
<1>1. PICK meta \in BOOLEAN :
         /\ granted' = [granted EXCEPT ![c] = ResolvedPlan(slug, product, meta)]
         /\ keptMeta' = [keptMeta EXCEPT ![c] = meta]
  BY DEF Buy
<1>2. /\ request[c].pc = "paid" /\ request' = [request EXCEPT ![c].pc = "bought"]
      /\ UNCHANGED <<products, recorded, overlapped, checkoutFails>>
  BY DEF Buy
<1>3. /\ request' \in [Checkouts -> CheckoutRequests]
      /\ request'[c].pc = "bought" /\ request'[c].found = request[c].found
      /\ request'[c].wrote = request[c].wrote
      /\ request'[c].slug = slug /\ request'[c].product = product
      /\ \A d \in Checkouts : d # c => request'[d] = request[d]
  BY <1>2 DEF CheckoutRequests
<1>4. slug \in Plans /\ product \in ProductsOf(slug) /\ recorded[slug] # NoProduct
  BY <1>2 DEF RequestInv
<1>5. \/ ResolvedPlan(slug, product, meta) = slug
      \/ ResolvedPlan(slug, product, meta) = NoPlan /\ overlapped /\ ~meta
  <2> DEFINE byId == {s \in Plans : recorded[s] = product}
  <2>1. byId \subseteq {slug}
    <3>1. ASSUME NEW s \in Plans, recorded[s] = product PROVE s = slug
      <4>1. product # NoProduct
        BY <1>4 DEF ProductsOf
      <4>2. product \in ProductsOf(s)
        BY <3>1, <4>1 DEF IdsInv
      <4> QED
        BY <1>4, <4>2 DEF ProductsOf
    <3> QED
      BY <3>1
  <2>2. ~overlapped => slug \in byId
    <3>1. recorded[slug] \in ProductsOf(slug)
      BY <1>4 DEF IdsInv
    <3>2. ~overlapped => recorded[slug] = product
      BY <1>4, <3>1 DEF AloneInv, IsInjective, ProductsOf
    <3> QED
      BY <1>4, <3>2
  <2>3. ResolvedPlan(slug, product, meta) =
          IF meta THEN slug ELSE IF byId # {} THEN CHOOSE s \in byId : TRUE ELSE NoPlan
    BY DEF ResolvedPlan
  <2> HIDE DEF byId
  <2>4. byId # {} => (CHOOSE s \in byId : TRUE) = slug
    BY <2>1
  <2> QED
    BY <2>2, <2>3, <2>4
<1>6. granted' \in [Checkouts -> Plans \union {NoPlan}] /\ keptMeta' \in [Checkouts -> BOOLEAN]
  BY <1>1, <1>4, <1>5 DEF CheckoutTypeOK
<1>7. \A t : ProductsOf(t)' = ProductsOf(t)
  BY <1>2, SameProducts
<1>8. CheckoutTypeOK' /\ IdsInv'
  BY <1>2, <1>3, <1>6, <1>7 DEF CheckoutTypeOK, IdsInv
<1>9. RequestInv'
  BY <1>2, <1>3, <1>7 DEF RequestInv
<1>10. AloneInv'
  BY <1>2, <1>3, <1>7 DEF AloneInv
<1>11. GrantedInv'
  <2>1. /\ granted'[c] = ResolvedPlan(slug, product, meta) /\ keptMeta'[c] = meta
        /\ \A d \in Checkouts : d # c => granted'[d] = granted[d] /\ keptMeta'[d] = keptMeta[d]
    BY <1>1 DEF CheckoutTypeOK
  <2> QED
    BY <1>2, <1>3, <1>5, <2>1 DEF GrantedInv
<1> QED
  BY <1>8, <1>9, <1>10, <1>11

-----------------------------------------------------------------------------
(* The checkout: theorems *)

\* What the catalog rests on: while checkouts overlap, wait for each other and
\* fail, an id that is found, stored or on sale is one its plan is granted for.
THEOREM CheckoutInvariant == CheckoutSpec => []CheckoutInv
<1>1. CheckoutInit => CheckoutInv
  <2> SUFFICES ASSUME CheckoutInit PROVE CheckoutInv
    OBVIOUS
  <2>1. /\ products = <<>> /\ products \in Seq(Plans) /\ DOMAIN products = {}
        /\ recorded = NoneFound /\ NoneFound \in [Plans -> ProductIds]
        /\ \A s \in Plans : NoneFound[s] = NoProduct
    BY DEF CheckoutInit, NoneFound, ProductIds
  <2>2. /\ request \in [Checkouts -> CheckoutRequests]
        /\ \A c \in Checkouts : /\ request[c].pc = "new" /\ request[c].found = NoneFound
                                /\ request[c].wrote = {}
    BY <2>1 DEF CheckoutInit, CheckoutRequests, ProductIds
  <2>3. CheckoutTypeOK
    <3>1. granted \in [Checkouts -> Plans \union {NoPlan}] /\ keptMeta \in [Checkouts -> BOOLEAN]
      BY DEF CheckoutInit
    <3>2. overlapped = FALSE /\ checkoutFails = 0
      BY DEF CheckoutInit
    <3>3. recorded \in [Plans -> ProductIds] /\ products \in Seq(Plans)
      BY <2>1
    <3>4. overlapped \in BOOLEAN
      BY <3>2, Zenon
    <3>5. checkoutFails \in 0..MaxCheckoutFails
      BY <3>2
    <3> QED
      BY <2>2, <3>1, <3>3, <3>4, <3>5 DEF CheckoutTypeOK
  <2>4. IdsInv /\ RequestInv /\ GrantedInv
    BY <2>1, <2>2 DEF IdsInv, RequestInv, GrantedInv
  <2>5. AloneInv
    BY <2>1, <2>2 DEF AloneInv, IsInjective
  <2> QED
    BY <2>3, <2>4, <2>5 DEF CheckoutInv
<1>2. CheckoutInv /\ [CheckoutNext]_checkout => CheckoutInv'
  <2> SUFFICES ASSUME CheckoutInv, [CheckoutNext]_checkout PROVE CheckoutInv'
    OBVIOUS
  <2>1. ASSUME NEW c \in Checkouts, NEW s \in Plans, BeginCheckout(c, s) PROVE CheckoutInv'
    BY <2>1, BeginStep
  <2>2. ASSUME NEW c \in Checkouts, CheckoutSteps(c) PROVE CheckoutInv'
    <3>1. CASE ListProducts(c)
      BY <3>1, ListStep
    <3>2. CASE CreateProduct(c)
      BY <3>2, CreateStep
    <3>3. CASE StoreId(c)
      BY <3>3, StoreStep
    <3>4. CASE OpenSession(c)
      BY <3>4, OpenStep
    <3>5. CASE CommitCheckout(c)
      BY <3>5, CommitStep
    <3>6. CASE AbortDeadlock(c)
      BY <3>6, RollbackStep
    <3> QED
      BY <2>2, <3>1, <3>2, <3>3, <3>4, <3>5, <3>6 DEF CheckoutSteps
  <2>3. ASSUME NEW c \in Checkouts, FailCheckout(c) PROVE CheckoutInv'
    BY <2>3, RollbackStep
  <2>4. ASSUME NEW c \in Checkouts, Buy(c) PROVE CheckoutInv'
    BY <2>4, BuyStep
  <2>5. CASE UNCHANGED checkout
    <3>1. CheckoutTypeOK' /\ GrantedInv'
      BY <2>5 DEF checkout, CheckoutInv, CheckoutTypeOK, GrantedInv
    <3>2. IdsInv' /\ RequestInv' /\ AloneInv'
      BY <2>5, SameProducts DEF checkout, CheckoutInv, IdsInv, RequestInv, AloneInv
    <3> QED
      BY <3>1, <3>2 DEF CheckoutInv
  <2> QED
    BY <2>1, <2>2, <2>3, <2>4, <2>5 DEF CheckoutNext
<1> QED
  BY <1>1, <1>2, PTL DEF CheckoutSpec

\* Products, recorded ids and requests are values the tables and the provider
\* can hold (billing.py, dodo.py).
THEOREM CheckoutTypeCorrect == CheckoutSpec => []CheckoutTypeOK
<1>1. CheckoutInv => CheckoutTypeOK
  BY DEF CheckoutInv
<1> QED
  BY <1>1, CheckoutInvariant, PTL

\* For any catalog, any number of checkouts and of failures: a session sells a
\* product of its plan, a plan has two products only if two first checkouts
\* overlapped, and a bought subscription is never given another plan
\* (create_checkout, sync_subscription_products, process_subscription_event).
THEOREM PaidIsGranted == CheckoutSpec => []PaidPlanIsGranted
<1>1. CheckoutInv => PaidPlanIsGranted
  <2> SUFFICES ASSUME CheckoutInv PROVE PaidPlanIsGranted
    OBVIOUS
  <2>1. ASSUME NEW c \in Checkouts, request[c].pc \in {"commit", "paid", "bought"}
        PROVE  request[c].product \in DOMAIN products /\ products[request[c].product] = request[c].slug
    BY <2>1 DEF CheckoutInv, RequestInv, ProductsOf
  <2> QED
    BY <2>1 DEF CheckoutInv, AloneInv, GrantedInv, PaidPlanIsGranted
<1> QED
  BY <1>1, CheckoutInvariant, PTL

-----------------------------------------------------------------------------
(* The quotas: inductive invariant *)

HIDE CheckoutAssumption DEF CheckoutAssumption

Chatting == {r \in Requests : req[r].pc \in {"stream", "usage", "record"}}
Uploading == {r \in Requests : req[r].pc \in UploadHolds}

\* A meter that stands at v fits p quotas, and more: each of the requests S
\* that were let in may still add to it what was left of the quota when it
\* was (taken is what was gone), so one quota less for each but one.
Fits(p, v, S, taken, limit) ==
    /\ v <= p * limit
    /\ S # {} => \E r \in S : v <= (p - Cardinality(S)) * limit + taken[r]

Used == [r \in Requests |-> req[r].used]
Spared == [r \in Requests |-> BytesPerDay - req[r].size]

PeakInv == Cardinality(InProgress) <= peak

ComingDaysInv == \A d \in Days : d > today => meter[d] = [words |-> 0, uploads |-> 0, bytes |-> 0]

WordsInv ==
    ~Unlimited(WordsPerDay) =>
      /\ \A r \in Chatting : req[r].used < WordsPerDay /\ req[r].words <= WordsPerDay - req[r].used
      /\ \A d \in Days : meter[d].words <= peak * WordsPerDay
      /\ Fits(peak, meter[today].words, Chatting, Used, WordsPerDay)

BytesInv ==
    ~Unlimited(BytesPerDay) =>
      /\ \A r \in Uploading : req[r].size <= BytesPerDay
      /\ \A d \in Days : meter[d].bytes <= peak * BytesPerDay
      /\ Fits(peak, meter[today].bytes, Uploading, Spared, BytesPerDay)

\* Uploads on the meter of a day, and those that will be on it.
Counts(d) == meter[d].uploads + (IF d = today THEN Cardinality(Uploading) ELSE 0)

UploadsInv ==
    ~Unlimited(UploadsPerDay) =>
      \A d \in Days : Counts(d) = 0 \/ (UploadsPerDay > 0 /\ peak > 0 /\ Counts(d) <= UploadsPerDay + peak - 1)

\* What a request in state q has left behind when it comes to each step, and
\* that it counts no words before it is let in.
Stored(q, w) ==
    /\ q.pc = "check" => q.words = 0
    /\ q.pc = "status" => "blob" \in w
    /\ q.pc = "owner" => {"blob", "row"} \subseteq w
    /\ q.pc = "meter" => {"blob", "row", "owner"} \subseteq w
    /\ q.pc \in {"stream", "usage", "record"} => q.kind = "chat"
    /\ q.pc = "answered" /\ q.kind = "upload" => {"blob", "row", "owner"} \subseteq w

StoredInv == \A r \in Requests : Stored(req[r], wrote[r])

MeteringInv ==
    /\ TypeOK /\ PeakInv /\ ComingDaysInv
    /\ WordsInv /\ BytesInv /\ UploadsInv /\ StoredInv

USE PlanAssumption DEF PlanAssumption

-----------------------------------------------------------------------------
(* The quotas: arithmetic *)

LEMMA MoreQuotas ==
    ASSUME NEW a \in Nat, NEW b \in Nat, NEW limit \in Nat, a <= b
    PROVE  a * limit \in Nat /\ b * limit \in Nat /\ a * limit <= b * limit
<1> DEFINE c == b - a
<1>1. c \in Nat /\ b = a + c
  OBVIOUS
<1> HIDE DEF c
<1>2. (a + c) * limit = a * limit + c * limit
  BY <1>1
<1>3. a * limit \in Nat /\ c * limit \in Nat
  BY <1>1
<1> QED
  BY <1>1, <1>2, <1>3

LEMMA OneMoreQuota ==
    ASSUME NEW a \in Nat, NEW limit \in Nat
    PROVE  (a + 1) * limit = a * limit + limit
  OBVIOUS

LEMMA MaxOfTwo ==
    ASSUME NEW a \in Int, NEW b \in Int
    PROVE  Max({a, b}) = (IF a >= b THEN a ELSE b) /\ Min({a, b}) = (IF a <= b THEN a ELSE b)
<1>1. \A x \in {a, b} : (\A y \in {a, b} : x >= y) => x = IF a >= b THEN a ELSE b
  OBVIOUS
<1>2. \A x \in {a, b} : (\A y \in {a, b} : x <= y) => x = IF a <= b THEN a ELSE b
  OBVIOUS
<1>3. \E x \in {a, b} : \A y \in {a, b} : x >= y
  OBVIOUS
<1>4. \E x \in {a, b} : \A y \in {a, b} : x <= y
  OBVIOUS
<1>5. Max({a, b}) = IF a >= b THEN a ELSE b
  BY <1>1, <1>3 DEF Max
<1>6. Min({a, b}) = IF a <= b THEN a ELSE b
  BY <1>2, <1>4 DEF Min
<1> QED
  BY <1>5, <1>6

\* No more counts than the quota had left.
LEMMA CountedFits ==
    ASSUME NEW words \in Nat, NEW used \in Nat
    PROVE  /\ Counted(words, used) \in Nat
           /\ ~Unlimited(WordsPerDay) /\ used < WordsPerDay => Counted(words, used) <= WordsPerDay - used
<1>1. CASE Unlimited(WordsPerDay)
  BY <1>1 DEF Counted
<1>2. CASE ~Unlimited(WordsPerDay)
  <2> DEFINE left == Max({0, WordsPerDay - used})
  <2>1. left = IF 0 >= WordsPerDay - used THEN 0 ELSE WordsPerDay - used
    BY MaxOfTwo
  <2>2. left \in Nat /\ (used < WordsPerDay => left = WordsPerDay - used)
    BY <2>1
  <2> HIDE DEF left
  <2>3. Min({words, left}) = IF words <= left THEN words ELSE left
    <3>1. words \in Int /\ left \in Int
      BY <2>2
    <3> QED
      BY <3>1, MaxOfTwo, Zenon
  <2>4. Counted(words, used) = Min({words, left})
    BY <1>2 DEF Counted, left
  <2> QED
    BY <2>2, <2>3, <2>4
<1> QED
  BY <1>1, <1>2

\* A request is let in while something is left of the quota.
LEMMA FitsOneMore ==
    ASSUME NEW limit \in Nat, NEW p \in Nat, NEW S, IsFiniteSet(S), NEW r, r \notin S,
           Cardinality(S) + 1 <= p, NEW v \in Nat, NEW taken, taken[r] \in Nat,
           v <= taken[r], v <= p * limit
    PROVE  Fits(p, v, S \union {r}, taken, limit)
<1>1. Cardinality(S \union {r}) = Cardinality(S) + 1 /\ Cardinality(S) \in Nat
  BY FS_AddElement, FS_CardinalityType
<1>2. p - (Cardinality(S) + 1) \in Nat
  BY <1>1
<1>3. (p - (Cardinality(S) + 1)) * limit \in Nat
  BY <1>2, MoreQuotas
<1> QED
  BY <1>1, <1>3 DEF Fits

\* A request leaves, having added no more than was left at its check.
LEMMA FitsOneLess ==
    ASSUME NEW limit \in Nat, NEW p \in Nat, NEW S, IsFiniteSet(S), Cardinality(S) <= p,
           NEW r \in S, NEW v \in Nat, NEW w \in Nat, NEW taken, NEW now,
           \A x \in S : taken[x] \in 0..limit, \A x \in S \ {r} : now[x] = taken[x],
           Fits(p, v, S, taken, limit), w <= v + (limit - taken[r])
    PROVE  Fits(p, w, S \ {r}, now, limit)
<1> DEFINE n == Cardinality(S)
<1>1. n \in Nat /\ n >= 1 /\ Cardinality(S \ {r}) = n - 1
  <2>1. n \in Nat /\ Cardinality(S \ {r}) = n - 1
    BY FS_RemoveElement, FS_CardinalityType
  <2>2. n # 0
    BY FS_EmptySet
  <2> QED
    BY <2>1, <2>2
<1> HIDE DEF n
<1>2. p - n \in Nat /\ p - (n - 1) = (p - n) + 1
  BY <1>1 DEF n
<1> DEFINE k == (p - n) * limit
<1>3. k \in Nat /\ (p - (n - 1)) * limit = k + limit
  BY <1>2, OneMoreQuota, MoreQuotas
<1>4. k + limit <= p * limit /\ p * limit \in Nat
  BY <1>1, <1>2, <1>3, MoreQuotas
<1>5. PICK m \in S : v <= k + taken[m]
  BY DEF Fits, n
<1> HIDE DEF k
<1>6. taken[m] \in 0..limit /\ taken[r] \in 0..limit
  OBVIOUS
<1>7. CASE m = r
  <2>1. w <= k + limit
    BY <1>3, <1>5, <1>6, <1>7
  <2>2. ASSUME NEW x \in S \ {r} PROVE w <= k + limit + now[x]
    <3>1. now[x] = taken[x] /\ taken[x] \in 0..limit
      OBVIOUS
    <3> QED
      BY <1>3, <2>1, <3>1
  <2> QED
    BY <1>1, <1>3, <1>4, <2>1, <2>2 DEF Fits
<1>8. CASE m # r
  <2>1. now[m] = taken[m] /\ w <= k + limit + now[m]
    BY <1>3, <1>5, <1>6, <1>8
  <2>2. w <= p * limit
    <3>1. n >= 2
      <4>1. S \ {r} # {} /\ IsFiniteSet(S \ {r})
        BY <1>8, FS_RemoveElement
      <4>2. Cardinality(S \ {r}) # 0 
        BY <4>1, FS_EmptySet
      <4> QED
        BY <1>1, <4>2
    <3>2. (p - (n - 1)) + 1 <= p /\ (p - (n - 1)) \in Nat
      BY <1>1, <1>2, <3>1
    <3>3. ((p - (n - 1)) + 1) * limit = (k + limit) + limit
      BY <1>3, <3>2, OneMoreQuota
    <3>4. ((p - (n - 1)) + 1) * limit <= p * limit
      BY <3>2, MoreQuotas
    <3> QED
      BY <1>3, <1>4, <1>6, <2>1, <3>3, <3>4
  <2> QED
    BY <1>1, <1>3, <1>8, <2>1, <2>2 DEF Fits
<1> QED
  BY <1>7, <1>8

\* Nothing happens to the meter, more requests may be in progress.
LEMMA FitsStill ==
    ASSUME NEW limit \in Nat, NEW p \in Nat, NEW q \in Nat, p <= q, NEW S, IsFiniteSet(S),
           Cardinality(S) <= p, NEW v \in Nat, NEW taken, NEW now,
           \A x \in S : taken[x] \in 0..limit /\ now[x] = taken[x], Fits(p, v, S, taken, limit)
    PROVE  Fits(q, v, S, now, limit)
<1>1. Cardinality(S) \in Nat
  BY FS_CardinalityType
<1>2. p * limit <= q * limit /\ p * limit \in Nat /\ q * limit \in Nat
  BY MoreQuotas
<1>3. p - Cardinality(S) \in Nat /\ q - Cardinality(S) \in Nat /\ p - Cardinality(S) <= q - Cardinality(S)
  BY <1>1
<1>4. /\ (p - Cardinality(S)) * limit <= (q - Cardinality(S)) * limit
      /\ (p - Cardinality(S)) * limit \in Nat /\ (q - Cardinality(S)) * limit \in Nat
  BY <1>3, MoreQuotas
<1>5. S # {} => \E r \in S : v <= (q - Cardinality(S)) * limit + now[r]
  <2> SUFFICES ASSUME S # {} PROVE \E r \in S : v <= (q - Cardinality(S)) * limit + now[r]
    OBVIOUS
  <2>1. PICK r \in S : v <= (p - Cardinality(S)) * limit + taken[r]
    BY DEF Fits
  <2>2. now[r] = taken[r] /\ taken[r] \in 0..limit
    OBVIOUS
  <2>3. v <= (q - Cardinality(S)) * limit + now[r]
    BY <1>4, <2>1, <2>2
  <2> QED
    BY <2>3
<1> QED
  BY <1>2, <1>5 DEF Fits

\* A new day, a new meter.
LEMMA FitsAnew ==
    ASSUME NEW limit \in Nat, NEW p \in Nat, NEW S, IsFiniteSet(S), Cardinality(S) <= p,
           NEW taken, \A x \in S : taken[x] \in 0..limit
    PROVE  Fits(p, 0, S, taken, limit)
<1>1. Cardinality(S) \in Nat /\ p - Cardinality(S) \in Nat
  BY FS_CardinalityType
<1>2. p * limit \in Nat /\ (p - Cardinality(S)) * limit \in Nat
  BY <1>1, MoreQuotas
<1>3. \A x \in S : 0 <= (p - Cardinality(S)) * limit + taken[x]
  BY <1>2
<1> QED
  BY <1>2, <1>3 DEF Fits

\* The same with more requests in progress, one of which may have left.
LEMMA FitsNext ==
    ASSUME NEW limit \in Nat, NEW p \in Nat, NEW q \in Nat, p <= q, NEW S, IsFiniteSet(S),
           Cardinality(S) <= p, NEW v \in Nat, NEW taken, NEW now, NEW r, NEW T,
           T = S \/ (r \in S /\ T = S \ {r}),
           \A x \in S : taken[x] \in 0..limit, \A x \in T : now[x] = taken[x],
           Fits(p, v, S, taken, limit)
    PROVE  Fits(q, v, T, now, limit)
<1>1. CASE T = S
  BY <1>1, FitsStill
<1>2. CASE r \in S /\ T = S \ {r}
  <2>1. v <= v + (limit - taken[r])
    <3>1. taken[r] \in 0..limit
      BY <1>2
    <3> QED
      BY <3>1
  <2>2. Fits(p, v, T, now, limit)
    BY <1>2, <2>1, FitsOneLess
  <2>3. IsFiniteSet(T) /\ Cardinality(T) <= p
    <3>1. IsFiniteSet(S \ {r}) /\ Cardinality(S \ {r}) = Cardinality(S) - 1 /\ Cardinality(S) \in Nat
      BY <1>2, FS_RemoveElement, FS_CardinalityType
    <3> QED
      BY <1>2, <3>1
  <2>4. \A x \in T : now[x] \in 0..limit
    BY <1>2
  <2> QED
    BY <2>2, <2>3, <2>4, FitsStill
<1> QED
  BY <1>1, <1>2

-----------------------------------------------------------------------------
(* The quotas: steps *)

LEMMA MeteringTypes ==
    ASSUME TypeOK
    PROVE  /\ today \in Nat /\ today <= LastDay /\ today \in Days /\ meter \in [Days -> Meters]
           /\ \A d \in Days : /\ d \in Nat /\ meter[d].words \in Nat /\ meter[d].uploads \in Nat
                              /\ meter[d].bytes \in Nat
           /\ req \in [Requests -> RequestStates]
           /\ \A r \in Requests : /\ req[r] \in RequestStates /\ req[r].used \in Nat /\ req[r].words \in Nat
                                  /\ req[r].size \in Nat
           /\ wrote \in [Requests -> SUBSET {"blob", "row", "owner"}]
           /\ fails \in 0..MaxFails /\ peak \in Nat /\ peak <= Cardinality(Requests)
           /\ Cardinality(Requests) \in Nat
<1>1. \A d \in Days : meter[d] \in Meters
  BY DEF TypeOK
<1>2. \A r \in Requests : req[r] \in RequestStates
  BY DEF TypeOK
<1>3. \A d \in Days : /\ d \in Nat /\ meter[d].words \in Nat /\ meter[d].uploads \in Nat
                      /\ meter[d].bytes \in Nat
  BY <1>1 DEF Meters, Days
<1>4. \A q \in RequestStates : q.used \in Nat /\ q.words \in Nat /\ q.size \in Nat
  <2>1. \A q \in RequestStates : q.used \in Nat /\ q.words \in Nat /\ q.size \in Sizes \union {0}
    BY DEF RequestStates
  <2>2. \A n \in Sizes \union {0} : n \in Nat
    OBVIOUS
  <2> QED
    BY <2>1, <2>2
<1>5. Cardinality(Requests) \in Nat
  BY FS_CardinalityType
<1> QED
  BY <1>2, <1>3, <1>4, <1>5 DEF TypeOK, Days

\* How many requests are where.
LEMMA InProgressSizes ==
    /\ IsFiniteSet(InProgress) /\ IsFiniteSet(Chatting) /\ IsFiniteSet(Uploading)
    /\ Cardinality(InProgress) \in Nat /\ Cardinality(Chatting) \in Nat /\ Cardinality(Uploading) \in Nat
    /\ Cardinality(Chatting) <= Cardinality(InProgress)
    /\ Cardinality(Uploading) <= Cardinality(InProgress)
    /\ Cardinality(InProgress) <= Cardinality(Requests)
<1>1. Chatting \subseteq InProgress /\ Uploading \subseteq InProgress /\ InProgress \subseteq Requests
  BY DEF Chatting, Uploading, InProgress, UploadHolds, Ended
<1>2. IsFiniteSet(InProgress) /\ Cardinality(InProgress) <= Cardinality(Requests)
  BY <1>1, FS_Subset
<1>3. /\ IsFiniteSet(Chatting) /\ IsFiniteSet(Uploading)
      /\ Cardinality(Chatting) <= Cardinality(InProgress)
      /\ Cardinality(Uploading) <= Cardinality(InProgress)
  BY <1>1, <1>2, FS_Subset
<1> QED
  BY <1>2, <1>3, FS_CardinalityType

\* Request r comes into state q.
Becomes(r, q) == q \in RequestStates /\ req' = [req EXCEPT ![r] = q]

Chats(q) == q.pc \in {"stream", "usage", "record"}
Uploads(q) == q.pc \in UploadHolds
Runs(q) == q.pc \notin Ended \union {"new"}

LEMMA BecomesSets ==
    ASSUME TypeOK, NEW r \in Requests, NEW q, Becomes(r, q)
    PROVE  /\ req' \in [Requests -> RequestStates] /\ req'[r] = q
           /\ \A x \in Requests : x # r => req'[x] = req[x]
           /\ InProgress' = IF Runs(q) THEN InProgress \union {r} ELSE InProgress \ {r}
           /\ Chatting' = IF Chats(q) THEN Chatting \union {r} ELSE Chatting \ {r}
           /\ Uploading' = IF Uploads(q) THEN Uploading \union {r} ELSE Uploading \ {r}
<1>1. /\ req' \in [Requests -> RequestStates] /\ req'[r] = q
      /\ \A x \in Requests : x # r => req'[x] = req[x]
  BY DEF Becomes, TypeOK
<1>2. InProgress' = IF Runs(q) THEN InProgress \union {r} ELSE InProgress \ {r}
  BY <1>1 DEF InProgress, Runs
<1>3. Chatting' = IF Chats(q) THEN Chatting \union {r} ELSE Chatting \ {r}
  BY <1>1 DEF Chatting, Chats
<1>4. Uploading' = IF Uploads(q) THEN Uploading \union {r} ELSE Uploading \ {r}
  BY <1>1 DEF Uploading, Uploads
<1> QED
  BY <1>1, <1>2, <1>3, <1>4

\* Nobody starts, and the peak stays; or one starts, and the peak sees it.
LEMMA PeakStep ==
    ASSUME TypeOK, PeakInv, NEW r \in Requests, NEW q, Becomes(r, q),
           peak' = peak, Runs(q) => Runs(req[r])
    PROVE  PeakInv'
<1>1. InProgress' \subseteq InProgress
  BY BecomesSets DEF InProgress, Runs
<1>2. Cardinality(InProgress') <= Cardinality(InProgress) /\ Cardinality(InProgress') \in Nat
  BY <1>1, InProgressSizes, FS_Subset, FS_CardinalityType
<1> QED
  BY <1>2, InProgressSizes, MeteringTypes DEF PeakInv

LEMMA StoredStep ==
    ASSUME TypeOK, StoredInv, NEW r \in Requests, NEW q, Becomes(r, q),
           \A x \in Requests : x # r => wrote'[x] = wrote[x], Stored(q, wrote'[r])
    PROVE  StoredInv'
<1>1. req'[r] = q /\ \A x \in Requests : x # r => req'[x] = req[x]
  BY BecomesSets
<1>2. ASSUME NEW x \in Requests PROVE Stored(req'[x], wrote'[x])
  <2>1. CASE x = r
    BY <1>1, <2>1, Zenon
  <2>2. CASE x # r
    <3>1. Stored(req[x], wrote[x]) /\ req'[x] = req[x] /\ wrote'[x] = wrote[x]
      BY <1>1, <2>2 DEF StoredInv
    <3> QED
      BY <3>1, Zenon
  <2> QED
    BY <2>1, <2>2
<1> QED
  BY <1>2 DEF StoredInv

\* The words on the meter stay, and nobody starts to chat.
LEMMA WordsStay ==
    ASSUME TypeOK, PeakInv, WordsInv, NEW r \in Requests, NEW q, Becomes(r, q),
           peak' \in Nat, peak <= peak', today' = today, \A d \in Days : meter'[d].words = meter[d].words,
           Chats(q) => /\ Chats(req[r]) /\ q.used = req[r].used
                       /\ ~Unlimited(WordsPerDay) => q.words <= WordsPerDay - q.used
    PROVE  WordsInv'
<1> SUFFICES ASSUME ~Unlimited(WordsPerDay)
             PROVE  /\ \A x \in Chatting' : /\ req'[x].used < WordsPerDay
                                            /\ req'[x].words <= WordsPerDay - req'[x].used
                    /\ \A d \in Days : meter'[d].words <= peak' * WordsPerDay
                    /\ Fits(peak', meter[today].words, Chatting', Used', WordsPerDay)
  <2>1. meter'[today'].words = meter[today].words
    BY MeteringTypes
  <2> QED
    BY <2>1 DEF WordsInv, Unlimited, Fits
<1>1. WordsPerDay \in Nat
  BY DEF Unlimited
<1>2. Chatting' = Chatting \/ (r \in Chatting /\ Chatting' = Chatting \ {r})
  BY BecomesSets DEF Chatting, Chats
<1>3. \A x \in Chatting' : x \in Requests /\ x \in Chatting /\ req'[x].used = req[x].used
  BY <1>2, BecomesSets DEF Chatting, Chats
<1>4. ASSUME NEW x \in Chatting' PROVE /\ req'[x].used < WordsPerDay
                                       /\ req'[x].words <= WordsPerDay - req'[x].used
  <2>1. x \in Chatting /\ req[x].used < WordsPerDay /\ req[x].words <= WordsPerDay - req[x].used
    BY <1>3 DEF WordsInv
  <2>2. CASE x # r
    BY <1>3, <2>1, <2>2, BecomesSets
  <2>3. CASE x = r
    <3>1. req'[x] = q /\ Chats(q)
      BY <2>3, BecomesSets DEF Chatting, Chats
    <3> QED
      BY <1>3, <2>1, <2>3, <3>1
  <2> QED
    BY <2>2, <2>3
<1>5. ASSUME NEW d \in Days PROVE meter'[d].words <= peak' * WordsPerDay
  <2>1. meter[d].words <= peak * WordsPerDay /\ meter[d].words \in Nat
    BY MeteringTypes DEF WordsInv
  <2>2. peak * WordsPerDay <= peak' * WordsPerDay /\ peak * WordsPerDay \in Nat /\ peak' * WordsPerDay \in Nat
    BY <1>1, MeteringTypes, MoreQuotas
  <2> QED
    BY <2>1, <2>2
<1>6. Fits(peak', meter[today].words, Chatting', Used', WordsPerDay)
  <2>1. \A x \in Chatting : Used[x] \in 0..WordsPerDay
    BY MeteringTypes DEF WordsInv, Used, Chatting
  <2>2. \A x \in Chatting' : Used'[x] = Used[x]
    BY <1>3 DEF Used
  <2>3. Fits(peak, meter[today].words, Chatting, Used, WordsPerDay)
    BY DEF WordsInv
  <2>4. IsFiniteSet(Chatting) /\ Cardinality(Chatting) <= peak
    BY InProgressSizes, MeteringTypes DEF PeakInv
  <2>5. peak \in Nat /\ meter[today].words \in Nat
    BY MeteringTypes
  <2> HIDE DEF Used
  <2> QED
    BY <1>1, <1>2, <2>1, <2>2, <2>3, <2>4, <2>5, FitsNext
<1> QED
  BY <1>4, <1>5, <1>6

\* The bytes on the meter stay, and nobody starts to upload.
LEMMA BytesStay ==
    ASSUME TypeOK, PeakInv, BytesInv, NEW r \in Requests, NEW q, Becomes(r, q),
           peak' \in Nat, peak <= peak', today' = today, \A d \in Days : meter'[d].bytes = meter[d].bytes,
           Uploads(q) => Uploads(req[r]) /\ q.size = req[r].size
    PROVE  BytesInv'
<1> SUFFICES ASSUME ~Unlimited(BytesPerDay)
             PROVE  /\ \A x \in Uploading' : req'[x].size <= BytesPerDay
                    /\ \A d \in Days : meter'[d].bytes <= peak' * BytesPerDay
                    /\ Fits(peak', meter[today].bytes, Uploading', Spared', BytesPerDay)
  <2>1. meter'[today'].bytes = meter[today].bytes
    BY MeteringTypes
  <2> QED
    BY <2>1 DEF BytesInv, Unlimited, Fits
<1>1. BytesPerDay \in Nat
  BY DEF Unlimited
<1>2. Uploading' = Uploading \/ (r \in Uploading /\ Uploading' = Uploading \ {r})
  BY BecomesSets DEF Uploading, Uploads
<1>3. \A x \in Uploading' : x \in Requests /\ x \in Uploading /\ req'[x].size = req[x].size
  BY <1>2, BecomesSets DEF Uploading, Uploads
<1>4. \A x \in Uploading : req[x].size <= BytesPerDay
  BY DEF BytesInv
<1>5. ASSUME NEW d \in Days PROVE meter'[d].bytes <= peak' * BytesPerDay
  <2>1. meter[d].bytes <= peak * BytesPerDay /\ meter[d].bytes \in Nat
    BY MeteringTypes DEF BytesInv
  <2>2. peak * BytesPerDay <= peak' * BytesPerDay /\ peak * BytesPerDay \in Nat /\ peak' * BytesPerDay \in Nat
    BY <1>1, MeteringTypes, MoreQuotas
  <2> QED
    BY <2>1, <2>2
<1>6. Fits(peak', meter[today].bytes, Uploading', Spared', BytesPerDay)
  <2>1. \A x \in Uploading : Spared[x] \in 0..BytesPerDay
    <3>1. ASSUME NEW x \in Uploading PROVE Spared[x] \in 0..BytesPerDay
      <4>1. x \in Requests /\ req[x].size \in Nat /\ req[x].size <= BytesPerDay
        BY <1>4, MeteringTypes DEF Uploading
      <4> QED
        BY <1>1, <4>1 DEF Spared
    <3> QED
      BY <3>1
  <2>2. \A x \in Uploading' : Spared'[x] = Spared[x]
    BY <1>3 DEF Spared
  <2>3. Fits(peak, meter[today].bytes, Uploading, Spared, BytesPerDay)
    BY DEF BytesInv
  <2>4. IsFiniteSet(Uploading) /\ Cardinality(Uploading) <= peak
    BY InProgressSizes, MeteringTypes DEF PeakInv
  <2>5. peak \in Nat /\ meter[today].bytes \in Nat
    BY MeteringTypes
  <2> HIDE DEF Spared
  <2> QED
    BY <1>1, <1>2, <2>1, <2>2, <2>3, <2>4, <2>5, FitsNext
<1> QED
  BY <1>3, <1>4, <1>5, <1>6

\* The number of uploads on the meter stays, and nobody starts to upload.
LEMMA UploadsStay ==
    ASSUME TypeOK, UploadsInv, NEW r \in Requests, NEW q, Becomes(r, q),
           peak' \in Nat, peak <= peak', today' = today, \A d \in Days : meter'[d].uploads = meter[d].uploads,
           Uploads(q) => Uploads(req[r])
    PROVE  UploadsInv'
<1>1. Uploading' \subseteq Uploading
  BY BecomesSets DEF Uploading, Uploads
<1>2. /\ Cardinality(Uploading') \in Nat /\ Cardinality(Uploading) \in Nat
      /\ Cardinality(Uploading') <= Cardinality(Uploading)
  BY <1>1, InProgressSizes, FS_Subset, FS_CardinalityType
<1> SUFFICES ASSUME ~Unlimited(UploadsPerDay), NEW d \in Days
             PROVE  Counts(d)' = 0 \/ (UploadsPerDay > 0 /\ peak' > 0 /\ Counts(d)' <= UploadsPerDay + peak' - 1)
  BY DEF UploadsInv, Unlimited
<1>3. Counts(d)' \in Nat /\ Counts(d) \in Nat /\ Counts(d)' <= Counts(d)
  BY <1>2, MeteringTypes DEF Counts
<1>4. Counts(d) = 0 \/ (UploadsPerDay > 0 /\ peak > 0 /\ Counts(d) <= UploadsPerDay + peak - 1)
  BY DEF UploadsInv
<1> QED
  BY <1>3, <1>4, MeteringTypes

\* A request goes on or ends, and the meter stays.
LEMMA QuietStep ==
    ASSUME MeteringInv, NEW r \in Requests, NEW q, Becomes(r, q), UNCHANGED <<meter, today, peak>>,
           fails' \in 0..MaxFails, wrote' \in [Requests -> SUBSET {"blob", "row", "owner"}],
           Runs(q) => Runs(req[r]),
           Chats(q) => /\ Chats(req[r]) /\ q.used = req[r].used
                       /\ ~Unlimited(WordsPerDay) => q.words <= WordsPerDay - q.used,
           Uploads(q) => Uploads(req[r]) /\ q.size = req[r].size,
           \A x \in Requests : x # r => wrote'[x] = wrote[x], Stored(q, wrote'[r])
    PROVE  MeteringInv'
<1> USE DEF MeteringInv
<1>1. peak' \in Nat /\ peak <= peak' /\ today' = today /\ meter' = meter
  BY MeteringTypes
<1>2. TypeOK'
  BY BecomesSets DEF TypeOK
<1>3. PeakInv'
  BY PeakStep
<1>4. ComingDaysInv'
  BY DEF ComingDaysInv
<1>5. WordsInv'
  BY <1>1, WordsStay
<1>6. BytesInv'
  BY <1>1, BytesStay
<1>7. UploadsInv'
  BY <1>1, UploadsStay
<1>8. StoredInv'
  BY StoredStep
<1> QED
  BY <1>2, <1>3, <1>4, <1>5, <1>6, <1>7, <1>8

LEMMA EndState ==
    ASSUME NEW pc \in Ended
    PROVE  /\ [New EXCEPT !.pc = pc] \in RequestStates /\ [New EXCEPT !.pc = pc].pc = pc
           /\ [New EXCEPT !.pc = pc].kind = Null
  BY DEF New, RequestStates

\* A request that is over.
LEMMA EndStep ==
    ASSUME MeteringInv, NEW r \in Requests, NEW pc \in {"refused", "failed"}, End(r, pc),
           UNCHANGED <<meter, today, wrote, peak>>, fails' \in 0..MaxFails
    PROVE  MeteringInv'
<1> DEFINE q == [New EXCEPT !.pc = pc]
<1>1. q \in RequestStates /\ q.pc = pc
  BY EndState DEF Ended
<1>2. Becomes(r, q)
  BY <1>1 DEF End, Becomes
<1> HIDE DEF q
<1>3. ~Runs(q) /\ ~Chats(q) /\ ~Uploads(q)
  BY <1>1 DEF Runs, Chats, Uploads, Ended, UploadHolds
<1>4. Stored(q, wrote'[r])
  BY <1>1 DEF Stored
<1>5. wrote' \in [Requests -> SUBSET {"blob", "row", "owner"}]
  BY MeteringTypes DEF MeteringInv
<1> QED
  BY <1>2, <1>3, <1>4, <1>5, QuietStep

\* A request goes on to pc.
LEMMA GotoState ==
    ASSUME TypeOK, NEW r \in Requests,
           NEW pc \in {"new", "check", "stream", "usage", "record"} \union UploadHolds \union Ended
    PROVE  /\ [req[r] EXCEPT !.pc = pc] \in RequestStates
           /\ [req[r] EXCEPT !.pc = pc].pc = pc /\ [req[r] EXCEPT !.pc = pc].kind = req[r].kind
           /\ [req[r] EXCEPT !.pc = pc].size = req[r].size /\ [req[r] EXCEPT !.pc = pc].used = req[r].used
           /\ [req[r] EXCEPT !.pc = pc].words = req[r].words
           /\ Goto(r, pc) => Becomes(r, [req[r] EXCEPT !.pc = pc])
<1>1. req[r] \in RequestStates
  BY MeteringTypes
<1>2. \A q \in RequestStates :
        /\ [q EXCEPT !.pc = pc] \in RequestStates
        /\ [q EXCEPT !.pc = pc].pc = pc /\ [q EXCEPT !.pc = pc].kind = q.kind
        /\ [q EXCEPT !.pc = pc].size = q.size /\ [q EXCEPT !.pc = pc].used = q.used
        /\ [q EXCEPT !.pc = pc].words = q.words
  BY DEF RequestStates
<1>3. Goto(r, pc) => req' = [req EXCEPT ![r] = [req[r] EXCEPT !.pc = pc]]
  BY DEF Goto
<1> QED
  BY <1>1, <1>2, <1>3 DEF Becomes

LEMMA ArriveStep ==
    ASSUME MeteringInv, NEW r \in Requests, NEW kind \in {"upload", "chat"}, NEW size \in Sizes \union {0},
           Arrive(r, kind, size)
    PROVE  MeteringInv'
<1> USE DEF MeteringInv
<1> DEFINE q == [New EXCEPT !.pc = "check", !.kind = kind, !.size = size]
<1>1. q \in RequestStates /\ q.pc = "check" /\ q.words = 0
  BY DEF New, RequestStates
<1>2. Becomes(r, q) /\ req[r].pc = "new"
  BY <1>1 DEF Arrive, Becomes
<1> HIDE DEF q
<1>3. UNCHANGED <<meter, today, wrote, fails>>
  BY DEF Arrive
<1>4. ~Chats(q) /\ ~Uploads(q) /\ Runs(q)
  BY <1>1 DEF Chats, Uploads, Runs, Ended, UploadHolds
<1>5. InProgress' = InProgress \union {r} /\ r \notin InProgress
  BY <1>2, <1>4, BecomesSets DEF InProgress
<1>6. Cardinality(InProgress') = Cardinality(InProgress) + 1 /\ Cardinality(InProgress') <= Cardinality(Requests)
  <2>1. Cardinality(InProgress \union {r}) = Cardinality(InProgress) + 1
    BY <1>5, InProgressSizes, FS_AddElement
  <2>2. InProgress \union {r} \subseteq Requests
    BY DEF InProgress
  <2>3. Cardinality(InProgress \union {r}) <= Cardinality(Requests)
    BY <2>2, FS_Subset
  <2> QED
    BY <1>5, <2>1, <2>3, Zenon
<1>7. peak' = IF peak >= Cardinality(InProgress) + 1 THEN peak ELSE Cardinality(InProgress) + 1
  <2>1. peak \in Int /\ Cardinality(InProgress) + 1 \in Int
    BY InProgressSizes, MeteringTypes
  <2>2. peak' = Max({peak, Cardinality(InProgress) + 1})
    BY DEF Arrive
  <2> QED
    BY <2>1, <2>2, MaxOfTwo, Zenon
<1>8. peak' \in Nat /\ peak <= peak' /\ Cardinality(InProgress') <= peak' /\ peak' <= Cardinality(Requests)
  BY <1>6, <1>7, InProgressSizes, MeteringTypes
<1>9. TypeOK'
  <2>1. peak' \in 0..Cardinality(Requests)
    BY <1>8, MeteringTypes
  <2> QED
    BY <1>2, <1>3, <2>1, BecomesSets DEF TypeOK
<1>10. PeakInv' /\ ComingDaysInv'
  BY <1>3, <1>8 DEF PeakInv, ComingDaysInv
<1>11. WordsInv'
  BY <1>2, <1>3, <1>4, <1>8, WordsStay
<1>12. BytesInv'
  BY <1>2, <1>3, <1>4, <1>8, BytesStay
<1>13. UploadsInv'
  BY <1>2, <1>3, <1>4, <1>8, UploadsStay
<1>14. StoredInv'
  <2>1. Stored(q, wrote'[r])
    BY <1>1 DEF Stored
  <2> QED
    BY <1>2, <1>3, <2>1, StoredStep
<1> QED
  BY <1>9, <1>10, <1>11, <1>12, <1>13, <1>14

LEMMA RefusedStep ==
    ASSUME MeteringInv, NEW r \in Requests, RefusedOtherwise(r) \/ PoolTimeout(r) \/ Fail(r)
    PROVE  MeteringInv'
<1>1. /\ End(r, "refused") \/ End(r, "failed")
      /\ UNCHANGED <<meter, today, wrote, peak>>
  BY DEF RefusedOtherwise, PoolTimeout, Fail
<1>2. fails' \in 0..MaxFails
  <2>1. fails' = fails \/ (fails < MaxFails /\ fails' = fails + 1)
    BY DEF RefusedOtherwise, PoolTimeout, Fail
  <2> QED
    BY <2>1, MeteringTypes DEF MeteringInv
<1> QED
  BY <1>1, <1>2, EndStep

\* A request takes its connection back for the next write.
LEMMA UploadWritesStep ==
    ASSUME MeteringInv, NEW r \in Requests, SavePdf(r) \/ QueueRow(r) \/ RecordOwner(r)
    PROVE  MeteringInv'
<1>1. PICK to \in {<<"save", "status", "blob">>, <<"status", "owner", "row">>, <<"owner", "meter", "owner">>} :
        /\ req[r].pc = to[1] /\ Goto(r, to[2]) /\ wrote' = [wrote EXCEPT ![r] = @ \union {to[3]}]
        /\ UNCHANGED <<meter, today, fails, peak>>
  BY DEF SavePdf, QueueRow, RecordOwner
<1> DEFINE q == [req[r] EXCEPT !.pc = to[2]]
<1>2. q.pc = to[2] /\ q.size = req[r].size /\ q.kind = req[r].kind /\ Becomes(r, q)
  BY <1>1, GotoState DEF MeteringInv, UploadHolds
<1> HIDE DEF q
<1>3. /\ wrote[r] \subseteq {"blob", "row", "owner"} /\ wrote'[r] = wrote[r] \union {to[3]}
      /\ wrote' \in [Requests -> SUBSET {"blob", "row", "owner"}]
      /\ \A x \in Requests : x # r => wrote'[x] = wrote[x]
  BY <1>1, MeteringTypes DEF MeteringInv
<1>4. Stored(q, wrote'[r])
  BY <1>1, <1>2, <1>3 DEF Stored, MeteringInv, StoredInv
<1>5. ~Chats(q) /\ Uploads(req[r]) /\ Runs(req[r])
  BY <1>1, <1>2 DEF Chats, Uploads, Runs, UploadHolds, Ended
<1>6. fails' \in 0..MaxFails
  BY <1>1, MeteringTypes DEF MeteringInv
<1> QED
  BY <1>1, <1>2, <1>3, <1>4, <1>5, <1>6, QuietStep

\* The stream of a chat.
LEMMA StreamStep ==
    ASSUME MeteringInv, NEW r \in Requests,
           (\E words \in Answers : Answer(r, words)) \/ ShowUsage(r) \/ Disconnect(r)
    PROVE  MeteringInv'
<1> USE DEF MeteringInv
<1>1. UNCHANGED <<meter, today, wrote, fails, peak>> /\ Chats(req[r]) /\ Runs(req[r])
  BY DEF Answer, ShowUsage, Disconnect, Chats, Runs, Ended
<1>2. CASE End(r, "failed")
  <2>1. fails' \in 0..MaxFails
    BY <1>1, MeteringTypes
  <2> QED
    BY <1>1, <1>2, <2>1, EndStep
<1>3. ASSUME NEW q, Becomes(r, q), ~Uploads(q), q.used = req[r].used, q.kind = req[r].kind,
             q.pc \in {"answered", "usage", "record"},
             ~Unlimited(WordsPerDay) => q.words <= WordsPerDay - q.used
      PROVE  MeteringInv'
  <2>1. req[r].kind = "chat"
    BY <1>1 DEF StoredInv, Stored, Chats
  <2>2. Stored(q, wrote'[r])
    BY <1>3, <2>1 DEF Stored
  <2>3. fails' \in 0..MaxFails /\ wrote' \in [Requests -> SUBSET {"blob", "row", "owner"}]
    BY <1>1, MeteringTypes
  <2> QED
    BY <1>1, <1>3, <2>2, <2>3, QuietStep
<1>4. req[r] \in RequestStates /\ req[r].used \in Nat /\ req[r].words \in Nat
  BY MeteringTypes
<1>5. ~Unlimited(WordsPerDay) => req[r].used < WordsPerDay /\ req[r].words <= WordsPerDay - req[r].used
  BY <1>1 DEF WordsInv, Chatting, Chats
<1>6. ASSUME NEW words \in Answers, Answer(r, words) PROVE MeteringInv'
  <2> DEFINE c == Counted(words, req[r].used)
             pc == IF words = 0 THEN "answered" ELSE "usage"
             q == [req[r] EXCEPT !.words = c, !.pc = pc]
  <2>1. c \in Nat /\ (~Unlimited(WordsPerDay) => c <= WordsPerDay - req[r].used)
    BY <1>4, <1>5, CountedFits
  <2> HIDE DEF c
  <2>2. /\ q \in RequestStates /\ q.words = c /\ q.used = req[r].used /\ q.kind = req[r].kind
        /\ q.pc \in {"answered", "usage"}
    <3>1. pc \in {"answered", "usage"}
      OBVIOUS
    <3> HIDE DEF pc
    <3> QED
      BY <1>4, <2>1, <3>1 DEF RequestStates, Ended
  <2>3. req' = [req EXCEPT ![r] = q]
    BY <1>6 DEF Answer, c
  <2> HIDE DEF q
  <2> QED
    BY <1>3, <2>1, <2>2, <2>3 DEF Becomes, Uploads, UploadHolds
<1>7. ASSUME ShowUsage(r) PROVE MeteringInv'
  <2> DEFINE s == req[r].used + req[r].words
             q == [req[r] EXCEPT !.pc = "record", !.shown = s]
  <2>1. s \in Nat
    BY <1>4
  <2>2. req' = [req EXCEPT ![r] = q]
    BY <1>7 DEF ShowUsage
  <2> HIDE DEF s
  <2>3. /\ q \in RequestStates /\ q.words = req[r].words /\ q.used = req[r].used /\ q.kind = req[r].kind
        /\ q.pc = "record"
    BY <1>4, <2>1 DEF RequestStates
  <2> HIDE DEF q
  <2> QED
    BY <1>3, <1>5, <2>2, <2>3 DEF Becomes, Uploads, UploadHolds
<1>8. ASSUME Disconnect(r), Goto(r, "record") PROVE MeteringInv'
  <2> DEFINE q == [req[r] EXCEPT !.pc = "record"]
  <2>1. /\ Becomes(r, q) /\ q.words = req[r].words /\ q.used = req[r].used /\ q.kind = req[r].kind
        /\ q.pc = "record"
    BY <1>8, GotoState
  <2> HIDE DEF q
  <2> QED
    BY <1>3, <1>5, <2>1 DEF Uploads, UploadHolds
<1> QED
  BY <1>2, <1>6, <1>7, <1>8 DEF Disconnect

LEMMA UploadCheckStep ==
    ASSUME MeteringInv, NEW r \in Requests, UploadCheck(r)
    PROVE  MeteringInv'
<1> USE DEF MeteringInv
<1>1. UNCHANGED <<meter, today, wrote, fails, peak>> /\ req[r].pc = "check" /\ req[r].kind = "upload"
  BY DEF UploadCheck
<1>2. CASE ~UploadLeft(meter[today], req[r].size)
  <2>1. End(r, "refused") /\ fails' \in 0..MaxFails
    BY <1>1, <1>2, MeteringTypes DEF UploadCheck
  <2> QED
    BY <1>1, <2>1, EndStep
<1>3. CASE UploadLeft(meter[today], req[r].size)
  <2> DEFINE q == [req[r] EXCEPT !.pc = "save"]
  <2>1. Becomes(r, q) /\ q.pc = "save" /\ q.size = req[r].size
    BY <1>3, GotoState DEF UploadCheck, UploadHolds
  <2> HIDE DEF q
  <2>2. ~Chats(q) /\ Uploads(q) /\ Runs(q) /\ Runs(req[r]) /\ ~Uploads(req[r])
    BY <1>1, <2>1 DEF Chats, Uploads, Runs, Ended, UploadHolds
  <2>3. Uploading' = Uploading \union {r} /\ r \notin Uploading /\ r \in InProgress
    BY <2>1, <2>2, BecomesSets DEF Uploading, Uploads, InProgress, Runs
  <2>4. Cardinality(Uploading) + 1 <= peak /\ Cardinality(Uploading') = Cardinality(Uploading) + 1
    <3>1. IsFiniteSet(Uploading \union {r}) /\ Cardinality(Uploading \union {r}) = Cardinality(Uploading) + 1
      BY <2>3, InProgressSizes, FS_AddElement
    <3>2. Uploading \union {r} \subseteq InProgress
      BY <2>3 DEF Uploading, InProgress, UploadHolds, Ended
    <3>3. Cardinality(Uploading \union {r}) <= Cardinality(InProgress)
      BY <3>2, InProgressSizes, FS_Subset
    <3>4. Cardinality(Uploading) + 1 <= peak
      BY <3>1, <3>3, InProgressSizes, MeteringTypes DEF PeakInv
    <3> QED
      BY <2>3, <3>1, <3>4, Zenon
  <2>5. TypeOK' /\ PeakInv' /\ ComingDaysInv'
    <3>1. TypeOK'
      BY <1>1, <2>1, BecomesSets DEF TypeOK
    <3>2. PeakInv'
      BY <1>1, <2>1, <2>2, PeakStep
    <3> QED
      BY <1>1, <3>1, <3>2 DEF ComingDaysInv
  <2>6. WordsInv'
    <3>1. peak' \in Nat /\ peak <= peak'
      BY <1>1, MeteringTypes
    <3> QED
      BY <1>1, <2>1, <2>2, <3>1, WordsStay
  <2>7. BytesInv'
    <3> SUFFICES ASSUME ~Unlimited(BytesPerDay)
                 PROVE  /\ \A x \in Uploading' : req'[x].size <= BytesPerDay
                        /\ \A d \in Days : meter[d].bytes <= peak * BytesPerDay
                        /\ Fits(peak, meter[today].bytes, Uploading', Spared', BytesPerDay)
      BY <1>1 DEF BytesInv, Unlimited, Fits
    <3>1. BytesPerDay \in Nat /\ meter[today].bytes + req[r].size <= BytesPerDay
      BY <1>3 DEF UploadLeft, Unlimited
    <3>2. meter[today].bytes \in Nat /\ req[r].size \in Nat /\ today \in Days /\ peak \in Nat
      BY MeteringTypes
    <3>3. \A d \in Days : meter[d].bytes <= peak * BytesPerDay
      BY DEF BytesInv
    <3>4. ASSUME NEW x \in Uploading' PROVE req'[x].size <= BytesPerDay
      <4>1. CASE x = r
        BY <2>1, <3>1, <3>2, <4>1, BecomesSets
      <4>2. CASE x # r
        <5>1. x \in Uploading /\ x \in Requests
          BY <2>3, <4>2 DEF Uploading
        <5> QED
          BY <2>1, <4>2, <5>1, BecomesSets DEF BytesInv
      <4> QED
        BY <4>1, <4>2
    <3>5. Spared'[r] = BytesPerDay - req[r].size
      BY <2>1, BecomesSets DEF Spared
    <3>6. Spared'[r] \in Nat /\ meter[today].bytes <= Spared'[r]
      BY <3>1, <3>2, <3>5
    <3> HIDE DEF Spared
    <3>7. Fits(peak, meter[today].bytes, Uploading \union {r}, Spared', BytesPerDay)
      BY <2>3, <2>4, <3>1, <3>2, <3>3, <3>6, InProgressSizes, FitsOneMore
    <3> QED
      BY <2>3, <3>3, <3>4, <3>7
  <2>8. UploadsInv'
    <3> SUFFICES ASSUME ~Unlimited(UploadsPerDay), NEW d \in Days
                 PROVE  Counts(d)' = 0 \/ (UploadsPerDay > 0 /\ peak > 0 /\ Counts(d)' <= UploadsPerDay + peak - 1)
      BY <1>1 DEF UploadsInv, Unlimited
    <3>1. meter[today].uploads < UploadsPerDay
      BY <1>3 DEF UploadLeft, Unlimited
    <3>2. /\ Cardinality(Uploading) \in Nat /\ peak \in Nat
          /\ meter[today].uploads \in Nat /\ meter[d].uploads \in Nat
      BY InProgressSizes, MeteringTypes
    <3>3. CASE d = today
      <4>1. Counts(d)' = meter[today].uploads + (Cardinality(Uploading) + 1)
        BY <1>1, <2>4, <3>3 DEF Counts
      <4> QED
        BY <2>4, <3>1, <3>2, <4>1
    <3>4. CASE d # today
      <4>1. Counts(d)' = Counts(d)
        BY <1>1, <3>4 DEF Counts
      <4> QED
        BY <4>1 DEF UploadsInv
    <3> QED
      BY <3>3, <3>4
  <2>9. StoredInv'
    <3>1. Stored(q, wrote'[r])
      BY <2>1 DEF Stored
    <3> QED
      BY <1>1, <2>1, <3>1, StoredStep
  <2> QED
    BY <2>5, <2>6, <2>7, <2>8, <2>9
<1> QED
  BY <1>2, <1>3

LEMMA ChatCheckStep ==
    ASSUME MeteringInv, NEW r \in Requests, ChatCheck(r)
    PROVE  MeteringInv'
<1> USE DEF MeteringInv
<1>1. UNCHANGED <<meter, today, wrote, fails, peak>> /\ req[r].pc = "check" /\ req[r].kind = "chat"
  BY DEF ChatCheck
<1>2. CASE ~WordsLeft(meter[today])
  <2>1. End(r, "refused") /\ fails' \in 0..MaxFails
    BY <1>1, <1>2, MeteringTypes DEF ChatCheck
  <2> QED
    BY <1>1, <2>1, EndStep
<1>3. CASE WordsLeft(meter[today])
  <2> DEFINE v == meter[today].words
             q == [req[r] EXCEPT !.pc = "stream", !.used = v]
  <2>0. v \in Nat /\ req[r] \in RequestStates /\ req[r].words = 0
    BY <1>1, MeteringTypes DEF StoredInv, Stored
  <2>1. req' = [req EXCEPT ![r] = q]
    BY <1>3 DEF ChatCheck
  <2> HIDE DEF v
  <2>2. /\ q \in RequestStates /\ q.pc = "stream" /\ q.kind = req[r].kind /\ q.used = v
        /\ q.words = req[r].words
    BY <2>0 DEF RequestStates
  <2> HIDE DEF q
  <2>3. Becomes(r, q) /\ Chats(q) /\ ~Uploads(q) /\ Runs(q) /\ Runs(req[r]) /\ ~Chats(req[r])
    BY <1>1, <2>1, <2>2 DEF Becomes, Chats, Uploads, Runs, Ended, UploadHolds
  <2>4. Chatting' = Chatting \union {r} /\ r \notin Chatting /\ r \in InProgress
    BY <2>3, BecomesSets DEF Chatting, Chats, InProgress, Runs
  <2>5. Cardinality(Chatting) + 1 <= peak
    <3>1. IsFiniteSet(Chatting \union {r}) /\ Cardinality(Chatting \union {r}) = Cardinality(Chatting) + 1
      BY <2>4, InProgressSizes, FS_AddElement
    <3>2. Chatting \union {r} \subseteq InProgress
      BY <2>4 DEF Chatting, InProgress, Ended
    <3>3. Cardinality(Chatting \union {r}) <= Cardinality(InProgress)
      BY <3>2, InProgressSizes, FS_Subset
    <3> QED
      BY <3>1, <3>3, InProgressSizes, MeteringTypes DEF PeakInv
  <2>6. TypeOK' /\ PeakInv' /\ ComingDaysInv'
    <3>1. TypeOK'
      BY <1>1, <2>3, BecomesSets DEF TypeOK
    <3>2. PeakInv'
      BY <1>1, <2>3, PeakStep
    <3> QED
      BY <1>1, <3>1, <3>2 DEF ComingDaysInv
  <2>7. peak' \in Nat /\ peak <= peak'
    BY <1>1, MeteringTypes
  <2>8. BytesInv'
    BY <1>1, <2>3, <2>7, BytesStay
  <2>9. UploadsInv'
    BY <1>1, <2>3, <2>7, UploadsStay
  <2>10. WordsInv'
    <3> SUFFICES ASSUME ~Unlimited(WordsPerDay)
                 PROVE  /\ \A x \in Chatting' : /\ req'[x].used < WordsPerDay
                                                /\ req'[x].words <= WordsPerDay - req'[x].used
                        /\ \A d \in Days : meter[d].words <= peak * WordsPerDay
                        /\ Fits(peak, v, Chatting', Used', WordsPerDay)
      BY <1>1 DEF WordsInv, Unlimited, Fits, v
    <3>1. WordsPerDay \in Nat /\ v < WordsPerDay
      BY <1>3 DEF WordsLeft, Unlimited, v
    <3>2. \A d \in Days : meter[d].words <= peak * WordsPerDay
      BY DEF WordsInv
    <3>3. ASSUME NEW x \in Chatting' PROVE /\ req'[x].used < WordsPerDay
                                           /\ req'[x].words <= WordsPerDay - req'[x].used
      <4>1. CASE x = r
        BY <2>0, <2>2, <2>3, <3>1, <4>1, BecomesSets
      <4>2. CASE x # r
        <5>1. x \in Chatting /\ x \in Requests
          BY <2>4, <4>2 DEF Chatting
        <5> QED
          BY <2>3, <4>2, <5>1, BecomesSets DEF WordsInv
      <4> QED
        BY <4>1, <4>2
    <3>4. Used'[r] = v
      BY <2>2, <2>3, BecomesSets DEF Used
    <3>5. v <= peak * WordsPerDay /\ peak \in Nat
      BY <3>2, MeteringTypes DEF v
    <3> HIDE DEF Used
    <3>6. Used'[r] \in Nat /\ v <= Used'[r]
      BY <2>0, <3>4
    <3>7. Fits(peak, v, Chatting \union {r}, Used', WordsPerDay)
      BY <2>0, <2>4, <2>5, <3>1, <3>5, <3>6, InProgressSizes, FitsOneMore
    <3> QED
      BY <2>4, <3>2, <3>3, <3>7
  <2>11. StoredInv'
    <3>1. Stored(q, wrote'[r])
      BY <1>1, <2>2 DEF Stored
    <3> QED
      BY <1>1, <2>3, <3>1, StoredStep
  <2> QED
    BY <2>6, <2>8, <2>9, <2>10, <2>11
<1> QED
  BY <1>2, <1>3

-----------------------------------------------------------------------------
(* The quotas: what is metered *)

\* What an increment leaves on the meters.
Added(words, uploads, bytes) ==
    /\ meter' \in [Days -> Meters]
    /\ \A d \in Days : d # today => meter'[d] = meter[d]
    /\ meter'[today].words = meter[today].words + words
    /\ meter'[today].uploads = meter[today].uploads + uploads
    /\ meter'[today].bytes = meter[today].bytes + bytes

LEMMA AddStep ==
    ASSUME TypeOK, NEW r, NEW words \in Nat, NEW uploads \in Nat, NEW bytes \in Nat,
           Add(r, words, uploads, bytes)
    PROVE  Added(words, uploads, bytes)
<1> DEFINE w == meter[today].words + words
           u == meter[today].uploads + uploads
           b == meter[today].bytes + bytes
           m == [meter[today] EXCEPT !.words = w, !.uploads = u, !.bytes = b]
<1>1. meter[today] \in Meters /\ today \in Days /\ meter \in [Days -> Meters]
  BY DEF TypeOK
<1>2. w \in Nat /\ u \in Nat /\ b \in Nat
  BY <1>1, MeteringTypes
<1>3. meter' = [meter EXCEPT ![today].words = w, ![today].uploads = u, ![today].bytes = b]
  BY <1>1 DEF Add, Meters
<1> HIDE DEF w, u, b
<1>4. m \in Meters /\ m.words = w /\ m.uploads = u /\ m.bytes = b
  BY <1>1, <1>2 DEF Meters
<1>5. meter' = [meter EXCEPT ![today] = m]
  BY <1>1, <1>2, <1>3 DEF Meters
<1> HIDE DEF m
<1>6. meter' \in [Days -> Meters] /\ meter'[today] = m /\ \A d \in Days : d # today => meter'[d] = meter[d]
  BY <1>1, <1>4, <1>5
<1> QED
  BY <1>4, <1>6 DEF w, u, b, Added

\* The upload's increment, as its state is left.
LEMMA MeterUploadStep ==
    ASSUME MeteringInv, NEW r \in Requests, MeterUpload(r)
    PROVE  MeteringInv'
<1> USE DEF MeteringInv
<1> DEFINE q == [req[r] EXCEPT !.pc = "answered"]
<1>1. /\ req[r].pc = "meter" /\ Goto(r, "answered") /\ Add(r, 0, 1, req[r].size)
      /\ UNCHANGED <<today, wrote, fails, peak>>
  BY DEF MeterUpload
<1>2. Becomes(r, q) /\ q.pc = "answered" /\ q.size = req[r].size /\ q.kind = req[r].kind
  BY <1>1, GotoState DEF Ended
<1> HIDE DEF q
<1>3. ~Chats(q) /\ ~Uploads(q) /\ ~Runs(q) /\ Uploads(req[r])
  BY <1>1, <1>2 DEF Chats, Uploads, Runs, Ended, UploadHolds
<1>4. /\ req[r].size \in Nat /\ today \in Days /\ meter[today].words \in Nat
      /\ meter[today].uploads \in Nat /\ meter[today].bytes \in Nat
      /\ peak \in Nat /\ peak' \in Nat /\ peak <= peak'
  BY <1>1, MeteringTypes
<1>5. /\ meter' \in [Days -> Meters] /\ \A d \in Days : d # today => meter'[d] = meter[d]
      /\ meter'[today].words = meter[today].words
      /\ meter'[today].uploads = meter[today].uploads + 1
      /\ meter'[today].bytes = meter[today].bytes + req[r].size
  <2>1. Added(0, 1, req[r].size)
    BY <1>1, <1>4, AddStep
  <2> QED
    BY <1>4, <2>1 DEF Added
<1>6. Uploading' = Uploading \ {r} /\ r \in Uploading
  BY <1>2, <1>3, BecomesSets DEF Uploading, Uploads
<1>7. TypeOK'
  BY <1>1, <1>2, <1>5, BecomesSets DEF TypeOK
<1>8. PeakInv'
  BY <1>1, <1>2, <1>3, PeakStep
<1>9. ComingDaysInv'
  BY <1>1, <1>4, <1>5, MeteringTypes DEF ComingDaysInv
<1>10. WordsInv'
  <2>1. \A d \in Days : meter'[d].words = meter[d].words
    BY <1>5
  <2> QED
    BY <1>1, <1>2, <1>3, <1>4, <2>1, WordsStay
<1>11. BytesInv'
  <2> SUFFICES ASSUME ~Unlimited(BytesPerDay)
               PROVE  /\ \A x \in Uploading' : req'[x].size <= BytesPerDay
                      /\ \A d \in Days : meter'[d].bytes <= peak * BytesPerDay
                      /\ Fits(peak, meter'[today].bytes, Uploading', Spared', BytesPerDay)
    BY <1>1 DEF BytesInv, Unlimited, Fits
  <2>1. BytesPerDay \in Nat
    BY DEF Unlimited
  <2>2. \A x \in Uploading' : x \in Uploading /\ x \in Requests /\ req'[x] = req[x]
    BY <1>2, <1>6, BecomesSets DEF Uploading
  <2>3. \A x \in Uploading : req[x].size <= BytesPerDay /\ x \in Requests /\ req[x].size \in Nat
    BY MeteringTypes DEF BytesInv, Uploading
  <2>4. \A x \in Uploading : Spared[x] \in 0..BytesPerDay
    <3>1. ASSUME NEW x \in Uploading PROVE Spared[x] \in 0..BytesPerDay
      <4>1. x \in Requests /\ req[x].size \in Nat /\ req[x].size <= BytesPerDay
        BY <2>3
      <4> QED
        BY <2>1, <4>1 DEF Spared
    <3> QED
      BY <3>1
  <2>5. \A x \in Uploading \ {r} : Spared'[x] = Spared[x]
    BY <1>6, <2>2 DEF Spared
  <2>6. Spared[r] = BytesPerDay - req[r].size
    BY DEF Spared
  <2>7. Fits(peak, meter[today].bytes, Uploading, Spared, BytesPerDay)
    BY DEF BytesInv
  <2>8. IsFiniteSet(Uploading) /\ Cardinality(Uploading) <= peak
    BY <1>4, InProgressSizes DEF PeakInv
  <2>9. /\ meter'[today].bytes \in Nat
        /\ meter'[today].bytes <= meter[today].bytes + (BytesPerDay - Spared[r])
    BY <1>4, <1>5, <2>1, <2>6
  <2> HIDE DEF Spared
  <2>10. Fits(peak, meter'[today].bytes, Uploading \ {r}, Spared', BytesPerDay)
    BY <1>4, <1>6, <2>1, <2>4, <2>5, <2>7, <2>8, <2>9, FitsOneLess
  <2>11. ASSUME NEW d \in Days PROVE meter'[d].bytes <= peak * BytesPerDay
    <3>1. CASE d = today
      BY <2>10, <3>1 DEF Fits
    <3>2. CASE d # today
      BY <1>5, <3>2 DEF BytesInv
    <3> QED
      BY <3>1, <3>2
  <2> QED
    BY <1>6, <2>2, <2>3, <2>10, <2>11
<1>12. UploadsInv'
  <2>1. Cardinality(Uploading') = Cardinality(Uploading) - 1 /\ Cardinality(Uploading) \in Nat
    <3>1. Cardinality(Uploading \ {r}) = Cardinality(Uploading) - 1
      BY <1>6, InProgressSizes, FS_RemoveElement
    <3> QED
      BY <1>6, <3>1, InProgressSizes
  <2>2. \A d \in Days : Counts(d)' = Counts(d)
    <3>1. ASSUME NEW d \in Days PROVE Counts(d)' = Counts(d)
      <4>1. CASE d = today
        BY <1>1, <1>4, <1>5, <2>1, <4>1 DEF Counts
      <4>2. CASE d # today
        BY <1>1, <1>5, <4>2 DEF Counts
      <4> QED
        BY <4>1, <4>2
    <3> QED
      BY <3>1
  <2> QED
    BY <1>1, <2>2 DEF UploadsInv, Unlimited
<1>13. StoredInv'
  <2>1. Stored(q, wrote'[r])
    BY <1>1, <1>2 DEF Stored, StoredInv
  <2> QED
    BY <1>1, <1>2, <2>1, StoredStep
<1> QED
  BY <1>7, <1>8, <1>9, <1>10, <1>11, <1>12, <1>13

\* The chat's increment, by no more than was left of the quota at its check.
LEMMA RecordWordsStep ==
    ASSUME MeteringInv, NEW r \in Requests, RecordWords(r)
    PROVE  MeteringInv'
<1> USE DEF MeteringInv
<1> DEFINE q == [req[r] EXCEPT !.pc = "recorded", !.used = 0, !.shown = Null]
<1>1. /\ req[r].pc = "record" /\ Add(r, req[r].words, 0, 0) /\ UNCHANGED <<today, wrote, fails, peak>>
      /\ req' = [req EXCEPT ![r] = q]
  BY DEF RecordWords
<1>2. q \in RequestStates /\ q.pc = "recorded"
  <2>1. req[r] \in RequestStates
    BY MeteringTypes
  <2> QED
    BY <2>1 DEF RequestStates, Ended
<1> HIDE DEF q
<1>3. Becomes(r, q) /\ ~Chats(q) /\ ~Uploads(q) /\ ~Runs(q) /\ Chats(req[r])
  BY <1>1, <1>2 DEF Becomes, Chats, Uploads, Runs, Ended, UploadHolds
<1>4. /\ req[r].words \in Nat /\ req[r].used \in Nat /\ today \in Days /\ meter[today].words \in Nat
      /\ meter[today].uploads \in Nat /\ meter[today].bytes \in Nat
      /\ peak \in Nat /\ peak' \in Nat /\ peak <= peak'
  BY <1>1, MeteringTypes
<1>5. /\ meter' \in [Days -> Meters] /\ \A d \in Days : d # today => meter'[d] = meter[d]
      /\ meter'[today].words = meter[today].words + req[r].words
      /\ meter'[today].uploads = meter[today].uploads /\ meter'[today].bytes = meter[today].bytes
  <2>1. Added(req[r].words, 0, 0)
    BY <1>1, <1>4, AddStep
  <2> QED
    BY <1>4, <2>1 DEF Added
<1>6. Chatting' = Chatting \ {r} /\ r \in Chatting
  BY <1>3, BecomesSets DEF Chatting, Chats
<1>7. TypeOK' /\ PeakInv'
  <2>1. TypeOK'
    BY <1>1, <1>3, <1>5, BecomesSets DEF TypeOK
  <2>2. PeakInv'
    BY <1>1, <1>3, PeakStep
  <2> QED
    BY <2>1, <2>2
<1>8. ComingDaysInv'
  BY <1>1, <1>4, <1>5, MeteringTypes DEF ComingDaysInv
<1>9. BytesInv' /\ UploadsInv'
  <2>1. \A d \in Days : meter'[d].bytes = meter[d].bytes /\ meter'[d].uploads = meter[d].uploads
    BY <1>5
  <2> QED
    BY <1>1, <1>3, <1>4, <2>1, BytesStay, UploadsStay
<1>10. WordsInv'
  <2> SUFFICES ASSUME ~Unlimited(WordsPerDay)
               PROVE  /\ \A x \in Chatting' : /\ req'[x].used < WordsPerDay
                                              /\ req'[x].words <= WordsPerDay - req'[x].used
                      /\ \A d \in Days : meter'[d].words <= peak * WordsPerDay
                      /\ Fits(peak, meter'[today].words, Chatting', Used', WordsPerDay)
    BY <1>1 DEF WordsInv, Unlimited, Fits
  <2>1. WordsPerDay \in Nat
    BY DEF Unlimited
  <2>2. \A x \in Chatting' : x \in Chatting /\ x \in Requests /\ req'[x] = req[x]
    BY <1>3, <1>6, BecomesSets DEF Chatting
  <2>3. \A x \in Chatting : /\ req[x].used < WordsPerDay /\ req[x].words <= WordsPerDay - req[x].used
                            /\ x \in Requests /\ req[x].used \in Nat
    BY MeteringTypes DEF WordsInv, Chatting
  <2>4. \A x \in Chatting : Used[x] \in 0..WordsPerDay
    BY <2>1, <2>3 DEF Used
  <2>5. \A x \in Chatting \ {r} : Used'[x] = Used[x]
    BY <1>6, <2>2 DEF Used
  <2>6. Used[r] = req[r].used
    BY DEF Used
  <2>7. Fits(peak, meter[today].words, Chatting, Used, WordsPerDay)
    BY DEF WordsInv
  <2>8. IsFiniteSet(Chatting) /\ Cardinality(Chatting) <= peak
    BY <1>4, InProgressSizes DEF PeakInv
  <2>9. /\ meter'[today].words \in Nat
        /\ meter'[today].words <= meter[today].words + (WordsPerDay - Used[r])
    BY <1>4, <1>5, <1>6, <2>1, <2>3, <2>6
  <2> HIDE DEF Used
  <2>10. Fits(peak, meter'[today].words, Chatting \ {r}, Used', WordsPerDay)
    BY <1>4, <1>6, <2>1, <2>4, <2>5, <2>7, <2>8, <2>9, FitsOneLess
  <2>11. ASSUME NEW d \in Days PROVE meter'[d].words <= peak * WordsPerDay
    <3>1. CASE d = today
      BY <2>10, <3>1 DEF Fits
    <3>2. CASE d # today
      BY <1>5, <3>2 DEF WordsInv
    <3> QED
      BY <3>1, <3>2
  <2> QED
    BY <1>6, <2>2, <2>3, <2>10, <2>11
<1>11. StoredInv'
  <2>1. Stored(q, wrote'[r])
    BY <1>2 DEF Stored
  <2> QED
    BY <1>1, <1>3, <2>1, StoredStep
<1> QED
  BY <1>7, <1>8, <1>9, <1>10, <1>11

\* A day's meter starts empty; the requests in progress were let in yesterday.
LEMMA MidnightStep ==
    ASSUME MeteringInv, Midnight
    PROVE  MeteringInv'
<1> USE DEF MeteringInv
<1>1. today' = today + 1 /\ today < LastDay /\ UNCHANGED <<meter, req, wrote, fails, peak>>
  BY DEF Midnight
<1>2. today \in Nat /\ today' \in Days /\ today' > today
  BY <1>1, MeteringTypes DEF Days
<1>3. meter[today'].words = 0 /\ meter[today'].uploads = 0 /\ meter[today'].bytes = 0
  BY <1>2 DEF ComingDaysInv
<1>4. /\ InProgress' = InProgress /\ Chatting' = Chatting /\ Uploading' = Uploading
      /\ Used' = Used /\ Spared' = Spared
  BY <1>1 DEF InProgress, Chatting, Uploading, Used, Spared
<1>5. TypeOK' /\ PeakInv' /\ StoredInv'
  BY <1>1, <1>2, <1>4 DEF TypeOK, PeakInv, StoredInv
<1>6. ComingDaysInv'
  BY <1>1, <1>2, MeteringTypes DEF ComingDaysInv
<1>7. /\ peak \in Nat /\ IsFiniteSet(Chatting) /\ Cardinality(Chatting) <= peak
      /\ IsFiniteSet(Uploading) /\ Cardinality(Uploading) <= peak
  BY InProgressSizes, MeteringTypes DEF PeakInv
<1>8. WordsInv'
  <2> SUFFICES ASSUME ~Unlimited(WordsPerDay)
               PROVE  Fits(peak, 0, Chatting, Used, WordsPerDay)
    BY <1>1, <1>3, <1>4 DEF WordsInv, Unlimited, Fits
  <2>1. WordsPerDay \in Nat
    BY DEF Unlimited
  <2>2. \A x \in Chatting : Used[x] \in 0..WordsPerDay
    BY <2>1, MeteringTypes DEF WordsInv, Used, Chatting
  <2> HIDE DEF Used
  <2> QED
    BY <1>7, <2>1, <2>2, FitsAnew
<1>9. BytesInv'
  <2> SUFFICES ASSUME ~Unlimited(BytesPerDay)
               PROVE  Fits(peak, 0, Uploading, Spared, BytesPerDay)
    BY <1>1, <1>3, <1>4 DEF BytesInv, Unlimited, Fits
  <2>1. BytesPerDay \in Nat
    BY DEF Unlimited
  <2>2. \A x \in Uploading : Spared[x] \in 0..BytesPerDay
    <3>1. ASSUME NEW x \in Uploading PROVE Spared[x] \in 0..BytesPerDay
      <4>1. x \in Requests /\ req[x].size \in Nat /\ req[x].size <= BytesPerDay
        BY MeteringTypes DEF BytesInv, Uploading
      <4> QED
        BY <2>1, <4>1 DEF Spared
    <3> QED
      BY <3>1
  <2> HIDE DEF Spared
  <2> QED
    BY <1>7, <2>1, <2>2, FitsAnew
<1>10. UploadsInv'
  <2> SUFFICES ASSUME ~Unlimited(UploadsPerDay), NEW d \in Days
               PROVE  Counts(d)' = 0 \/ (UploadsPerDay > 0 /\ peak > 0 /\ Counts(d)' <= UploadsPerDay + peak - 1)
    BY <1>1 DEF UploadsInv, Unlimited
  <2>1. Cardinality(Uploading) \in Nat /\ meter[d].uploads \in Nat
    BY InProgressSizes, MeteringTypes
  <2>2. Counts(d) = 0 \/ (UploadsPerDay > 0 /\ peak > 0 /\ Counts(d) <= UploadsPerDay + peak - 1)
    BY DEF UploadsInv
  <2>3. CASE d = today'
    <3>1. Counts(d)' = Cardinality(Uploading)
      BY <1>1, <1>3, <1>4, <2>1, <2>3 DEF Counts
    <3>2. CASE Cardinality(Uploading) = 0
      BY <3>1, <3>2
    <3>3. CASE Cardinality(Uploading) > 0
      <4>1. Counts(today) # 0
        BY <2>1, <3>3, MeteringTypes DEF Counts
      <4>2. UploadsPerDay > 0 /\ peak > 0
        BY <4>1, MeteringTypes DEF UploadsInv
      <4> QED
        BY <1>7, <2>1, <3>1, <4>2
    <3> QED
      BY <2>1, <3>2, <3>3
  <2>4. CASE d # today'
    <3>1. Counts(d)' = meter[d].uploads
      BY <1>1, <2>1, <2>4 DEF Counts
    <3>2. Counts(d) \in Nat /\ meter[d].uploads <= Counts(d)
      BY <2>1 DEF Counts
    <3> QED
      BY <1>7, <2>1, <2>2, <3>1, <3>2
  <2> QED
    BY <2>3, <2>4
<1> QED
  BY <1>5, <1>6, <1>8, <1>9, <1>10

LEMMA MeteringInit ==
    ASSUME Init
    PROVE  MeteringInv
<1> DEFINE empty == [words |-> 0, uploads |-> 0, bytes |-> 0]
<1>1. /\ \A d \in Days : meter[d] = empty
      /\ \A r \in Requests : req[r] = New /\ wrote[r] = {}
      /\ today = 0 /\ fails = 0 /\ peak = 0
  BY DEF Init
<1>2. empty \in Meters /\ New \in RequestStates /\ New.pc = "new"
  BY DEF Meters, New, RequestStates
<1>3. Cardinality(Requests) \in Nat
  BY FS_CardinalityType
<1>4. TypeOK
  BY <1>2, <1>3 DEF Init, TypeOK, Days
<1>5. InProgress = {} /\ Chatting = {} /\ Uploading = {}
  BY <1>1, <1>2 DEF InProgress, Chatting, Uploading, UploadHolds, Ended
<1>6. Cardinality({}) = 0
  BY FS_EmptySet
<1>7. PeakInv /\ ComingDaysInv
  BY <1>1, <1>5, <1>6 DEF PeakInv, ComingDaysInv
<1>8. /\ \A d \in Days : meter[d].words = 0 /\ meter[d].uploads = 0 /\ meter[d].bytes = 0
      /\ today \in Days
  BY <1>1, <1>4 DEF TypeOK
<1>9. WordsInv /\ BytesInv
  <2>1. \A limit \in Nat : 0 <= 0 * limit
    OBVIOUS
  <2> QED
    BY <1>1, <1>5, <1>8, <2>1 DEF WordsInv, BytesInv, Fits, Unlimited
<1>10. UploadsInv
  BY <1>5, <1>6, <1>8 DEF UploadsInv, Counts
<1>11. StoredInv
  BY <1>1, <1>2 DEF StoredInv, Stored
<1> QED
  BY <1>4, <1>7, <1>9, <1>10, <1>11 DEF MeteringInv

\* What the counters rest on, whatever the requests do and fail at: the quotas
\* that the requests in progress may still use up fit under the bound.
THEOREM MeteringInvariant == Spec => []MeteringInv
<1>1. Init => MeteringInv
  BY MeteringInit
<1>2. MeteringInv /\ [Next]_vars => MeteringInv'
  <2> SUFFICES ASSUME MeteringInv, [Next]_vars PROVE MeteringInv'
    OBVIOUS
  <2>1. ASSUME NEW r \in Requests, NEW size \in Sizes, Arrive(r, "upload", size) PROVE MeteringInv'
    BY <2>1, ArriveStep
  <2>2. ASSUME NEW r \in Requests, Arrive(r, "chat", 0) PROVE MeteringInv'
    BY <2>2, ArriveStep
  <2>3. ASSUME NEW r \in Requests, Steps(r) \/ RefusedOtherwise(r) \/ Disconnect(r) \/ Fail(r)
        PROVE MeteringInv'
    <3>1. CASE RefusedOtherwise(r) \/ PoolTimeout(r) \/ Fail(r)
      BY <3>1, RefusedStep
    <3>2. CASE SavePdf(r) \/ QueueRow(r) \/ RecordOwner(r)
      BY <3>2, UploadWritesStep
    <3>3. CASE (\E words \in Answers : Answer(r, words)) \/ ShowUsage(r) \/ Disconnect(r)
      BY <3>3, StreamStep
    <3>4. CASE UploadCheck(r)
      BY <3>4, UploadCheckStep
    <3>5. CASE ChatCheck(r)
      BY <3>5, ChatCheckStep
    <3>6. CASE MeterUpload(r)
      BY <3>6, MeterUploadStep
    <3>7. CASE RecordWords(r)
      BY <3>7, RecordWordsStep
    <3> QED
      BY <2>3, <3>1, <3>2, <3>3, <3>4, <3>5, <3>6, <3>7 DEF Steps
  <2>4. CASE Midnight
    BY <2>4, MidnightStep
  <2>5. CASE UNCHANGED vars
    <3>1. UNCHANGED <<InProgress, Chatting, Uploading, Used, Spared>> /\ UNCHANGED vars
      BY <2>5 DEF vars, InProgress, Chatting, Uploading, Used, Spared
    <3> QED
      BY <3>1 DEF vars, MeteringInv, TypeOK, PeakInv, ComingDaysInv, WordsInv, BytesInv, UploadsInv,
                  StoredInv, Stored, Fits, Counts
  <2> QED
    BY <2>1, <2>2, <2>3, <2>4, <2>5 DEF Next
<1> QED
  BY <1>1, <1>2, PTL DEF Spec

\* The meters, the requests and the writes have their types.
THEOREM MeteringTypeCorrect == Spec => []TypeOK
<1>1. MeteringInv => TypeOK
  BY DEF MeteringInv
<1> QED
  BY <1>1, MeteringInvariant, PTL

\* check_word_quota and check_upload_quota read the meter when a request
\* starts, increment adds when it ends: with any number of requests at once
\* the quota of a day is overrun by no more than the others in progress.
THEOREM OverrunBounded == Spec => []OverrunIsBoundedByOverlap
<1>1. MeteringInv => OverrunIsBoundedByOverlap
  <2> SUFFICES ASSUME MeteringInv, peak > 0, NEW d \in Days
               PROVE  /\ Unlimited(WordsPerDay) \/ meter[d].words <= peak * WordsPerDay
                      /\ Unlimited(UploadsPerDay) \/ meter[d].uploads <= UploadsPerDay + peak - 1
                      /\ Unlimited(BytesPerDay) \/ meter[d].bytes <= peak * BytesPerDay
    BY DEF OverrunIsBoundedByOverlap
  <2>1. Unlimited(WordsPerDay) \/ meter[d].words <= peak * WordsPerDay
    BY DEF MeteringInv, WordsInv
  <2>2. Unlimited(BytesPerDay) \/ meter[d].bytes <= peak * BytesPerDay
    BY DEF MeteringInv, BytesInv
  <2>3. Unlimited(UploadsPerDay) \/ meter[d].uploads <= UploadsPerDay + peak - 1
    <3> SUFFICES ASSUME ~Unlimited(UploadsPerDay) PROVE meter[d].uploads <= UploadsPerDay + peak - 1
      OBVIOUS
    <3>1. /\ UploadsPerDay \in Nat /\ peak \in Nat /\ meter[d].uploads \in Nat
          /\ Cardinality(Uploading) \in Nat
      BY InProgressSizes, MeteringTypes DEF MeteringInv, Unlimited
    <3>2. Counts(d) \in Nat /\ meter[d].uploads <= Counts(d)
      BY <3>1 DEF Counts
    <3>3. Counts(d) = 0 \/ Counts(d) <= UploadsPerDay + peak - 1
      BY DEF MeteringInv, UploadsInv
    <3> QED
      BY <3>1, <3>2, <3>3
  <2> QED
    BY <2>1, <2>2, <2>3
<1> QED
  BY <1>1, MeteringInvariant, PTL

\* upload_document meters last: what it has counted is in the storage, in the
\* queue and in the user's list.
THEOREM UploadIsStored == Spec => []MeteredIsStored
<1>1. MeteringInv => MeteredIsStored
  <2> SUFFICES ASSUME MeteringInv, NEW r \in Requests, req[r].pc = "answered", req[r].kind = "upload"
               PROVE  wrote[r] = {"blob", "row", "owner"}
    BY DEF MeteredIsStored
  <2>1. Stored(req[r], wrote[r])
    BY DEF MeteringInv, StoredInv
  <2>2. {"blob", "row", "owner"} \subseteq wrote[r]
    BY <2>1 DEF Stored
  <2>3. wrote[r] \subseteq {"blob", "row", "owner"}
    BY MeteringTypes DEF MeteringInv
  <2> QED
    BY <2>2, <2>3
<1> QED
  BY <1>1, MeteringInvariant, PTL

-----------------------------------------------------------------------------
(* Least counterexamples: an induction on sizes *)

\* A set of natural numbers has a least element.
LEMMA LeastOfNat ==
    ASSUME NEW S \in SUBSET Nat, S # {}
    PROVE  \E x \in S : \A y \in S : x <= y
<1> DEFINE R == {p \in Nat \X Nat : p[1] < p[2]}
<1>1. IsWellFoundedOn(R, Nat)
  BY NatLessThanWellFounded, Zenon DEF OpToRel
<1> HIDE DEF R
<1>2. PICK x \in S : \A y \in S : ~(<<y, x>> \in R)
  BY <1>1, WFMin
<1>3. \A m, n \in Nat : <<m, n>> \in R <=> m < n
  BY DEF R
<1>4. ASSUME NEW y \in S PROVE x <= y
  <2>1. x \in Nat /\ y \in Nat /\ ~(<<y, x>> \in R)
    BY <1>2
  <2>2. ~(y < x)
    BY <1>3, <2>1
  <2> QED
    BY <2>1, <2>2
<1> QED
  BY <1>4

-----------------------------------------------------------------------------
(* Sums over a finite set, taking one element after the other as MapThenSumSet does *)

Pick(s) == CHOOSE x \in s : TRUE

\* g sums up f over the subsets of S, an element at a time.
SumsUp(g, f, S) ==
    g = [s \in SUBSET S |-> IF s = {} THEN 0 ELSE f[Pick(s)] + g[s \ {Pick(s)}]]

SumOf(f, S) == (CHOOSE g : SumsUp(g, f, S))[S]

\* The element that is taken is one of the set's.
LEMMA Picked == ASSUME NEW s, s # {} PROVE Pick(s) \in s
  BY DEF Pick

\* A subset without one of its elements is a smaller subset.
LEMMA LessOne ==
    ASSUME NEW S, IsFiniteSet(S), NEW s \in SUBSET S, NEW x \in s
    PROVE  /\ IsFiniteSet(s) /\ s \ {x} \in SUBSET S
           /\ Cardinality(s) \in Nat /\ Cardinality(s \ {x}) \in Nat
           /\ Cardinality(s \ {x}) = Cardinality(s) - 1
<1>1. IsFiniteSet(s)
  BY FS_Subset
<1>2. Cardinality(s \ {x}) = Cardinality(s) - 1 /\ IsFiniteSet(s \ {x})
  BY <1>1, FS_RemoveElement
<1> QED
  BY <1>1, <1>2, FS_CardinalityType

\* The sum over the subsets of at most n elements gives that over those of
\* one more, so there is one over all.
LEMMA SumsExist ==
    ASSUME NEW f, NEW S, IsFiniteSet(S)
    PROVE  \E g : SumsUp(g, f, S)
<1> DEFINE Upto(n) == {s \in SUBSET S : Cardinality(s) <= n}
           Sums(g, n) == g = [s \in Upto(n) |-> IF s = {} THEN 0
                                                ELSE f[Pick(s)] + g[s \ {Pick(s)}]]
           Bad == {n \in Nat : ~\E g : Sums(g, n)}
<1>1. Bad = {}
  <2> SUFFICES ASSUME Bad # {} PROVE FALSE
    OBVIOUS
  <2>1. PICK n \in Bad : \A m \in Bad : n <= m
    BY LeastOfNat
  <2>2. CASE n = 0
    <3>1. Upto(0) = {{}}
      <4>1. ASSUME NEW s \in SUBSET S, Cardinality(s) <= 0 PROVE s = {}
        <5>1. IsFiniteSet(s) /\ Cardinality(s) \in Nat
          BY FS_Subset, FS_CardinalityType
        <5> QED BY <4>1, <5>1, FS_EmptySet
      <4>2. Cardinality({}) <= 0
        BY FS_EmptySet
      <4> QED BY <4>1, <4>2
    <3> DEFINE g == [s \in {{}} |-> 0]
    <3>2. Sums(g, 0)
      BY <3>1
    <3> QED BY <2>1, <2>2, <3>2
  <2>3. CASE n # 0
    <3>1. n \in Nat /\ n - 1 \in Nat /\ n - 1 \notin Bad
      <4>1. n \in Nat
        BY <2>1
      <4> HIDE DEF Bad
      <4> QED BY <2>1, <2>3, <4>1
    <3>2. PICK g : Sums(g, n - 1)
      BY <3>1
    <3> DEFINE h == [s \in Upto(n) |-> IF s = {} THEN 0 ELSE f[Pick(s)] + g[s \ {Pick(s)}]]
    <3>3. ASSUME NEW s \in Upto(n), s # {} PROVE h[s \ {Pick(s)}] = g[s \ {Pick(s)}]
      <4>1. Pick(s) \in s
        BY <3>3, Picked
      <4>2. s \ {Pick(s)} \in Upto(n - 1) /\ s \ {Pick(s)} \in Upto(n)
        BY <3>1, <4>1, LessOne
      <4> DEFINE t == s \ {Pick(s)}
      <4> HIDE DEF t, Upto
      <4>3. t \in Upto(n - 1) /\ t \in Upto(n)
        BY <4>2 DEF t
      <4>4. g[t] = IF t = {} THEN 0 ELSE f[Pick(t)] + g[t \ {Pick(t)}]
        BY <3>2, <4>3
      <4>5. h[t] = IF t = {} THEN 0 ELSE f[Pick(t)] + g[t \ {Pick(t)}]
        BY <4>3
      <4>6. h[t] = g[t]
        BY <4>4, <4>5
      <4> QED BY <4>6 DEF t
    <3>4. Sums(h, n)
      <4> HIDE DEF Upto
      <4>1. ASSUME NEW s \in Upto(n)
            PROVE  (IF s = {} THEN 0 ELSE f[Pick(s)] + g[s \ {Pick(s)}])
                     = (IF s = {} THEN 0 ELSE f[Pick(s)] + h[s \ {Pick(s)}])
        <5> HIDE DEF h
        <5> QED BY <3>3
      <4>2. h = [s \in Upto(n) |-> IF s = {} THEN 0 ELSE f[Pick(s)] + g[s \ {Pick(s)}]]
        OBVIOUS
      <4> HIDE DEF h
      <4> QED BY <4>1, <4>2
    <3> HIDE DEF h, Sums
    <3> QED BY <2>1, <3>4
  <2> QED BY <2>2, <2>3
<1>2. Cardinality(S) \in Nat
  BY FS_CardinalityType
<1>3. PICK g : Sums(g, Cardinality(S))
  BY <1>1, <1>2
<1>4. Upto(Cardinality(S)) = SUBSET S
  BY FS_Subset
<1> QED
  BY <1>3, <1>4 DEF SumsUp

\* A function that sums up, at one subset.
LEMMA SumsUpAt ==
    ASSUME NEW f, NEW S, NEW g, SumsUp(g, f, S), NEW s \in SUBSET S
    PROVE  g[s] = IF s = {} THEN 0 ELSE f[Pick(s)] + g[s \ {Pick(s)}]
  BY DEF SumsUp

\* What is summed up over a set does not depend on the set it is a subset of.
LEMMA SumsAgree ==
    ASSUME NEW f, NEW S, NEW T, IsFiniteSet(S), NEW g, NEW h,
           SumsUp(g, f, S), SumsUp(h, f, T), NEW s \in SUBSET S, s \in SUBSET T
    PROVE  g[s] = h[s]
<1> DEFINE Apart == {t \in SUBSET S : t \in SUBSET T /\ g[t] # h[t]}
           Bad == {Cardinality(t) : t \in Apart}
<1> SUFFICES ASSUME Apart # {} PROVE FALSE
  OBVIOUS
<1>1. Bad \in SUBSET Nat /\ Bad # {}
  BY FS_Subset, FS_CardinalityType
<1>2. PICK n \in Bad : \A m \in Bad : n <= m
  BY <1>1, LeastOfNat
<1>3. PICK t \in Apart : n = Cardinality(t)
  BY <1>2
<1>4. CASE t = {}
  BY <1>3, <1>4, SumsUpAt
<1>5. CASE t # {}
  <2>1. Pick(t) \in t
    BY <1>5, Picked
  <2> DEFINE u == t \ {Pick(t)}
  <2>2. u \in SUBSET S /\ u \in SUBSET T /\ Cardinality(u) < n
    BY <1>3, <2>1, LessOne
  <2>3. u \notin Apart
    <3> SUFFICES ASSUME u \in Apart PROVE FALSE
      OBVIOUS
    <3>1. Cardinality(u) \in Bad
      OBVIOUS
    <3> QED BY <1>1, <1>2, <2>2, <3>1
  <2>4. g[u] = h[u]
    BY <2>2, <2>3
  <2>5. g[t] = f[Pick(t)] + g[u] /\ h[t] = f[Pick(t)] + h[u]
    BY <1>3, <1>5, SumsUpAt
  <2> QED BY <1>3, <2>4, <2>5
<1> QED BY <1>4, <1>5

\* The sum of a set is its picked element's value and the sum of the rest.
LEMMA SumOfPicked ==
    ASSUME NEW f, NEW S, IsFiniteSet(S)
    PROVE  SumOf(f, S) = IF S = {} THEN 0 ELSE f[Pick(S)] + SumOf(f, S \ {Pick(S)})
<1> DEFINE T == S \ {Pick(S)}
           g == CHOOSE e : SumsUp(e, f, S)
           h == CHOOSE e : SumsUp(e, f, T)
<1>0. T \in SUBSET S /\ T \in SUBSET T /\ S \in SUBSET S
  OBVIOUS
<1>1. IsFiniteSet(T)
  BY FS_Subset
<1>2. SumsUp(g, f, S)
  BY SumsExist
<1>3. SumsUp(h, f, T)
  BY <1>1, SumsExist
<1>4. SumOf(f, S) = g[S] /\ SumOf(f, T) = h[T]
  BY DEF SumOf
<1> HIDE DEF g, h, T
<1>5. g[T] = h[T]
  BY <1>0, <1>2, <1>3, SumsAgree
<1>6. g[S] = IF S = {} THEN 0 ELSE f[Pick(S)] + g[T]
  <2>1. g[S] = IF S = {} THEN 0 ELSE f[Pick(S)] + g[S \ {Pick(S)}]
    BY <1>0, <1>2, SumsUpAt
  <2> QED BY <2>1 DEF T
<1> QED
  BY <1>4, <1>5, <1>6 DEF T

\* A sum of natural numbers is one, and any element can be taken out of it.
LEMMA SumSplit ==
    ASSUME NEW f, NEW S, IsFiniteSet(S), \A x \in S : f[x] \in Nat
    PROVE  /\ SumOf(f, S) \in Nat
           /\ \A x \in S : SumOf(f, S) = f[x] + SumOf(f, S \ {x})
<1> DEFINE Fits1(t) == /\ SumOf(f, t) \in Nat
                       /\ \A x \in t : SumOf(f, t) = f[x] + SumOf(f, t \ {x})
           Apart == {t \in SUBSET S : ~Fits1(t)}
           Bad == {Cardinality(t) : t \in Apart}
<1> SUFFICES ASSUME Apart # {} PROVE FALSE
  OBVIOUS
<1>1. Bad \in SUBSET Nat /\ Bad # {}
  BY FS_Subset, FS_CardinalityType
<1>2. PICK n \in Bad : \A m \in Bad : n <= m
  BY <1>1, LeastOfNat
<1>3. PICK t \in Apart : n = Cardinality(t)
  BY <1>2
<1>4. IsFiniteSet(t) /\ t \in SUBSET S
  BY FS_Subset
<1>5. ASSUME NEW u \in SUBSET S, Cardinality(u) < n PROVE Fits1(u)
  <2> SUFFICES ASSUME u \in Apart PROVE FALSE
    OBVIOUS
  <2>1. Cardinality(u) \in Bad
    OBVIOUS
  <2> HIDE DEF Bad, Apart
  <2>2. n \in Nat /\ Cardinality(u) \in Nat /\ n <= Cardinality(u)
    BY <1>1, <1>2, <2>1
  <2> QED BY <1>5, <2>2
<1>6. CASE t = {}
  <2>1. SumOf(f, t) = 0
    BY <1>4, <1>6, SumOfPicked
  <2>2. Fits1(t)
    BY <1>6, <2>1
  <2> QED BY <1>3, <2>2
<1>7. CASE t # {}
  <2> DEFINE p == Pick(t)
             u == t \ {p}
  <2>1. p \in t
    BY <1>7, Picked
  <2>2. SumOf(f, t) = f[p] + SumOf(f, u)
    BY <1>4, <1>7, SumOfPicked
  <2>3. u \in SUBSET S /\ Cardinality(u) < n
    BY <1>3, <2>1, LessOne
  <2> HIDE DEF p
  <2>4. Fits1(u)
    BY <1>5, <2>3
  <2>5. SumOf(f, t) \in Nat
    BY <2>1, <2>2, <2>4
  <2>6. ASSUME NEW x \in t PROVE SumOf(f, t) = f[x] + SumOf(f, t \ {x})
    <3>1. CASE x = p
      BY <2>2, <3>1
    <3>2. CASE x # p
      <4> DEFINE v == t \ {x}
                 w == t \ {x, p}
      <4>1. v \in SUBSET S /\ Cardinality(v) < n
        BY <1>3, LessOne
      <4>2. Fits1(v) /\ p \in v /\ x \in u
        BY <1>5, <2>1, <3>2, <4>1
      <4>3. v \ {p} = w /\ u \ {x} = w
        OBVIOUS
      <4>4. SumOf(f, v) = f[p] + SumOf(f, w)
        BY <4>2, <4>3
      <4>5. SumOf(f, u) = f[x] + SumOf(f, w)
        BY <2>4, <4>2, <4>3
      <4>6. w \in SUBSET S /\ Cardinality(w) < n
        <5>1. w \subseteq v /\ IsFiniteSet(v)
          BY <4>1, FS_Subset
        <5>2. Cardinality(w) <= Cardinality(v) /\ Cardinality(w) \in Nat /\ Cardinality(v) \in Nat
          BY <5>1, FS_Subset, FS_CardinalityType
        <5>3. n \in Nat
          BY <1>3, <1>4, FS_CardinalityType
        <5> HIDE DEF v, w, Bad, Apart
        <5>4. Cardinality(w) < n
          BY <4>1, <5>2, <5>3
        <5> QED BY <1>4, <5>4 DEF w
      <4>7. SumOf(f, w) \in Nat
        BY <1>5, <4>6
      <4> HIDE DEF v, w, u
      <4>8. SumOf(f, t) = f[x] + SumOf(f, v)
        BY <2>1, <2>2, <4>4, <4>5, <4>7
      <4> QED BY <4>8 DEF v
    <3> QED BY <3>1, <3>2
  <2>7. Fits1(t)
    BY <2>5, <2>6
  <2> QED BY <1>3, <2>7
<1> QED BY <1>6, <1>7

\* The sum looks at the elements of its set only.
LEMMA SameSum ==
    ASSUME NEW f, NEW h, NEW S, \A x \in S : f[x] = h[x]
    PROVE  SumOf(f, S) = SumOf(h, S)
<1>1. ASSUME NEW g PROVE SumsUp(g, f, S) <=> SumsUp(g, h, S)
  <2>1. ASSUME NEW s \in SUBSET S, s # {} PROVE f[Pick(s)] = h[Pick(s)]
    BY <2>1, Picked
  <2> QED BY <2>1 DEF SumsUp
<1>2. (CHOOSE g : SumsUp(g, f, S)) = (CHOOSE g : SumsUp(g, h, S))
  BY <1>1
<1> QED BY <1>2 DEF SumOf

\* A sum of zeros is zero.
LEMMA NothingSummed ==
    ASSUME NEW f, NEW S, IsFiniteSet(S), \A x \in S : f[x] = 0
    PROVE  SumOf(f, S) = 0
<1> DEFINE Bad == {Cardinality(t) : t \in {u \in SUBSET S : SumOf(f, u) # 0}}
<1> SUFFICES ASSUME Bad # {} PROVE FALSE
  OBVIOUS
<1>1. Bad \in SUBSET Nat
  BY FS_Subset, FS_CardinalityType
<1>2. PICK n \in Bad : \A m \in Bad : n <= m
  BY <1>1, LeastOfNat
<1>3. PICK t \in SUBSET S : SumOf(f, t) # 0 /\ Cardinality(t) = n
  BY <1>2
<1>4. t # {} /\ IsFiniteSet(t)
  BY <1>3, FS_Subset, SumOfPicked
<1>5. PICK x \in t : TRUE
  BY <1>4
<1>6. SumOf(f, t) = f[x] + SumOf(f, t \ {x})
  BY <1>4, SumSplit
<1>7. t \ {x} \in SUBSET S /\ Cardinality(t \ {x}) < n
  BY <1>3, LessOne
<1>8. SumOf(f, t \ {x}) = 0
  <2> SUFFICES ASSUME SumOf(f, t \ {x}) # 0 PROVE FALSE
    OBVIOUS
  <2>1. Cardinality(t \ {x}) \in Bad
    BY <1>7
  <2> HIDE DEF Bad
  <2>2. n <= Cardinality(t \ {x}) /\ n \in Nat /\ Cardinality(t \ {x}) \in Nat
    BY <1>1, <1>2, <2>1
  <2> QED BY <1>7, <2>2
<1> QED
  BY <1>3, <1>6, <1>8

\* One value of a sum grows by n.
LEMMA RaiseOne ==
    ASSUME NEW f, NEW h, NEW S, IsFiniteSet(S), NEW x \in S, NEW n \in Nat,
           \A y \in S : f[y] \in Nat, \A y \in S : h[y] = IF y = x THEN f[y] + n ELSE f[y]
    PROVE  SumOf(h, S) = SumOf(f, S) + n
<1> DEFINE R == S \ {x}
<1>1. IsFiniteSet(R) /\ \A y \in R : f[y] \in Nat /\ h[y] = f[y]
  BY FS_Subset
<1>2. SumOf(f, S) = f[x] + SumOf(f, R) /\ SumOf(f, R) \in Nat
  BY <1>1, SumSplit
<1>3. \A y \in S : h[y] \in Nat
  OBVIOUS
<1>4. SumOf(h, S) = h[x] + SumOf(h, R)
  BY <1>3, SumSplit
<1>5. SumOf(h, R) = SumOf(f, R)
  BY <1>1, SameSum
<1>6. h[x] = f[x] + n /\ f[x] \in Nat
  OBVIOUS
<1> HIDE DEF R
<1> QED
  BY <1>2, <1>4, <1>5, <1>6

\* An element joins a sum.
LEMMA JoinOne ==
    ASSUME NEW f, NEW h, NEW S, IsFiniteSet(S), NEW x, x \notin S, h[x] \in Nat,
           \A y \in S : f[y] \in Nat /\ h[y] = f[y]
    PROVE  SumOf(h, S \union {x}) = SumOf(f, S) + h[x]
<1> DEFINE T == S \union {x}
<1>1. IsFiniteSet(T) /\ \A y \in T : h[y] \in Nat
  BY FS_AddElement
<1>2. x \in T /\ T \ {x} = S
  OBVIOUS
<1>3. SumOf(h, T) = h[x] + SumOf(h, S)
  BY <1>1, <1>2, SumSplit
<1>4. SumOf(h, S) = SumOf(f, S) /\ SumOf(f, S) \in Nat
  BY SameSum, SumSplit
<1> HIDE DEF T
<1>5. SumOf(h, T) = SumOf(f, S) + h[x]
  BY <1>3, <1>4
<1> QED
  BY <1>5 DEF T

-----------------------------------------------------------------------------
(* The quotas: the meters add up *)

\* What the rows of the days hold and what the requests bring, as functions.
WordsOn   == [d \in Days |-> meter[d].words]
UploadsOn == [d \in Days |-> meter[d].uploads]
BytesOn   == [d \in Days |-> meter[d].bytes]
WordsOf   == [r \in Requests |-> req[r].words]
SizeOf    == [r \in Requests |-> req[r].size]

\* A request whose words, or whose file, has been added to a row.
IsRecorded(q) == q.pc = "recorded"
IsUploaded(q) == q.pc = "answered" /\ q.kind = "upload"
Recorded == {r \in Requests : IsRecorded(req[r])}
Uploaded == {r \in Requests : IsUploaded(req[r])}

\* The property, by sums of functions; and only an upload writes as one.
SumsInv ==
    /\ SumOf(WordsOn, Days) = SumOf(WordsOf, Recorded)
    /\ SumOf(UploadsOn, Days) = Cardinality(Uploaded)
    /\ SumOf(BytesOn, Days) = SumOf(SizeOf, Uploaded)

KindInv == \A r \in Requests : Uploads(req[r]) => req[r].kind = "upload"

AddUpInv == SumsInv /\ KindInv

\* What is summed over is finite.
LEMMA CountedSets ==
    /\ IsFiniteSet(Days) /\ IsFiniteSet(Recorded) /\ IsFiniteSet(Uploaded)
    /\ Cardinality(Uploaded) \in Nat
<1>1. IsFiniteSet(Days)
  BY FS_Interval DEF Days
<1>2. IsFiniteSet(Recorded) /\ IsFiniteSet(Uploaded)
  BY FS_Subset DEF Recorded, Uploaded
<1> QED
  BY <1>1, <1>2, FS_CardinalityType

\* Only an upload gets to where files are written.
LEMMA KindStep ==
    ASSUME TypeOK, KindInv, NEW r \in Requests, NEW q, Becomes(r, q),
           Uploads(q) => q.kind = "upload"
    PROVE  KindInv'
<1>1. req'[r] = q /\ \A x \in Requests : x # r => req'[x] = req[x]
  BY BecomesSets
<1>2. ASSUME NEW x \in Requests, Uploads(req'[x]) PROVE req'[x].kind = "upload"
  <2>1. CASE x = r
    BY <1>1, <1>2, <2>1
  <2>2. CASE x # r
    BY <1>1, <1>2, <2>2 DEF KindInv
  <2> QED BY <2>1, <2>2
<1> QED
  BY <1>2 DEF KindInv, Uploads

\* A step that neither comes from nor leads to what is counted leaves the sums.
LEMMA UncountedStep ==
    ASSUME TypeOK, AddUpInv, meter' = meter, NEW r \in Requests, NEW q, Becomes(r, q),
           ~IsRecorded(req[r]), ~IsUploaded(req[r]), ~IsRecorded(q), ~IsUploaded(q),
           Uploads(q) => q.kind = "upload"
    PROVE  AddUpInv'
<1>1. req'[r] = q /\ \A x \in Requests : x # r => req'[x] = req[x]
  BY BecomesSets
<1>2. \A x \in Requests : x # r => (IsRecorded(req'[x]) <=> IsRecorded(req[x]))
                                 /\ (IsUploaded(req'[x]) <=> IsUploaded(req[x]))
  BY <1>1
<1>3. ~IsRecorded(req'[r]) /\ ~IsUploaded(req'[r])
  BY <1>1, Zenon
<1>4. Recorded' = Recorded /\ r \notin Recorded
  BY <1>2, <1>3 DEF Recorded, IsRecorded
<1>5. Uploaded' = Uploaded /\ r \notin Uploaded
  BY <1>2, <1>3 DEF Uploaded, IsUploaded
<1>6. /\ \A x \in Recorded : WordsOf'[x] = WordsOf[x]
      /\ \A x \in Uploaded : SizeOf'[x] = SizeOf[x]
  BY <1>1, <1>4, <1>5 DEF WordsOf, SizeOf, Recorded, Uploaded
<1>7. SumOf(WordsOf', Recorded) = SumOf(WordsOf, Recorded) /\ SumOf(SizeOf', Uploaded) = SumOf(SizeOf, Uploaded)
  BY <1>6, SameSum
<1>8. WordsOn' = WordsOn /\ UploadsOn' = UploadsOn /\ BytesOn' = BytesOn
  BY DEF WordsOn, UploadsOn, BytesOn
<1>9. KindInv'
  BY KindStep DEF AddUpInv
<1> QED
  BY <1>4, <1>5, <1>7, <1>8, <1>9 DEF AddUpInv, SumsInv

\* A request that is refused or fails is not counted.
LEMMA EndUncounted ==
    ASSUME TypeOK, AddUpInv, meter' = meter, NEW r \in Requests, NEW pc \in {"refused", "failed"}, End(r, pc),
           ~IsRecorded(req[r]), ~IsUploaded(req[r])
    PROVE  AddUpInv'
<1> DEFINE q == [New EXCEPT !.pc = pc]
<1>1. q \in RequestStates /\ q.pc = pc
  BY EndState DEF Ended
<1>2. Becomes(r, q)
  BY <1>1 DEF End, Becomes
<1> HIDE DEF q
<1>3. ~IsRecorded(q) /\ ~IsUploaded(q) /\ ~Uploads(q)
  BY <1>1 DEF IsRecorded, IsUploaded, Uploads, UploadHolds
<1> QED
  BY <1>2, <1>3, UncountedStep

\* What an increment does to the sums over the days.
LEMMA MetersRise ==
    ASSUME TypeOK, NEW words \in Nat, NEW uploads \in Nat, NEW bytes \in Nat,
           Added(words, uploads, bytes)
    PROVE  /\ SumOf(WordsOn', Days) = SumOf(WordsOn, Days) + words
           /\ SumOf(UploadsOn', Days) = SumOf(UploadsOn, Days) + uploads
           /\ SumOf(BytesOn', Days) = SumOf(BytesOn, Days) + bytes
           /\ SumOf(WordsOn, Days) \in Nat /\ SumOf(UploadsOn, Days) \in Nat /\ SumOf(BytesOn, Days) \in Nat
<1>1. /\ today \in Days /\ IsFiniteSet(Days)
      /\ \A d \in Days : WordsOn[d] \in Nat /\ UploadsOn[d] \in Nat /\ BytesOn[d] \in Nat
  BY MeteringTypes, CountedSets DEF WordsOn, UploadsOn, BytesOn
<1>2. \A d \in Days :
         /\ WordsOn'[d] = IF d = today THEN WordsOn[d] + words ELSE WordsOn[d]
         /\ UploadsOn'[d] = IF d = today THEN UploadsOn[d] + uploads ELSE UploadsOn[d]
         /\ BytesOn'[d] = IF d = today THEN BytesOn[d] + bytes ELSE BytesOn[d]
  BY DEF Added, WordsOn, UploadsOn, BytesOn
<1>3. SumOf(WordsOn', Days) = SumOf(WordsOn, Days) + words
  BY <1>1, <1>2, RaiseOne
<1>4. SumOf(UploadsOn', Days) = SumOf(UploadsOn, Days) + uploads
  BY <1>1, <1>2, RaiseOne
<1>5. SumOf(BytesOn', Days) = SumOf(BytesOn, Days) + bytes
  BY <1>1, <1>2, RaiseOne
<1>6. SumOf(WordsOn, Days) \in Nat /\ SumOf(UploadsOn, Days) \in Nat /\ SumOf(BytesOn, Days) \in Nat
  BY <1>1, SumSplit
<1> QED
  BY <1>3, <1>4, <1>5, <1>6

\* An upload that is added joins the sums with its file.
LEMMA UploadCounted ==
    ASSUME TypeOK, AddUpInv, NEW r \in Requests, MeterUpload(r)
    PROVE  AddUpInv'
<1> DEFINE q == [req[r] EXCEPT !.pc = "answered"]
<1>1. /\ req[r].pc = "meter" /\ Goto(r, "answered") /\ Add(r, 0, 1, req[r].size)
  BY DEF MeterUpload
<1>2. Becomes(r, q) /\ q.pc = "answered" /\ q.size = req[r].size /\ q.kind = req[r].kind
  BY <1>1, GotoState DEF Ended
<1> HIDE DEF q
<1>3. /\ Uploads(req[r]) /\ ~Uploads(q) /\ IsUploaded(q) /\ ~IsRecorded(q)
      /\ ~IsUploaded(req[r]) /\ ~IsRecorded(req[r])
  BY <1>1, <1>2 DEF Uploads, UploadHolds, IsUploaded, IsRecorded, AddUpInv, KindInv
<1>4. req[r].size \in Nat /\ Added(0, 1, req[r].size) /\ today \in Days
  BY <1>1, MeteringTypes, AddStep
<1>5. req'[r] = q /\ \A x \in Requests : x # r => req'[x] = req[x]
  BY <1>2, BecomesSets
<1>6. /\ IsUploaded(req'[r]) /\ ~IsRecorded(req'[r]) /\ req'[r].size = req[r].size
      /\ \A x \in Requests : x # r => (IsRecorded(req'[x]) <=> IsRecorded(req[x]))
                                   /\ (IsUploaded(req'[x]) <=> IsUploaded(req[x]))
  BY <1>2, <1>3, <1>5, Zenon
<1>7. Recorded' = Recorded /\ r \notin Recorded
  BY <1>3, <1>6 DEF Recorded, IsRecorded
<1>8. Uploaded' = Uploaded \union {r} /\ r \notin Uploaded
  BY <1>3, <1>6 DEF Uploaded, IsUploaded
<1>9. SumOf(WordsOf', Recorded) = SumOf(WordsOf, Recorded)
  <2>1. \A x \in Recorded : WordsOf'[x] = WordsOf[x]
    BY <1>5, <1>7 DEF WordsOf, Recorded
  <2> QED BY <2>1, SameSum
<1>10. SumOf(SizeOf', Uploaded') = SumOf(SizeOf, Uploaded) + req[r].size
  <2>1. \A x \in Uploaded : SizeOf[x] \in Nat /\ SizeOf'[x] = SizeOf[x]
    BY <1>5, <1>8, MeteringTypes DEF SizeOf, Uploaded
  <2>2. SizeOf'[r] = req[r].size
    BY <1>6 DEF SizeOf
  <2>3. SumOf(SizeOf', Uploaded \union {r}) = SumOf(SizeOf, Uploaded) + SizeOf'[r]
    BY <1>4, <1>8, <2>1, <2>2, CountedSets, JoinOne
  <2> QED BY <1>8, <2>2, <2>3
<1>11. Cardinality(Uploaded') = Cardinality(Uploaded) + 1
  BY <1>8, CountedSets, FS_AddElement
<1>12. /\ SumOf(WordsOn', Days) = SumOf(WordsOn, Days)
       /\ SumOf(UploadsOn', Days) = SumOf(UploadsOn, Days) + 1
       /\ SumOf(BytesOn', Days) = SumOf(BytesOn, Days) + req[r].size
  BY <1>4, MetersRise DEF AddUpInv
<1>13. KindInv'
  BY <1>2, <1>3, KindStep DEF AddUpInv
<1> QED
  BY <1>7, <1>9, <1>10, <1>11, <1>12, <1>13 DEF AddUpInv, SumsInv

\* A chat that is added joins the sum with its words.
LEMMA WordsCounted ==
    ASSUME TypeOK, AddUpInv, NEW r \in Requests, RecordWords(r)
    PROVE  AddUpInv'
<1> DEFINE q == [req[r] EXCEPT !.pc = "recorded", !.used = 0, !.shown = Null]
<1>1. /\ req[r].pc = "record" /\ Add(r, req[r].words, 0, 0) /\ req' = [req EXCEPT ![r] = q]
  BY DEF RecordWords
<1>2. q \in RequestStates /\ q.pc = "recorded" /\ q.words = req[r].words
  <2>1. req[r] \in RequestStates
    BY MeteringTypes
  <2> QED
    BY <2>1 DEF RequestStates, Ended
<1> HIDE DEF q
<1>3. /\ Becomes(r, q) /\ ~Uploads(q) /\ IsRecorded(q) /\ ~IsUploaded(q)
      /\ ~IsUploaded(req[r]) /\ ~IsRecorded(req[r])
  BY <1>1, <1>2 DEF Becomes, Uploads, UploadHolds, IsUploaded, IsRecorded
<1>4. req[r].words \in Nat /\ Added(req[r].words, 0, 0) /\ today \in Days
  BY <1>1, MeteringTypes, AddStep
<1>5. req'[r] = q /\ \A x \in Requests : x # r => req'[x] = req[x]
  BY <1>3, BecomesSets
<1>6. /\ IsRecorded(req'[r]) /\ ~IsUploaded(req'[r]) /\ req'[r].words = req[r].words
      /\ \A x \in Requests : x # r => (IsRecorded(req'[x]) <=> IsRecorded(req[x]))
                                   /\ (IsUploaded(req'[x]) <=> IsUploaded(req[x]))
  BY <1>2, <1>3, <1>5, Zenon
<1>7. Uploaded' = Uploaded /\ r \notin Uploaded
  BY <1>3, <1>6 DEF Uploaded, IsUploaded
<1>8. Recorded' = Recorded \union {r} /\ r \notin Recorded
  BY <1>3, <1>6 DEF Recorded, IsRecorded
<1>9. SumOf(SizeOf', Uploaded) = SumOf(SizeOf, Uploaded)
  <2>1. \A x \in Uploaded : SizeOf'[x] = SizeOf[x]
    BY <1>5, <1>7 DEF SizeOf, Uploaded
  <2> QED BY <2>1, SameSum
<1>10. SumOf(WordsOf', Recorded') = SumOf(WordsOf, Recorded) + req[r].words
  <2>1. \A x \in Recorded : WordsOf[x] \in Nat /\ WordsOf'[x] = WordsOf[x]
    BY <1>5, <1>8, MeteringTypes DEF WordsOf, Recorded
  <2>2. WordsOf'[r] = req[r].words
    BY <1>6 DEF WordsOf
  <2>3. SumOf(WordsOf', Recorded \union {r}) = SumOf(WordsOf, Recorded) + WordsOf'[r]
    BY <1>4, <1>8, <2>1, <2>2, CountedSets, JoinOne
  <2> QED BY <1>8, <2>2, <2>3
<1>11. /\ SumOf(WordsOn', Days) = SumOf(WordsOn, Days) + req[r].words
       /\ SumOf(UploadsOn', Days) = SumOf(UploadsOn, Days)
       /\ SumOf(BytesOn', Days) = SumOf(BytesOn, Days)
  <2> HIDE DEF SumOf
  <2>1. /\ SumOf(WordsOn', Days) = SumOf(WordsOn, Days) + req[r].words
        /\ SumOf(UploadsOn', Days) = SumOf(UploadsOn, Days) + 0
        /\ SumOf(BytesOn', Days) = SumOf(BytesOn, Days) + 0
        /\ SumOf(UploadsOn, Days) \in Nat /\ SumOf(BytesOn, Days) \in Nat
    BY <1>4, MetersRise DEF AddUpInv
  <2> QED BY <2>1
<1>12. KindInv'
  BY <1>3, KindStep DEF AddUpInv
<1> QED
  BY <1>7, <1>8, <1>9, <1>10, <1>11, <1>12 DEF AddUpInv, SumsInv

\* Nothing is metered and nothing counted at first.
LEMMA AddUpInit == Init => AddUpInv
<1> SUFFICES ASSUME Init PROVE AddUpInv
  OBVIOUS
<1>1. Recorded = {} /\ Uploaded = {}
  BY DEF Init, New, Recorded, Uploaded, IsRecorded, IsUploaded
<1>2. SumOf(WordsOf, {}) = 0 /\ SumOf(SizeOf, {}) = 0 /\ Cardinality({}) = 0
  BY FS_EmptySet, SumOfPicked
<1>3. \A d \in Days : WordsOn[d] = 0 /\ UploadsOn[d] = 0 /\ BytesOn[d] = 0
  BY DEF Init, WordsOn, UploadsOn, BytesOn
<1>4. SumOf(WordsOn, Days) = 0 /\ SumOf(UploadsOn, Days) = 0 /\ SumOf(BytesOn, Days) = 0
  BY <1>3, CountedSets, NothingSummed
<1>5. KindInv
  BY DEF Init, New, KindInv, Uploads, UploadHolds
<1> QED
  BY <1>1, <1>2, <1>4, <1>5 DEF AddUpInv, SumsInv

\* Every other step leaves the sums, but for the two increments above.
LEMMA AddUpStep ==
    ASSUME MeteringInv, AddUpInv, [Next]_vars
    PROVE  AddUpInv'
<1> USE DEF MeteringInv
<1>1. ASSUME NEW r \in Requests, NEW kind \in {"upload", "chat"}, NEW size \in Sizes \union {0},
             Arrive(r, kind, size)
      PROVE  AddUpInv'
  <2> DEFINE q == [New EXCEPT !.pc = "check", !.kind = kind, !.size = size]
  <2>1. q \in RequestStates /\ q.pc = "check"
    BY DEF New, RequestStates
  <2>2. req[r].pc = "new" /\ req' = [req EXCEPT ![r] = q] /\ meter' = meter
    BY <1>1 DEF Arrive
  <2> HIDE DEF q
  <2>3. /\ Becomes(r, q) /\ ~IsRecorded(req[r]) /\ ~IsUploaded(req[r]) /\ ~IsRecorded(q)
        /\ ~IsUploaded(q) /\ ~Uploads(q)
    BY <2>1, <2>2 DEF Becomes, IsRecorded, IsUploaded, Uploads, UploadHolds
  <2> QED BY <2>2, <2>3, UncountedStep
<1>2. ASSUME NEW r \in Requests, NEW pc \in {"refused", "failed"}, End(r, pc), meter' = meter,
             req[r].pc \notin {"recorded", "answered"}
      PROVE  AddUpInv'
  BY <1>2, EndUncounted DEF IsRecorded, IsUploaded
<1>3. ASSUME NEW r \in Requests, NEW pc \in {"save", "status", "owner", "meter", "record"}, Goto(r, pc),
             meter' = meter, req[r].pc \notin {"recorded", "answered"},
             pc = "record" \/ req[r].kind = "upload"
      PROVE  AddUpInv'
  <2> DEFINE q == [req[r] EXCEPT !.pc = pc]
  <2>1. Becomes(r, q) /\ q.pc = pc /\ q.kind = req[r].kind
    BY <1>3, GotoState, ZenonT(30) DEF UploadHolds, Ended
  <2> HIDE DEF q
  <2>2. /\ ~IsRecorded(req[r]) /\ ~IsUploaded(req[r]) /\ ~IsRecorded(q) /\ ~IsUploaded(q)
        /\ Uploads(q) => q.kind = "upload"
    BY <1>3, <2>1 DEF IsRecorded, IsUploaded, Uploads, UploadHolds
  <2> QED BY <1>3, <2>1, <2>2, UncountedStep
<1>4. ASSUME NEW r \in Requests, RefusedOtherwise(r) \/ PoolTimeout(r) \/ Fail(r) PROVE AddUpInv'
  <2>1. PICK pc \in {"refused", "failed"} : End(r, pc)
    BY <1>4 DEF RefusedOtherwise, PoolTimeout, Fail
  <2>2. meter' = meter /\ req[r].pc \notin {"recorded", "answered"}
    BY <1>4 DEF RefusedOtherwise, PoolTimeout, Fail, Waiting, InProgress, Ended
  <2> QED BY <1>2, <2>1, <2>2
<1>5. ASSUME NEW r \in Requests, UploadCheck(r) PROVE AddUpInv'
  <2>1. meter' = meter /\ req[r].pc = "check" /\ req[r].kind = "upload"
        /\ (Goto(r, "save") \/ End(r, "refused"))
    BY <1>5 DEF UploadCheck
  <2> QED BY <1>2, <1>3, <2>1
<1>6. ASSUME NEW r \in Requests, SavePdf(r) \/ QueueRow(r) \/ RecordOwner(r) PROVE AddUpInv'
  <2>1. meter' = meter /\ req[r].pc \in {"save", "status", "owner"}
        /\ (Goto(r, "status") \/ Goto(r, "owner") \/ Goto(r, "meter"))
    BY <1>6 DEF SavePdf, QueueRow, RecordOwner
  <2>2. req[r].kind = "upload"
    BY <2>1 DEF AddUpInv, KindInv, Uploads, UploadHolds
  <2> QED BY <1>3, <2>1, <2>2
<1>7. ASSUME NEW r \in Requests, ChatCheck(r) PROVE AddUpInv'
  <2>1. CASE End(r, "refused")
    BY <1>2, <1>7, <2>1 DEF ChatCheck
  <2>2. CASE req' = [req EXCEPT ![r].pc = "stream", ![r].used = meter[today].words]
    <3> DEFINE q == [req[r] EXCEPT !.pc = "stream", !.used = meter[today].words]
    <3>1. req[r] \in RequestStates /\ meter[today].words \in Nat
      BY MeteringTypes
    <3>2. q \in RequestStates /\ q.pc = "stream"
      BY <3>1 DEF RequestStates
    <3>3. req' = [req EXCEPT ![r] = q] /\ meter' = meter /\ req[r].pc = "check"
      BY <1>7, <2>2 DEF ChatCheck
    <3> HIDE DEF q
    <3>4. /\ Becomes(r, q) /\ ~IsRecorded(req[r]) /\ ~IsUploaded(req[r]) /\ ~IsRecorded(q)
          /\ ~IsUploaded(q) /\ ~Uploads(q)
      BY <3>2, <3>3 DEF Becomes, IsRecorded, IsUploaded, Uploads, UploadHolds
    <3> QED BY <3>3, <3>4, UncountedStep
  <2> QED BY <1>7, <2>1, <2>2 DEF ChatCheck
<1>8. ASSUME NEW r \in Requests, NEW words \in Answers, Answer(r, words) PROVE AddUpInv'
  <2> DEFINE c == Counted(words, req[r].used)
             pc == IF words = 0 THEN "answered" ELSE "usage"
             q == [req[r] EXCEPT !.words = c, !.pc = pc]
  <2>1. req[r] \in RequestStates /\ c \in Nat /\ pc \in {"answered", "usage"}
    BY CountedFits, MeteringTypes
  <2>2. req[r].pc = "stream" /\ req[r].kind = "chat" /\ meter' = meter
    BY <1>8 DEF Answer, StoredInv, Stored
  <2>3. req' = [req EXCEPT ![r] = q]
    BY <1>8 DEF Answer
  <2> HIDE DEF c, pc
  <2>4. q \in RequestStates /\ q.kind = req[r].kind /\ q.pc \in {"answered", "usage"}
    BY <2>1 DEF RequestStates, Ended
  <2> HIDE DEF q
  <2>5. /\ Becomes(r, q) /\ ~IsRecorded(req[r]) /\ ~IsUploaded(req[r]) /\ ~IsRecorded(q)
        /\ ~IsUploaded(q) /\ ~Uploads(q)
    BY <2>2, <2>3, <2>4 DEF Becomes, IsRecorded, IsUploaded, Uploads, UploadHolds
  <2> QED BY <2>2, <2>5, UncountedStep
<1>9. ASSUME NEW r \in Requests, ShowUsage(r) PROVE AddUpInv'
  <2> DEFINE s == req[r].used + req[r].words
             q == [req[r] EXCEPT !.pc = "record", !.shown = s]
  <2>1. req[r] \in RequestStates /\ s \in Nat
    BY MeteringTypes
  <2>2. req' = [req EXCEPT ![r] = q] /\ meter' = meter /\ req[r].pc = "usage"
    BY <1>9 DEF ShowUsage
  <2> HIDE DEF s
  <2>3. q \in RequestStates /\ q.pc = "record"
    BY <2>1 DEF RequestStates
  <2> HIDE DEF q
  <2>4. /\ Becomes(r, q) /\ ~IsRecorded(req[r]) /\ ~IsUploaded(req[r]) /\ ~IsRecorded(q)
        /\ ~IsUploaded(q) /\ ~Uploads(q)
    BY <2>2, <2>3 DEF Becomes, IsRecorded, IsUploaded, Uploads, UploadHolds
  <2> QED BY <2>2, <2>4, UncountedStep
<1>10. ASSUME NEW r \in Requests, Disconnect(r) PROVE AddUpInv'
  <2>1. meter' = meter /\ req[r].pc \in {"stream", "usage", "record"}
        /\ (Goto(r, "record") \/ End(r, "failed"))
    BY <1>10 DEF Disconnect
  <2> QED BY <1>2, <1>3, <2>1
<1>11. CASE Midnight \/ UNCHANGED vars
  <2>1. /\ UNCHANGED <<WordsOn, UploadsOn, BytesOn, WordsOf, SizeOf>>
        /\ UNCHANGED <<Recorded, Uploaded, req>>
    BY <1>11 DEF Midnight, vars, WordsOn, UploadsOn, BytesOn, WordsOf, SizeOf, Recorded, Uploaded
  <2> QED BY <2>1 DEF AddUpInv, SumsInv, KindInv
<1> QED
  BY <1>1, <1>4, <1>5, <1>6, <1>7, <1>8, <1>9, <1>10, <1>11, UploadCounted, WordsCounted DEF Next, Steps

\* UsageMeterRepository.increment adds in one statement to what the row
\* holds: for any numbers of requests, files, words and midnights the meters
\* add up to exactly what the requests that ended counted, and what is
\* metered as an upload is stored.
THEOREM MetersHold == Spec => []MetersAddUp
<1>1. Init => AddUpInv
  BY AddUpInit
<1>2. MeteringInv /\ AddUpInv /\ [Next]_vars => AddUpInv'
  BY AddUpStep
<1>3. AddUpInv /\ MeteredIsStored => MetersAddUp
  <2> SUFFICES ASSUME AddUpInv, MeteredIsStored PROVE MetersAddUp
    OBVIOUS
  <2>1. Total(LAMBDA m : m.words) = SumOf(WordsOn, Days)
    BY ZenonT(30) DEF Total, MapThenSumSet, MapThenFoldSet, SumOf, SumsUp, Pick, WordsOn
  <2>2. Total(LAMBDA m : m.uploads) = SumOf(UploadsOn, Days)
    BY ZenonT(30) DEF Total, MapThenSumSet, MapThenFoldSet, SumOf, SumsUp, Pick, UploadsOn
  <2>3. Total(LAMBDA m : m.bytes) = SumOf(BytesOn, Days)
    BY ZenonT(30) DEF Total, MapThenSumSet, MapThenFoldSet, SumOf, SumsUp, Pick, BytesOn
  <2>4. MapThenSumSet(LAMBDA r : req[r].words, Recorded) = SumOf(WordsOf, Recorded)
    BY ZenonT(30) DEF MapThenSumSet, MapThenFoldSet, SumOf, SumsUp, Pick, WordsOf, Recorded
  <2>5. MapThenSumSet(LAMBDA r : req[r].size, Uploaded) = SumOf(SizeOf, Uploaded)
    BY ZenonT(30) DEF MapThenSumSet, MapThenFoldSet, SumOf, SumsUp, Pick, SizeOf, Uploaded
  <2>6. /\ {r \in Requests : req[r].pc = "recorded"} = Recorded
        /\ {r \in {x \in Requests : req[x].pc = "answered"} : req[r].kind = "upload"} = Uploaded
    BY DEF Recorded, Uploaded, IsRecorded, IsUploaded
  <2> QED
    BY <2>1, <2>2, <2>3, <2>4, <2>5, <2>6 DEF MetersAddUp, AddUpInv, SumsInv
<1> QED
  BY <1>1, <1>2, <1>3, MeteringInvariant, UploadIsStored, PTL DEF Spec

-----------------------------------------------------------------------------
(* The webhooks: inductive invariant *)

HIDE PlanAssumption DEF PlanAssumption

\* A request that has inserted its event's ledger row and not ended.
Claimed == {"read", "upsert", "commit", "done"}

\* One request at a time holds the key of an event, and only before the event
\* is in the ledger; an event is applied only with its ledger row.
ClaimInv ==
    /\ \A g, h \in Handlers :
         /\ g # h /\ delivery[g].pc \in Claimed /\ delivery[h].pc \in Claimed
         => delivery[g].event.id # delivery[h].event.id
    /\ \A h \in Handlers : delivery[h].pc \in Claimed => delivery[h].event.id \notin ledger
    /\ \A e \in Events : applied[e] <= 1 /\ (applied[e] > 0 => e.id \in ledger /\ e.resolves)

\* What a request has read: a row older than its event, or, when it is only
\* going to record the event, one that is not.
ReadInv ==
    \A h \in Handlers :
      LET e == delivery[h].event IN
      /\ delivery[h].pc \in {"upsert", "commit"} => e.resolves /\ ~IsStale(delivery[h].existing, e)
      /\ delivery[h].pc = "done" /\ e.resolves /\ e.sub \notin raced => IsStale(subRow[e.sub], e)

\* The period of the newest applied event that has one is that of the row.
PeriodInv ==
    \A e \in Events :
      /\ applied[e] > 0 /\ e.period_end # None /\ e.sub \notin raced
      /\ \A f \in Events : f.sub = e.sub /\ f.at > e.at /\ applied[f] > 0 => f.period_end = None
      => subRow[e.sub] # None /\ subRow[e.sub].period_end = e.period_end

WebhooksInv == WebhooksTypeOK /\ ClaimInv /\ ReadInv /\ NewestEventWins /\ PeriodInv

USE EventAssumption DEF EventAssumption

-----------------------------------------------------------------------------
(* Types *)

\* A request in progress has an event and, once it wrote, what it read.
LEMMA DeliveryType ==
    ASSUME WebhooksTypeOK, NEW h \in Handlers, delivery[h].pc # "idle"
    PROVE  /\ delivery[h] \in [pc : {"claim", "read", "upsert", "commit", "done"}, event : Events,
                               existing : SubRow \union {None}]
           /\ delivery[h].event \in Events /\ delivery[h].event.sub \in Subs
  BY DEF WebhooksTypeOK, Deliveries, Idle

LEMMA UpsertedType ==
    ASSUME NEW e \in Events, NEW existing \in SubRow \union {None}
    PROVE  Upserted(existing, e) \in SubRow
  BY DEF Upserted, SubRow

LEMMA MoveToType ==
    ASSUME WebhooksTypeOK, NEW h \in Handlers, delivery[h].pc # "idle",
           NEW pc \in {"claim", "read", "upsert", "commit", "done"}, MoveTo(h, pc)
    PROVE  delivery' \in [Handlers -> Deliveries]
  BY DeliveryType DEF MoveTo, WebhooksTypeOK, Deliveries

\* Type correctness (process_subscription_event and the tables it writes).
THEOREM WebhooksTypeCorrect == WebhooksSpec => []WebhooksTypeOK
<1>1. WebhooksInit => WebhooksTypeOK
  BY DEF WebhooksInit, WebhooksTypeOK, Deliveries
<1>2. WebhooksTypeOK /\ [WebhooksNext]_webhooks => WebhooksTypeOK'
  <2> SUFFICES ASSUME WebhooksTypeOK, [WebhooksNext]_webhooks PROVE WebhooksTypeOK'
    OBVIOUS
  <2> USE DEF WebhooksTypeOK
  <2>1. ASSUME NEW h \in Handlers, NEW e \in Events, Receive(h, e) PROVE WebhooksTypeOK'
    BY <2>1 DEF Receive, Deliveries
  <2>2. ASSUME NEW h \in Handlers, Claim(h) PROVE WebhooksTypeOK'
    BY <2>2, MoveToType DEF Claim, Deliveries
  <2>3. ASSUME NEW h \in Handlers, Read(h) PROVE WebhooksTypeOK'
    BY <2>3, MoveToType, DeliveryType DEF Read, Deliveries
  <2>4. ASSUME NEW h \in Handlers, Upsert(h) PROVE WebhooksTypeOK'
    BY <2>4, MoveToType DEF Upsert
  <2>5. ASSUME NEW h \in Handlers, Commit(h) PROVE WebhooksTypeOK'
    BY <2>5, DeliveryType, UpsertedType DEF Commit, Deliveries
  <2>6. ASSUME NEW h \in Handlers, Rollback(h) PROVE WebhooksTypeOK'
    BY <2>6 DEF Rollback, Deliveries
  <2>7. CASE UNCHANGED webhooks
    BY <2>7 DEF webhooks
  <2> QED
    BY <2>1, <2>2, <2>3, <2>4, <2>5, <2>6, <2>7 DEF WebhooksNext
<1> QED
  BY <1>1, <1>2, PTL DEF WebhooksSpec

-----------------------------------------------------------------------------
(* The inductive invariant *)

\* A step that leaves the tables alone and moves one request, which claims
\* nothing and comes to a step allowed by what it read, keeps the invariant.
LEMMA MoveKeepsInv ==
    ASSUME WebhooksInv, WebhooksTypeOK', NEW h \in Handlers,
           UNCHANGED <<ledger, subRow, applied, raced>>,
           \A g \in Handlers : g # h => delivery'[g] = delivery[g],
           \/ delivery'[h].pc \in {"idle", "claim"}
           \/ /\ delivery'[h].pc \in Claimed /\ delivery'[h].event = delivery[h].event
              /\ \/ delivery[h].pc \in Claimed
                 \/ /\ delivery[h].event.id \notin ledger
                    /\ \A g \in Handlers : ~ClaimedBy(g, delivery[h].event.id)
              /\ LET e == delivery[h].event IN
                 /\ delivery'[h].pc \in {"upsert", "commit"} =>
                       e.resolves /\ ~IsStale(delivery'[h].existing, e)
                 /\ delivery'[h].pc = "done" /\ e.resolves => IsStale(subRow[e.sub], e)
    PROVE  WebhooksInv'
<1>1. ClaimInv'
  BY DEF WebhooksInv, ClaimInv, Claimed, ClaimedBy
<1>2. ReadInv'
  <2> SUFFICES ASSUME NEW g \in Handlers
               PROVE  LET e == delivery'[g].event IN
                      /\ delivery'[g].pc \in {"upsert", "commit"} =>
                            e.resolves /\ ~IsStale(delivery'[g].existing, e)
                      /\ delivery'[g].pc = "done" /\ e.resolves /\ e.sub \notin raced =>
                            IsStale(subRow[e.sub], e)
    BY DEF ReadInv, IsStale
  <2>1. CASE g = h
    BY <2>1 DEF Claimed
  <2>2. CASE g # h
    BY <2>2 DEF WebhooksInv, ReadInv
  <2> QED
    BY <2>1, <2>2
<1>3. NewestEventWins' /\ PeriodInv'
  BY DEF WebhooksInv, NewestEventWins, PeriodInv
<1> QED
  BY <1>1, <1>2, <1>3 DEF WebhooksInv

LEMMA MovedTo ==
    ASSUME WebhooksTypeOK, NEW h \in Handlers, delivery[h].pc # "idle", NEW pc, MoveTo(h, pc)
    PROVE  /\ delivery'[h].pc = pc /\ delivery'[h].event = delivery[h].event
           /\ delivery'[h].existing = delivery[h].existing
           /\ \A g \in Handlers : g # h => delivery'[g] = delivery[g]
<1>1. delivery[h] \in [pc : {"claim", "read", "upsert", "commit", "done"}, event : Events,
                       existing : SubRow \union {None}]
  BY DeliveryType
<1>2. delivery' = [delivery EXCEPT ![h] = [delivery[h] EXCEPT !.pc = pc]]
  BY DEF MoveTo
<1> QED
  BY <1>1, <1>2 DEF WebhooksTypeOK

\* What a commit writes, and that the row it replaces is older than its event
\* or, if the requests overlapped, the subscription is marked as raced.
LEMMA CommitFacts ==
    ASSUME WebhooksInv, NEW h \in Handlers, Commit(h), delivery[h].pc = "commit"
    PROVE  LET e == delivery[h].event  x == delivery[h].existing IN
           /\ e \in Events /\ e.sub \in Subs /\ e.resolves /\ e.id \notin ledger
           /\ subRow'[e.sub] \in SubRow
           /\ subRow'[e.sub].status = e.status /\ subRow'[e.sub].last_webhook_at = e.at
           /\ subRow'[e.sub].period_end = IF e.period_end # None THEN e.period_end
                                          ELSE IF x # None THEN x.period_end ELSE None
           /\ \A s \in Subs : s # e.sub => subRow'[s] = subRow[s]
           /\ applied[e] = 0 /\ applied'[e] = 1
           /\ \A f \in Events : f # e => applied'[f] = applied[f]
           /\ raced \subseteq raced' /\ raced' \subseteq raced \union {e.sub}
           /\ e.sub \notin raced' =>
                subRow[e.sub] = x /\ (x # None => x \in SubRow /\ e.at > x.last_webhook_at)
<1> DEFINE e == delivery[h].event
           x == delivery[h].existing
<1>1. e \in Events /\ e.sub \in Subs /\ x \in SubRow \union {None}
  BY DeliveryType DEF WebhooksInv
<1>2. e.resolves /\ e.id \notin ledger /\ ~IsStale(x, e)
  BY DEF WebhooksInv, ReadInv, ClaimInv, Claimed
<1>3. applied[e] = 0
  BY <1>1, <1>2 DEF WebhooksInv, WebhooksTypeOK, ClaimInv
<1>4. subRow' = [subRow EXCEPT ![e.sub] = Upserted(x, e)]
        /\ applied' = [applied EXCEPT ![e] = @ + 1]
        /\ raced' = IF subRow[e.sub] # x THEN raced \union {e.sub} ELSE raced
  BY DEF Commit
<1>5. Upserted(x, e) \in SubRow
  BY <1>1, UpsertedType
<1>6. /\ subRow'[e.sub] = Upserted(x, e) /\ \A s \in Subs : s # e.sub => subRow'[s] = subRow[s]
      /\ applied'[e] = 1 /\ \A f \in Events : f # e => applied'[f] = applied[f]
  BY <1>1, <1>3, <1>4 DEF WebhooksInv, WebhooksTypeOK
<1>7. x # None => x \in SubRow /\ e.at > x.last_webhook_at
  BY <1>1, <1>2 DEF IsStale, SubRow
<1> QED
  BY <1>1, <1>2, <1>3, <1>4, <1>5, <1>6, <1>7, SMTT(30) DEF Upserted

LEMMA CommitKeepsInv ==
    ASSUME WebhooksInv, WebhooksTypeOK', NEW h \in Handlers, Commit(h)
    PROVE  WebhooksInv'
<1> DEFINE e == delivery[h].event
<1>1. e \in Events /\ e.sub \in Subs /\ delivery[h].pc \in {"commit", "done"}
        /\ e.id \notin ledger
  BY DeliveryType DEF WebhooksInv, Commit, ClaimInv, Claimed
<1>2. ledger' = ledger \union {e.id}
  BY DEF Commit
<1>3. delivery'[h] = Idle /\ \A g \in Handlers : g # h => delivery'[g] = delivery[g]
  BY DEF Commit, WebhooksInv, WebhooksTypeOK
<1>4. \A f \in Events : f.id \in ledger' <=> f.id \in ledger \/ f = e
  BY <1>1, <1>2
<1>5. CASE delivery[h].pc = "done"
  <2>1. UNCHANGED <<subRow, applied, raced>>
    BY <1>5 DEF Commit
  <2>2. e.resolves /\ e.sub \notin raced => IsStale(subRow[e.sub], e)
    BY <1>5 DEF WebhooksInv, ReadInv
  <2>3. ClaimInv'
    BY <1>1, <1>2, <1>3, <1>4, <2>1 DEF WebhooksInv, ClaimInv, Claimed, Idle
  <2>4. ReadInv'
    BY <1>3, <2>1 DEF WebhooksInv, ReadInv, Idle, IsStale
  <2>5. NewestEventWins'
    BY <1>1, <1>4, <2>1, <2>2 DEF WebhooksInv, NewestEventWins, IsStale
  <2>6. PeriodInv'
    BY <2>1 DEF WebhooksInv, PeriodInv
  <2> QED
    BY <2>3, <2>4, <2>5, <2>6 DEF WebhooksInv
<1>6. CASE delivery[h].pc = "commit"
  <2> DEFINE x == delivery[h].existing
  <2>1. /\ e.resolves
        /\ subRow'[e.sub] \in SubRow
        /\ subRow'[e.sub].status = e.status /\ subRow'[e.sub].last_webhook_at = e.at
        /\ subRow'[e.sub].period_end = IF e.period_end # None THEN e.period_end
                                       ELSE IF x # None THEN x.period_end ELSE None
        /\ \A s \in Subs : s # e.sub => subRow'[s] = subRow[s]
        /\ applied[e] = 0 /\ applied'[e] = 1
        /\ \A f \in Events : f # e => applied'[f] = applied[f]
        /\ raced \subseteq raced' /\ raced' \subseteq raced \union {e.sub}
        /\ e.sub \notin raced' =>
             subRow[e.sub] = x /\ (x # None => x \in SubRow /\ e.at > x.last_webhook_at)
    BY <1>6, CommitFacts
  <2>2. ClaimInv'
    BY <1>1, <1>2, <1>3, <1>4, <2>1, SMTT(30) DEF WebhooksInv, ClaimInv, Claimed, Idle
  <2>3. ReadInv'
    <3> SUFFICES ASSUME NEW g \in Handlers
                 PROVE  LET f == delivery'[g].event IN
                        /\ delivery'[g].pc \in {"upsert", "commit"} =>
                              f.resolves /\ ~IsStale(delivery'[g].existing, f)
                        /\ delivery'[g].pc = "done" /\ f.resolves /\ f.sub \notin raced' =>
                              IsStale(subRow'[f.sub], f)
      BY DEF ReadInv, IsStale
    <3>1. CASE g = h
      BY <3>1, <1>3 DEF Idle
    <3>2. CASE g # h
      <4>1. delivery'[g] = delivery[g]
        BY <3>2, <1>3
      <4> DEFINE f == delivery[g].event
      <4>2. CASE delivery[g].pc = "done" /\ f.resolves /\ f.sub \notin raced'
        <5>1. f \in Events /\ f.sub \in Subs /\ IsStale(subRow[f.sub], f)
          BY <4>2, <2>1, DeliveryType DEF WebhooksInv, ReadInv
        <5>2. e.at \in Nat /\ f.at \in Nat
          BY <1>1, <5>1
        <5>3. CASE f.sub = e.sub
          BY <4>1, <4>2, <5>1, <5>2, <5>3, <2>1 DEF IsStale, SubRow
        <5>4. CASE f.sub # e.sub
          BY <4>1, <4>2, <5>1, <5>4, <2>1 DEF IsStale
        <5> QED
          BY <5>3, <5>4
      <4> QED
        BY <4>1, <4>2 DEF WebhooksInv, ReadInv
    <3> QED
      BY <3>1, <3>2
  <2>4. NewestEventWins'
    <3> SUFFICES ASSUME NEW s \in Subs, s \notin raced'
                 PROVE  LET handled == {f \in Events : f.sub = s /\ f.resolves /\ f.id \in ledger'} IN
                        /\ subRow'[s] = None <=> handled = {}
                        /\ \A f \in handled : f.at <= subRow'[s].last_webhook_at
                        /\ handled # {} => \E f \in handled :
                              f.at = subRow'[s].last_webhook_at /\ f.status = subRow'[s].status
      BY DEF NewestEventWins
    <3> DEFINE Handled == {f \in Events : f.sub = s /\ f.resolves /\ f.id \in ledger}
    <3>1. /\ subRow[s] = None <=> Handled = {}
          /\ \A f \in Handled : f.at <= subRow[s].last_webhook_at
          /\ Handled # {} => \E f \in Handled :
                f.at = subRow[s].last_webhook_at /\ f.status = subRow[s].status
      BY <2>1 DEF WebhooksInv, NewestEventWins
    <3>2. CASE s # e.sub
      <4>1. {f \in Events : f.sub = s /\ f.resolves /\ f.id \in ledger'} = Handled
        BY <1>4, <3>2
      <4> QED
        BY <4>1, <3>1, <3>2, <2>1
    <3>3. CASE s = e.sub
      <4>1. {f \in Events : f.sub = s /\ f.resolves /\ f.id \in ledger'} = Handled \union {e}
        BY <1>1, <1>4, <3>3, <2>1
      <4>2. \A f \in Handled : f.at <= e.at
        <5> SUFFICES ASSUME NEW f \in Handled PROVE f.at <= e.at
          OBVIOUS
        <5>1. x # None /\ x = subRow[s] /\ x \in SubRow /\ e.at > x.last_webhook_at
          BY <3>1, <3>3, <2>1
        <5>2. f.at \in Nat /\ e.at \in Nat /\ x.last_webhook_at \in Nat /\ f.at <= x.last_webhook_at
          BY <1>1, <3>1, <5>1 DEF SubRow
        <5> QED BY <5>1, <5>2
      <4>3. e.at <= e.at
        BY <1>1
      <4> QED
        BY <4>1, <4>2, <4>3, <3>3, <2>1
    <3> QED
      BY <3>2, <3>3
  <2>5. PeriodInv'
    <3> SUFFICES ASSUME NEW f \in Events,
                        applied'[f] > 0, f.period_end # None, f.sub \notin raced',
                        \A g \in Events : g.sub = f.sub /\ g.at > f.at /\ applied'[g] > 0
                                            => g.period_end = None
                 PROVE  subRow'[f.sub] # None /\ subRow'[f.sub].period_end = f.period_end
      BY DEF PeriodInv
    <3>1. CASE f = e
      BY <3>1, <2>1
    <3>2. CASE f # e
      <4>1. applied[f] > 0 /\ f.sub \in Subs
        BY <3>2, <2>1
      <4>2. \A g \in Events : g.sub = f.sub /\ g.at > f.at /\ applied[g] > 0 => g.period_end = None
        BY <2>1
      <4>3. subRow[f.sub] # None /\ subRow[f.sub].period_end = f.period_end
        BY <4>1, <4>2, <2>1 DEF WebhooksInv, PeriodInv
      <4>4. CASE f.sub # e.sub
        BY <4>1, <4>3, <4>4, <2>1
      <4>5. CASE f.sub = e.sub
        <5>1. f.resolves /\ f.id \in ledger
          BY <4>1 DEF WebhooksInv, ClaimInv
        <5>2. f.at <= subRow[f.sub].last_webhook_at
          BY <5>1, <4>1, <2>1 DEF WebhooksInv, NewestEventWins
        <5>3. x # None /\ x = subRow[f.sub] /\ e.at > x.last_webhook_at /\ x.last_webhook_at \in Nat
          BY <4>3, <4>5, <2>1 DEF SubRow
        <5>4. e.at > f.at
          <6>1. e.at \in Nat /\ f.at \in Nat
            BY <1>1
          <6> QED BY <5>2, <5>3, <6>1
        <5>5. e.period_end = None
          BY <5>4, <1>1, <4>5, <2>1
        <5> QED
          BY <5>3, <5>5, <4>3, <4>5, <2>1, SMTT(30)
      <4> QED
        BY <4>4, <4>5
    <3> QED
      BY <3>1, <3>2
  <2> QED
    BY <2>2, <2>3, <2>4, <2>5 DEF WebhooksInv
<1> QED
  BY <1>1, <1>5, <1>6

LEMMA WebhooksInvStep ==
    ASSUME WebhooksInv, [WebhooksNext]_webhooks, WebhooksTypeOK'
    PROVE  WebhooksInv'
<1>1. ASSUME NEW h \in Handlers, NEW e \in Events, Receive(h, e) PROVE WebhooksInv'
  <2>1. /\ delivery'[h].pc = "claim" /\ \A g \in Handlers : g # h => delivery'[g] = delivery[g]
        /\ UNCHANGED <<ledger, subRow, applied, raced>>
    BY <1>1 DEF Receive, WebhooksInv, WebhooksTypeOK
  <2> QED BY <2>1, MoveKeepsInv
<1>2. ASSUME NEW h \in Handlers, Claim(h) PROVE WebhooksInv'
  <2>1. /\ delivery[h].pc = "claim" /\ \A g \in Handlers : ~ClaimedBy(g, delivery[h].event.id)
        /\ UNCHANGED <<ledger, subRow, applied, raced>>
    BY <1>2 DEF Claim
  <2>2. CASE delivery[h].event.id \in ledger
    <3>1. delivery'[h].pc = "idle" /\ \A g \in Handlers : g # h => delivery'[g] = delivery[g]
      BY <1>2, <2>2 DEF Claim, Idle, WebhooksInv, WebhooksTypeOK
    <3> QED BY <2>1, <3>1, MoveKeepsInv
  <2>3. CASE delivery[h].event.id \notin ledger
    <3>1. MoveTo(h, "read")
      BY <1>2, <2>3 DEF Claim
    <3>2. /\ delivery'[h].pc = "read" /\ delivery'[h].event = delivery[h].event
          /\ \A g \in Handlers : g # h => delivery'[g] = delivery[g]
      BY <3>1, <2>1, MovedTo DEF WebhooksInv
    <3> QED BY <2>1, <2>3, <3>2, MoveKeepsInv DEF Claimed
  <2> QED BY <2>2, <2>3
<1>3. ASSUME NEW h \in Handlers, Read(h) PROVE WebhooksInv'
  <2> DEFINE e == delivery[h].event
  <2>1. delivery[h].pc = "read" /\ UNCHANGED <<ledger, subRow, applied, raced>>
    BY <1>3 DEF Read
  <2>2. CASE ~e.resolves \/ IsStale(subRow[e.sub], e)
    <3>1. MoveTo(h, "done")
      BY <1>3, <2>2 DEF Read
    <3>2. /\ delivery'[h].pc = "done" /\ delivery'[h].event = e
          /\ \A g \in Handlers : g # h => delivery'[g] = delivery[g]
      BY <3>1, <2>1, MovedTo DEF WebhooksInv
    <3> QED BY <2>1, <2>2, <3>2, MoveKeepsInv DEF Claimed
  <2>3. CASE ~(~e.resolves \/ IsStale(subRow[e.sub], e))
    <3>1. delivery' = [delivery EXCEPT ![h] = [delivery[h] EXCEPT !.pc = "upsert", !.existing = subRow[e.sub]]]
      BY <1>3, <2>3 DEF Read
    <3>2. delivery[h] \in [pc : {"claim", "read", "upsert", "commit", "done"}, event : Events,
                           existing : SubRow \union {None}]
      BY <2>1, DeliveryType DEF WebhooksInv
    <3>3. /\ delivery'[h].pc = "upsert" /\ delivery'[h].event = e
          /\ delivery'[h].existing = subRow[e.sub]
          /\ \A g \in Handlers : g # h => delivery'[g] = delivery[g]
      BY <3>1, <3>2 DEF WebhooksInv, WebhooksTypeOK
    <3> QED BY <2>1, <2>3, <3>3, MoveKeepsInv DEF Claimed
  <2> QED BY <2>2, <2>3
<1>4. ASSUME NEW h \in Handlers, Upsert(h) PROVE WebhooksInv'
  <2>1. /\ delivery[h].pc = "upsert" /\ MoveTo(h, "commit")
        /\ UNCHANGED <<ledger, subRow, applied, raced>>
    BY <1>4 DEF Upsert
  <2>2. /\ delivery'[h].pc = "commit" /\ delivery'[h].event = delivery[h].event
        /\ delivery'[h].existing = delivery[h].existing
        /\ \A g \in Handlers : g # h => delivery'[g] = delivery[g]
    BY <2>1, MovedTo DEF WebhooksInv
  <2>3. delivery[h].event.resolves /\ ~IsStale(delivery[h].existing, delivery[h].event)
    BY <2>1 DEF WebhooksInv, ReadInv
  <2> QED BY <2>1, <2>2, <2>3, MoveKeepsInv DEF Claimed
<1>5. ASSUME NEW h \in Handlers, Commit(h) PROVE WebhooksInv'
  BY <1>5, CommitKeepsInv
<1>6. ASSUME NEW h \in Handlers, Rollback(h) PROVE WebhooksInv'
  <2>1. /\ delivery'[h].pc = "idle" /\ \A g \in Handlers : g # h => delivery'[g] = delivery[g]
        /\ UNCHANGED <<ledger, subRow, applied, raced>>
    BY <1>6 DEF Rollback, Idle, WebhooksInv, WebhooksTypeOK
  <2> QED BY <2>1, MoveKeepsInv
<1>7. CASE UNCHANGED webhooks
  BY <1>7 DEF webhooks, WebhooksInv, ClaimInv, ReadInv, IsStale, NewestEventWins, PeriodInv
<1> QED
  BY <1>1, <1>2, <1>3, <1>4, <1>5, <1>6, <1>7 DEF WebhooksNext

LEMMA WebhooksInvariant == WebhooksSpec => []WebhooksInv
<1>1. WebhooksInit => WebhooksInv
  BY DEF WebhooksInit, WebhooksInv, WebhooksTypeOK, Deliveries, ClaimInv, Claimed, ReadInv,
         NewestEventWins, PeriodInv, Idle
<1>2. WebhooksInv /\ WebhooksTypeOK' /\ [WebhooksNext]_webhooks => WebhooksInv'
  BY WebhooksInvStep
<1> QED
  BY <1>1, <1>2, WebhooksTypeCorrect, PTL DEF WebhooksSpec

-----------------------------------------------------------------------------
(* The properties *)

\* An event is written to its subscription at most once, together with its
\* ledger row, for any number of repeated and concurrent deliveries (try_claim,
\* mark_done and the commit of the webhook's session).
THEOREM AppliedOnce == WebhooksSpec => []AppliedOnceWithItsLedgerRow
<1>1. WebhooksInv => AppliedOnceWithItsLedgerRow
  BY DEF WebhooksInv, ClaimInv, AppliedOnceWithItsLedgerRow
<1> QED
  BY <1>1, WebhooksInvariant, PTL

\* In whatever order they are delivered, the newest event of a subscription
\* decides its row, unless two of its requests overlapped
\* (process_subscription_event, upsert_from_dodo).
THEOREM NewestDecides == WebhooksSpec => []NewestEventWins
  BY WebhooksInvariant, PTL DEF WebhooksInv

\* A cancellation or a hold keeps the period that was paid, unless two requests
\* overlapped (the period known at the read is written back).
THEOREM PaidPeriodKept == WebhooksSpec => []PaidPeriodIsKept
<1>1. WebhooksInv => PaidPeriodIsKept
  <2> SUFFICES ASSUME WebhooksInv, NEW e \in Events,
                      applied[e] > 0, e.period_end # None, e.sub \notin raced,
                      \A f \in Events : f.sub = e.sub /\ f.at > e.at /\ applied[f] > 0
                                          => f.period_end = None,
                      subRow[e.sub].status \in {"cancelled", "on_hold"},
                      NEW now \in 0..e.period_end
               PROVE  Entitles(subRow[e.sub], now)
    BY DEF PaidPeriodIsKept
  <2>1. subRow[e.sub].period_end = e.period_end /\ e.period_end \in Nat
    BY DEF WebhooksInv, PeriodInv
  <2> QED
    BY <2>1 DEF Entitles, KeepPlanStatuses
<1> QED
  BY <1>1, WebhooksInvariant, PTL

-----------------------------------------------------------------------------
(* Deliveries, requests and checkouts, together *)

\* The parts run each on its own, and each as its own specification says.
LEMMA PartsRunAlone ==
    MCSpec => WebhooksSpec /\ Spec /\ CheckoutSpec
<1>1. MCInit => WebhooksInit /\ Init /\ CheckoutInit
  BY DEF MCInit
<1>2. ASSUME [MCNext]_<<part, webhooks, vars, checkout>>
      PROVE  [WebhooksNext]_webhooks /\ [Next]_vars /\ [CheckoutNext]_checkout
  BY <1>2 DEF MCNext
<1> QED
  BY <1>1, <1>2, PTL DEF MCSpec, WebhooksSpec, Spec, CheckoutSpec

\* Type correctness of everything about paying and counting, run side by side.
THEOREM BillingTypeCorrect == MCSpec => []BillingTypeOK
<1>1. WebhooksTypeOK /\ TypeOK /\ CheckoutTypeOK => BillingTypeOK
  BY DEF BillingTypeOK
<1> QED
  BY <1>1, PartsRunAlone, WebhooksTypeCorrect, MeteringTypeCorrect, CheckoutTypeCorrect, PTL

=============================================================================
