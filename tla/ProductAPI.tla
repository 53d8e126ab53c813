----------------------------- MODULE ProductAPI -----------------------------
(***************************************************************************)
(* The product API (Assignment 5): a map from product ids to products      *)
(* under an RWMutex.  A body is decoded, validated, completed with the id  *)
(* of the path and only then stored.  Of the two texts of a product the    *)
(* lengths matter, and which request they came from.                       *)
(***************************************************************************)
EXTENDS Integers, Sequences

CONSTANTS ProductIds,          \* ids that occur in paths
          DetailPosts,         \* POST /products/{id}/details requests
          ProductGets          \* GET /products/{id} requests

ASSUME ProductIdAssumption == ProductIds \subseteq Nat \ {0}

VARIABLES products,   \* id -> the product stored under it
          mu,         \* who holds the RWMutex
          detailPosts, productGets,   \* request -> state of its handler
          stores      \* history: the POSTs in the order they were stored

productAPI == <<products, mu, detailPosts, productGets, stores>>

(* What the Go type can hold, at both sides of each limit; a field that is *)
(* missing in the body is 0 or "".                                         *)
Body == [product_id : {0} \cup ProductIds, sku : {0, 1, 100, 101},
         manufacturer : {0, 1, 200, 201}, category_id : {-1, 0, 1},
         weight : {-1, 0}, some_other_id : {0, 1}]

NoProduct == [absent |-> TRUE]

APIInit ==
    /\ products = [i \in ProductIds |-> NoProduct]
    /\ mu = [writer |-> {}, readers |-> {}]
    /\ detailPosts = [p \in DetailPosts |-> [phase |-> "new"]]
    /\ productGets = [g \in ProductGets |-> [phase |-> "new"]]
    /\ stores = <<>>

(* validateProduct finds no error. *)
Valid(body, id) ==
    /\ body.product_id = 0 \/ body.product_id = id
    /\ ~(body.sku = 0 \/ body.sku > 100)
    /\ ~(body.manufacturer = 0 \/ body.manufacturer > 200)
    /\ ~(body.category_id < 1)
    /\ ~(body.weight < 0)
    /\ ~(body.some_other_id < 1)

(* Mutant: the id of the body is kept. *)
WithBodyId(body, id) == body

WithPathId(body, id) == [body EXCEPT !.product_id = id]

(* addProductDetails up to the lock: 400, or the product to be stored. *)
PostDecoded(p, id, body) ==
    /\ detailPosts[p].phase = "new"
    /\ detailPosts' = [detailPosts EXCEPT ![p] =
         IF Valid(body, id)
         THEN [phase |-> "valid", id |-> id,
               product |-> WithPathId(body, id)]
         ELSE [phase |-> "400"]]
    /\ UNCHANGED <<products, mu, productGets, stores>>

Post(p, from, to) ==
    /\ detailPosts[p].phase = from
    /\ detailPosts' = [detailPosts EXCEPT ![p].phase = to]

PostLock(p) ==
    /\ mu.writer = {} /\ mu.readers = {}
    /\ Post(p, "valid", "locked")
    /\ mu' = [mu EXCEPT !.writer = {p}]
    /\ UNCHANGED <<products, productGets, stores>>

PostStores(p) ==
    /\ Post(p, "locked", "stored")
    /\ products' = [products EXCEPT ![detailPosts[p].id] = detailPosts[p].product]
    /\ stores' = Append(stores, p)
    /\ UNCHANGED <<mu, productGets>>

(* Unlock, and 204. *)
PostUnlock(p) ==
    /\ Post(p, "stored", "204")
    /\ mu' = [mu EXCEPT !.writer = {}]
    /\ UNCHANGED <<products, productGets, stores>>

-----------------------------------------------------------------------------
(* getProduct *)

(* The request comes in. *)
GetArrives(g, id) ==
    /\ productGets[g].phase = "new"
    /\ productGets' = [productGets EXCEPT ![g] =
          [phase |-> "arrived", id |-> id,
           after |-> {p \in DetailPosts : detailPosts[p].phase = "204"}]]
    /\ UNCHANGED <<products, mu, detailPosts, stores>>

GetLock(g) ==
    /\ mu.writer = {}
    /\ productGets[g].phase = "arrived"
    /\ mu' = [mu EXCEPT !.readers = @ \cup {g}]
    /\ productGets' = [productGets EXCEPT ![g].phase = "locked"]
    /\ UNCHANGED <<products, detailPosts, stores>>

(* The lookup, the unlock, and 200 or 404. *)
GetAnswers(g) ==
    /\ productGets[g].phase = "locked"
    /\ productGets' = [productGets EXCEPT ![g] =
          [phase |-> "answered", id |-> @.id, after |-> @.after,
           product |-> products[@.id]]]
    /\ mu' = [mu EXCEPT !.readers = @ \ {g}]
    /\ UNCHANGED <<products, detailPosts, stores>>

APINext ==
    \/ \E p \in DetailPosts :
          \/ \E id \in ProductIds, body \in Body : PostDecoded(p, id, body)
          \/ PostLock(p) \/ PostStores(p) \/ PostUnlock(p)
    \/ \E g \in ProductGets :
          \/ \E id \in ProductIds : GetArrives(g, id)
          \/ GetLock(g) \/ GetAnswers(g)

APISpec == APIInit /\ [][APINext]_productAPI

-----------------------------------------------------------------------------
(* Properties *)

(* What a GET may answer: no product only if no POST to that id was        *)
(* answered 204 before it arrived; otherwise a product within the limits   *)
(* of the schema, with the id that was asked for, as one POST to that id   *)
(* sent it, and not one that another POST, answered before the GET         *)
(* arrived, had replaced.                                                  *)
AnswersCurrentProduct ==
    \A g \in ProductGets :
        productGets[g].phase = "answered" =>
            LET get == productGets[g]
                before == {i \in DOMAIN stores :
                             /\ detailPosts[stores[i]].id = get.id
                             /\ stores[i] \in get.after}
                source == {i \in DOMAIN stores :
                             /\ detailPosts[stores[i]].id = get.id
                             /\ detailPosts[stores[i]].product = get.product}
            IN  IF get.product = NoProduct
                THEN before = {}
                ELSE /\ get.product.product_id = get.id
                     /\ get.product.sku \in 1..100
                     /\ get.product.manufacturer \in 1..200
                     /\ get.product.category_id > 0
                     /\ get.product.weight >= 0
                     /\ get.product.some_other_id > 0
                     /\ \E i \in source : \A j \in before : j <= i
=============================================================================
