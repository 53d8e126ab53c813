----------------------------- MODULE CartService -----------------------------
(***************************************************************************)
(* The shopping-cart service (Assignment 8) over either of its stores.     *)
(* MySQLStore keeps one row per product and changes it in one statement;   *)
(* DynamoStore keeps a cart in one item, which AddItem reads, changes in   *)
(* memory and writes back whole, unconditionally.  Requests interleave at  *)
(* every call to the database, and a call that fails may have taken        *)
(* effect.                                                                 *)
(***************************************************************************)
EXTENDS Integers

CONSTANTS Carts, Products, Quantities,
          Adds,       \* identities of AddItem calls
          Failures    \* whether calls to the database may fail

ASSUME ServiceAssumption == /\ Carts # {} /\ Products # {} /\ Quantities # {}
                            /\ Quantities \subseteq Nat \ {0}
                            /\ Failures \in BOOLEAN

VARIABLES database,   \* DB_TYPE: "mysql" or "dynamodb"
          carts,   \* the database: cart -> NoCart or product -> quantity
          adds,    \* AddItem call -> its local state and its answer
          effect   \* history: the calls that changed the database

vars == <<database, carts, adds, effect>>

NoCart == [p \in Products |-> -1]
EmptyCart == [p \in Products |-> 0]

Contents == [Products -> Quantities \cup {0}]

(* cart: what GetCart last returned to the call; at the end, its answer. *)
Add == [phase : {"new", "verified", "upserted", "added", "notfound", "failed"},
        id : Carts, product : Products, quantity : Quantities,
        cart : Contents]

TypeOK ==
    /\ database \in {"mysql", "dynamodb"}
    /\ carts \in [Carts -> Contents \cup {NoCart}]
    /\ adds \in [Adds -> Add]
    /\ effect \subseteq Adds

Init ==
    /\ database \in {"mysql", "dynamodb"}
    /\ carts = [c \in Carts |-> NoCart]
    /\ adds = [a \in Adds |->
                 [phase |-> "new", id |-> CHOOSE c \in Carts : TRUE,
                  product |-> CHOOSE p \in Products : TRUE,
                  quantity |-> CHOOSE q \in Quantities : TRUE,
                  cart |-> EmptyCart]]
    /\ effect = {}

(* CreateCart draws a fresh uuid and inserts an empty cart. *)
CreateCart(c) ==
    /\ carts[c] = NoCart
    /\ carts' = [carts EXCEPT ![c] = EmptyCart]
    /\ UNCHANGED <<database, adds, effect>>

(* AddItem's first call: SELECT EXISTS in MySQL, GetCart in DynamoDB,      *)
(* which also reads the contents.                                          *)
Verify(a, c, p, q) ==
    /\ adds[a].phase = "new"
    /\ adds' = [adds EXCEPT ![a] =
          [phase |-> IF carts[c] = NoCart THEN "notfound" ELSE "verified",
           id |-> c, product |-> p, quantity |-> q,
           cart |-> IF carts[c] # NoCart /\ database = "dynamodb"
                    THEN carts[c] ELSE EmptyCart]]
    /\ UNCHANGED <<database, carts, effect>>

WithItem(contents, a) ==
    [contents EXCEPT ![adds[a].product] = adds[a].quantity]

(* Mutant: rows are deleted and inserted again from what was read before. *)
UpsertReplacesCart(a, ok) ==
    /\ adds[a].phase = "verified"
    /\ database = "mysql"
    /\ carts' = [carts EXCEPT ![adds[a].id] = WithItem(EmptyCart, a)]
    /\ adds' = [adds EXCEPT ![a].phase = IF ok THEN "upserted" ELSE "failed"]
    /\ effect' = effect \cup {a}
    /\ UNCHANGED database

(* MySQL: INSERT ... ON DUPLICATE KEY UPDATE. *)
Upsert(a, ok) ==
    /\ adds[a].phase = "verified"
    /\ database = "mysql"
    /\ ok \/ Failures
    /\ carts' = [carts EXCEPT ![adds[a].id] = WithItem(@, a)]
    /\ adds' = [adds EXCEPT ![a].phase = IF ok THEN "upserted" ELSE "failed"]
    /\ effect' = effect \cup {a}
    /\ UNCHANGED database

(* MySQL: the closing GetCart, whose items come from one SELECT. *)
ReadBack(a) ==
    /\ adds[a].phase = "upserted"
    /\ adds' = [adds EXCEPT ![a].phase = "added",
                            ![a].cart = carts[adds[a].id]]
    /\ UNCHANGED <<database, carts, effect>>

(* Mutant: the answer is the cart before the change. *)
PutBackAnswersOld(a, ok) ==
    /\ adds[a].phase = "verified"
    /\ database = "dynamodb"
    /\ ok \/ Failures
    /\ carts' = [carts EXCEPT ![adds[a].id] = WithItem(adds[a].cart, a)]
    /\ adds' = [adds EXCEPT ![a].phase = IF ok THEN "added" ELSE "failed"]
    /\ effect' = effect \cup {a}
    /\ UNCHANGED database

(* DynamoDB: PutItem of the changed copy, which is also the answer. *)
PutBack(a, ok) ==
    /\ adds[a].phase = "verified"
    /\ database = "dynamodb"
    /\ ok \/ Failures
    /\ LET cart == WithItem(adds[a].cart, a)
       IN  /\ carts' = [carts EXCEPT ![adds[a].id] = cart]
           /\ adds' = [adds EXCEPT ![a].phase = IF ok THEN "added" ELSE "failed",
                                   ![a].cart = cart]
    /\ effect' = effect \cup {a}
    /\ UNCHANGED database

(* A call to the database fails and changes nothing: 500. *)
CallFails(a) ==
    /\ Failures
    /\ adds[a].phase \in {"new", "verified", "upserted"}
    /\ adds' = [adds EXCEPT ![a].phase = "failed"]
    /\ UNCHANGED <<database, carts, effect>>

Next ==
    \/ \E c \in Carts : CreateCart(c)
    \/ \E a \in Adds :
          \/ \E c \in Carts, p \in Products, q \in Quantities : Verify(a, c, p, q)
          \/ \E ok \in BOOLEAN : Upsert(a, ok) \/ PutBack(a, ok)
          \/ ReadBack(a)
          \/ CallFails(a)

Spec == Init /\ [][Next]_vars

-----------------------------------------------------------------------------
(* Properties *)

(* Over MySQL the service is what the interface says: each AddItem that    *)
(* took effect did so at one instant and touched one product of one cart.  *)
Interface == INSTANCE CartSpec WITH applied <- effect

ImplementsInterface ==
    /\ Interface!SpecInit
    /\ [][database = "mysql" => Interface!SpecNext]_(Interface!specVars)

(* Nothing removes items, so an item whose AddItem was answered 201 is in  *)
(* the cart at every later read ("ensuring read-after-write correctness    *)
(* for cart operations", dynamo_store.go).                                 *)
AddedItemsStay ==
    \A a \in Adds :
        adds[a].phase = "added" => carts[adds[a].id][adds[a].product] > 0

(* The cart that AddItem answers with holds the product, with its own      *)
(* quantity or one that another call has set.                              *)
AnswerHasItem ==
    \A a \in Adds :
        adds[a].phase = "added" =>
            \E b \in effect : /\ adds[b].id = adds[a].id
                              /\ adds[b].product = adds[a].product
                              /\ adds[b].quantity = adds[a].cart[adds[a].product]
=============================================================================
