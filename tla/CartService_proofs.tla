------------------------- MODULE CartService_proofs --------------------------
(***************************************************************************)
(* Theorems about the shopping-cart service, for every number of carts,    *)
(* products and overlapping requests, whichever calls to the database      *)
(* fail.                                                                   *)
(***************************************************************************)
EXTENDS CartService, TLAPS

(* Setting the quantity of a product keeps a cart's contents in order, and *)
(* a cart with contents exists.                                            *)
LEMMA ContentsKept ==
    ASSUME NEW contents \in Contents, NEW p \in Products, NEW q \in Quantities
    PROVE  /\ [contents EXCEPT ![p] = q] \in Contents
           /\ [contents EXCEPT ![p] = q][p] = q
           /\ \A r \in Products \ {p} : [contents EXCEPT ![p] = q][r] = contents[r]
BY DEF Contents

(* The placeholder of a cart that is not there is no contents. *)
LEMMA CartExists ==
    /\ NoCart \notin Contents /\ EmptyCart \in Contents
    /\ EmptyCart # NoCart
<1>1. \A c \in Contents, p \in Products : c[p] # -1
  BY ServiceAssumption DEF Contents
<1>2. \A p \in Products : NoCart[p] = -1
  BY DEF NoCart
<1>3. NoCart \notin Contents
  BY <1>1, <1>2, ServiceAssumption
<1>4. EmptyCart \in Contents
  BY DEF EmptyCart, Contents
<1> QED
  BY <1>3, <1>4

-----------------------------------------------------------------------------
(* The inductive invariant *)

(* A call past its check has a cart to work on: carts are never removed. *)
CartsExist ==
    \A a \in Adds : adds[a].phase \in {"verified", "upserted", "added"} =>
                        carts[adds[a].id] \in Contents

(* A call changes the database once: no retry, and no change before the    *)
(* check or after an answer.                                               *)
EffectOnce ==
    \A a \in effect : adds[a].phase \in {"upserted", "added", "failed"}

(* What call b put into a cart. *)
PutBy(b, c, p, q) ==
    adds[b].id = c /\ adds[b].product = p /\ adds[b].quantity = q

(* Over MySQL every item in a cart is there because of a call, and that of *)
(* a call which has upserted its item stays until the cart is read back.   *)
ItemsFromCalls ==
    database = "mysql" =>
        /\ \A c \in Carts, p \in Products :
              carts[c] \in Contents /\ carts[c][p] # 0 =>
                  \E b \in effect : PutBy(b, c, p, carts[c][p])
        /\ \A a \in Adds :
              adds[a].phase = "upserted" => carts[adds[a].id][adds[a].product] # 0

(* Only MySQLStore reads the cart back after its change. *)
UpsertedOverMySQL ==
    \A a \in Adds : adds[a].phase = "upserted" => database = "mysql"

CartInv == /\ TypeOK /\ CartsExist /\ EffectOnce
           /\ ItemsFromCalls /\ UpsertedOverMySQL /\ AnswerHasItem

(* A call's parameters are in range, and a change of its phase keeps them. *)
LEMMA AddFields ==
    ASSUME TypeOK, NEW a \in Adds
    PROVE  /\ adds[a].id \in Carts /\ adds[a].product \in Products
           /\ adds[a].quantity \in Quantities /\ adds[a].cart \in Contents
           /\ adds[a].quantity # 0
<1>1. adds[a] \in Add
  BY DEF TypeOK
<1> QED
  BY <1>1, ServiceAssumption DEF Add

(* What an action leaves of the calls: the parameters of a call are fixed  *)
(* by its check, and the other calls' state is their own.                  *)
LEMMA AddStep ==
    ASSUME TypeOK, NEW a \in Adds, NEW ph \in {"upserted", "added", "failed"},
           NEW cart \in Contents,
           adds' = [adds EXCEPT ![a].phase = ph, ![a].cart = cart]
    PROVE  /\ adds' \in [Adds -> Add]
           /\ adds'[a].phase = ph /\ adds'[a].cart = cart
           /\ \A b \in Adds \ {a} : adds'[b] = adds[b]
           /\ \A b \in Adds : /\ adds'[b].id = adds[b].id
                              /\ adds'[b].product = adds[b].product
                              /\ adds'[b].quantity = adds[b].quantity
<1> DEFINE x == [adds[a] EXCEPT !.phase = ph, !.cart = cart]
<1>1. adds[a] \in Add
  BY DEF TypeOK
<1>2. x \in Add
  BY <1>1 DEF Add
<1>3. /\ x.phase = ph /\ x.cart = cart /\ x.id = adds[a].id
      /\ x.product = adds[a].product /\ x.quantity = adds[a].quantity
  BY <1>1 DEF Add
<1>4. adds' = [adds EXCEPT ![a] = x]
  OBVIOUS
<1> HIDE DEF x
<1>5. adds \in [Adds -> Add]
  BY DEF TypeOK
<1>6. adds' \in [Adds -> Add] /\ adds'[a] = x
  BY <1>2, <1>4, <1>5
<1>7. \A b \in Adds \ {a} : adds'[b] = adds[b]
  BY <1>4, <1>5
<1> QED
  BY <1>3, <1>6, <1>7

(* A step that changes a phase only is one that writes the cart it had. *)
LEMMA PhaseStep ==
    ASSUME TypeOK, NEW a \in Adds, NEW ph \in {"upserted", "added", "failed"},
           adds' = [adds EXCEPT ![a].phase = ph]
    PROVE  /\ adds[a].cart \in Contents
           /\ adds' = [adds EXCEPT ![a].phase = ph, ![a].cart = adds[a].cart]
<1> DEFINE x == [adds[a] EXCEPT !.phase = ph]
           y == [adds[a] EXCEPT !.phase = ph, !.cart = adds[a].cart]
<1>1. adds[a] \in Add
  BY DEF TypeOK
<1>2. x = y
  BY <1>1 DEF Add
<1>3. adds' = [adds EXCEPT ![a] = y]
  BY <1>2
<1> QED
  BY <1>3, AddFields

(* The two changes of the database: one item set in the cart as it is, or  *)
(* in the cart as it was read.                                             *)
LEMMA UpsertChange ==
    ASSUME CartInv, NEW a \in Adds, NEW ok \in BOOLEAN, Upsert(a, ok)
    PROVE  /\ adds[a].phase = "verified" /\ database = "mysql"
           /\ carts[adds[a].id] \in Contents
           /\ WithItem(carts[adds[a].id], a) \in Contents
           /\ carts' = [carts EXCEPT ![adds[a].id] = WithItem(carts[adds[a].id], a)]
           /\ effect' = effect \cup {a} /\ UNCHANGED database
           /\ \E ph \in {"upserted", "failed"} : adds' = [adds EXCEPT ![a].phase = ph]
<1>1. adds[a].phase = "verified" /\ database = "mysql"
  BY DEF Upsert
<1>2. carts[adds[a].id] \in Contents
  BY <1>1 DEF CartInv, CartsExist
<1>3. WithItem(carts[adds[a].id], a) \in Contents
  BY <1>2, AddFields, ContentsKept DEF WithItem, CartInv
<1>4. carts' = [carts EXCEPT ![adds[a].id] = WithItem(carts[adds[a].id], a)]
  BY DEF Upsert
<1>5. /\ effect' = effect \cup {a} /\ UNCHANGED database
      /\ \E ph \in {"upserted", "failed"} : adds' = [adds EXCEPT ![a].phase = ph]
  BY DEF Upsert
<1> QED
  BY <1>1, <1>2, <1>3, <1>4, <1>5

(* The same for DynamoDB. *)
LEMMA PutBackChange ==
    ASSUME CartInv, NEW a \in Adds, NEW ok \in BOOLEAN, PutBack(a, ok)
    PROVE  LET cart == WithItem(adds[a].cart, a)
           IN  /\ adds[a].phase = "verified" /\ database = "dynamodb"
               /\ cart \in Contents
               /\ cart[adds[a].product] = adds[a].quantity
               /\ carts' = [carts EXCEPT ![adds[a].id] = cart]
               /\ effect' = effect \cup {a} /\ UNCHANGED database
               /\ \E ph \in {"added", "failed"} :
                     adds' = [adds EXCEPT ![a].phase = ph, ![a].cart = cart]
<1>1. TypeOK
  BY DEF CartInv
<1>2. WithItem(adds[a].cart, a) \in Contents
      /\ WithItem(adds[a].cart, a)[adds[a].product] = adds[a].quantity
  BY <1>1, AddFields, ContentsKept DEF WithItem
<1>3. /\ adds[a].phase = "verified" /\ database = "dynamodb"
      /\ carts' = [carts EXCEPT ![adds[a].id] = WithItem(adds[a].cart, a)]
      /\ effect' = effect \cup {a} /\ UNCHANGED database
  BY DEF PutBack
<1>4. \E ph \in {"added", "failed"} :
         adds' = [adds EXCEPT ![a].phase = ph, ![a].cart = WithItem(adds[a].cart, a)]
  BY DEF PutBack
<1> QED
  BY <1>2, <1>3, <1>4

(* Every step keeps the invariant, whatever calls overlap. *)
LEMMA CartInvariant == Spec => []CartInv
<1> USE ServiceAssumption
<1>1. Init => CartInv
  <2> SUFFICES ASSUME Init PROVE CartInv
    OBVIOUS
  <2>1. /\ (CHOOSE c \in Carts : TRUE) \in Carts
        /\ (CHOOSE p \in Products : TRUE) \in Products
        /\ (CHOOSE q \in Quantities : TRUE) \in Quantities
    OBVIOUS
  <2>2. ASSUME NEW a \in Adds PROVE adds[a] \in Add /\ adds[a].phase = "new"
    BY <2>1, CartExists DEF Init, Add
  <2>3. adds \in [Adds -> Add]
    BY <2>2 DEF Init
  <2>4. TypeOK
    BY <2>3 DEF Init, TypeOK
  <2>5. \A c \in Carts : carts[c] = NoCart
    BY DEF Init
  <2>6. effect = {}
    BY DEF Init
  <2> QED
    BY <2>2, <2>4, <2>5, <2>6, CartExists
       DEF CartInv, CartsExist, EffectOnce, ItemsFromCalls, UpsertedOverMySQL,
           AnswerHasItem
<1>2. CartInv /\ [Next]_vars => CartInv'
  <2> SUFFICES ASSUME CartInv, [Next]_vars PROVE CartInv'
    OBVIOUS
  <2>0. TypeOK /\ effect \subseteq Adds
    BY DEF CartInv, TypeOK
  <2>1. ASSUME NEW c \in Carts, CreateCart(c) PROVE CartInv'
    <3>1. /\ carts[c] = NoCart /\ carts' = [carts EXCEPT ![c] = EmptyCart]
          /\ UNCHANGED <<database, adds, effect>>
      BY <2>1 DEF CreateCart
    <3>2. TypeOK'
      BY <2>0, <3>1, CartExists DEF TypeOK
    <3>3. /\ carts'[c] = EmptyCart
          /\ \A d \in Carts \ {c} : carts'[d] = carts[d]
      BY <2>0, <3>1 DEF TypeOK
    <3>4. CartsExist'
      BY <2>0, <3>1, <3>3, AddFields, CartExists DEF CartsExist, CartInv
    <3>5. EffectOnce' /\ UpsertedOverMySQL' /\ AnswerHasItem'
      BY <3>1 DEF CartInv, EffectOnce, UpsertedOverMySQL, AnswerHasItem
    <3>6. \A a \in Adds : adds[a].phase = "upserted" => adds[a].id # c
      BY <3>1, CartExists DEF CartInv, CartsExist
    <3>7. \A p \in Products : EmptyCart[p] = 0
      BY DEF EmptyCart
    <3>8. ItemsFromCalls'
      BY <2>0, <3>1, <3>3, <3>6, <3>7, AddFields DEF CartInv, ItemsFromCalls, PutBy
    <3> QED
      BY <3>2, <3>4, <3>5, <3>8 DEF CartInv
  <2>2. ASSUME NEW a \in Adds, NEW c \in Carts, NEW p \in Products,
               NEW q \in Quantities, Verify(a, c, p, q)
        PROVE  CartInv'
    <3> DEFINE cart == IF carts[c] # NoCart /\ database = "dynamodb" THEN carts[c]
                       ELSE EmptyCart
               ph == IF carts[c] = NoCart THEN "notfound" ELSE "verified"
               x == [phase |-> ph, id |-> c, product |-> p, quantity |-> q,
                     cart |-> cart]
    <3>1. adds' = [adds EXCEPT ![a] = x] /\ UNCHANGED <<database, carts, effect>>
          /\ adds[a].phase = "new"
      BY <2>2 DEF Verify
    <3>2. /\ ph \in {"notfound", "verified"}
          /\ ph = "verified" => carts[c] # NoCart
          /\ cart \in Contents
      BY <2>0, CartExists DEF TypeOK
    <3> HIDE DEF cart, ph
    <3>3. x \in Add
      BY <3>2 DEF Add
    <3>4. x.phase = ph /\ x.id = c
      OBVIOUS
    <3> HIDE DEF x
    <3>5. /\ adds'[a] = x /\ \A b \in Adds \ {a} : adds'[b] = adds[b]
          /\ adds' \in [Adds -> Add]
      BY <2>0, <3>1, <3>3 DEF TypeOK
    <3>6. a \notin effect
      BY <3>1 DEF CartInv, EffectOnce
    <3>7. TypeOK'
      BY <2>0, <3>1, <3>5 DEF TypeOK
    <3>8. CartsExist'
      BY <2>0, <3>1, <3>2, <3>4, <3>5 DEF CartInv, CartsExist, TypeOK
    <3>9. EffectOnce' /\ UpsertedOverMySQL'
      BY <2>0, <3>1, <3>2, <3>4, <3>5, <3>6 DEF CartInv, EffectOnce, UpsertedOverMySQL
    <3>10. ItemsFromCalls'
      BY <2>0, <3>1, <3>2, <3>4, <3>5, <3>6 DEF CartInv, ItemsFromCalls, PutBy
    <3>11. AnswerHasItem'
      BY <2>0, <3>1, <3>2, <3>4, <3>5, <3>6 DEF CartInv, AnswerHasItem
    <3> QED
      BY <3>7, <3>8, <3>9, <3>10, <3>11 DEF CartInv
  <2>3. ASSUME NEW a \in Adds, NEW ok \in BOOLEAN, Upsert(a, ok) PROVE CartInv'
    <3> DEFINE c == adds[a].id
               new == WithItem(carts[c], a)
    <3>1. PICK ph \in {"upserted", "failed"} : adds' = [adds EXCEPT ![a].phase = ph]
      BY <2>3, UpsertChange
    <3>2. /\ adds[a].phase = "verified" /\ database = "mysql"
          /\ carts[c] \in Contents /\ new \in Contents
          /\ carts' = [carts EXCEPT ![c] = new]
          /\ effect' = effect \cup {a} /\ UNCHANGED database
      BY <2>3, UpsertChange
    <3>3. /\ adds' \in [Adds -> Add] /\ adds'[a].phase = ph
          /\ \A b \in Adds \ {a} : adds'[b] = adds[b]
          /\ \A b \in Adds : /\ adds'[b].id = adds[b].id
                             /\ adds'[b].product = adds[b].product
                             /\ adds'[b].quantity = adds[b].quantity
      <4>1. /\ adds[a].cart \in Contents
            /\ adds' = [adds EXCEPT ![a].phase = ph, ![a].cart = adds[a].cart]
        BY <2>0, <3>1, PhaseStep
      <4> QED
        BY <2>0, <4>1, AddStep
    <3>4. /\ carts'[c] = new /\ \A d \in Carts \ {c} : carts'[d] = carts[d]
          /\ c \in Carts
      BY <2>0, <3>2, AddFields DEF TypeOK
    <3>5. /\ new[adds[a].product] = adds[a].quantity /\ adds[a].quantity # 0
          /\ \A p \in Products \ {adds[a].product} : new[p] = carts[c][p]
      BY <2>0, <3>2, AddFields, ContentsKept DEF WithItem
    <3> HIDE DEF new
    <3>6. TypeOK'
      BY <2>0, <3>2, <3>3, <3>4 DEF TypeOK
    <3>7. CartsExist'
      BY <2>0, <3>2, <3>3, <3>4, AddFields DEF CartInv, CartsExist
    <3>8. EffectOnce' /\ UpsertedOverMySQL'
      BY <2>0, <3>2, <3>3 DEF CartInv, EffectOnce, UpsertedOverMySQL
    <3>9. ASSUME NEW d \in Carts, NEW p \in Products,
                 carts'[d] \in Contents, carts'[d][p] # 0
          PROVE  \E b \in effect' : PutBy(b, d, p, carts[d][p])'
      <4>1. CASE d = c /\ p = adds[a].product
        BY <3>2, <3>3, <3>4, <3>5, <4>1 DEF PutBy
      <4>2. CASE ~(d = c /\ p = adds[a].product)
        <5>1. carts[d] \in Contents /\ carts[d][p] = carts'[d][p]
          BY <3>2, <3>4, <3>5, <3>9, <4>2
        <5>2. PICK b \in effect : PutBy(b, d, p, carts[d][p])
          BY <3>2, <3>9, <5>1 DEF CartInv, ItemsFromCalls
        <5> QED
          BY <2>0, <3>2, <3>3, <5>1, <5>2 DEF PutBy
      <4> QED
        BY <4>1, <4>2
    <3>10. ASSUME NEW b \in Adds, adds'[b].phase = "upserted"
           PROVE  carts'[adds'[b].id][adds'[b].product] # 0
      <4>1. CASE b = a
        BY <3>3, <3>4, <3>5, <4>1
      <4>2. CASE b # a
        <5>1. carts[adds[b].id][adds[b].product] # 0
          BY <3>2, <3>3, <3>10, <4>2 DEF CartInv, ItemsFromCalls
        <5> QED
          BY <2>0, <3>3, <3>4, <3>5, <5>1, AddFields
      <4> QED
        BY <4>1, <4>2
    <3>11. ItemsFromCalls'
      BY <3>9, <3>10 DEF ItemsFromCalls
    <3>12. AnswerHasItem'
      BY <2>0, <3>2, <3>3 DEF CartInv, AnswerHasItem
    <3> QED
      BY <3>6, <3>7, <3>8, <3>11, <3>12 DEF CartInv
  <2>4. ASSUME NEW a \in Adds, NEW ok \in BOOLEAN, PutBack(a, ok) PROVE CartInv'
    <3> DEFINE c == adds[a].id
               new == WithItem(adds[a].cart, a)
    <3>1. PICK ph \in {"added", "failed"} :
             adds' = [adds EXCEPT ![a].phase = ph, ![a].cart = new]
      BY <2>4, PutBackChange
    <3>2. /\ adds[a].phase = "verified" /\ database = "dynamodb"
          /\ new \in Contents /\ new[adds[a].product] = adds[a].quantity
          /\ carts' = [carts EXCEPT ![c] = new]
          /\ effect' = effect \cup {a} /\ UNCHANGED database
      BY <2>4, PutBackChange
    <3> HIDE DEF new
    <3>3. /\ adds' \in [Adds -> Add] /\ adds'[a].phase = ph /\ adds'[a].cart = new
          /\ \A b \in Adds \ {a} : adds'[b] = adds[b]
          /\ \A b \in Adds : /\ adds'[b].id = adds[b].id
                             /\ adds'[b].product = adds[b].product
                             /\ adds'[b].quantity = adds[b].quantity
      BY <2>0, <3>1, <3>2, AddStep
    <3>4. /\ carts'[c] = new /\ \A d \in Carts \ {c} : carts'[d] = carts[d]
          /\ c \in Carts
      BY <2>0, <3>2, AddFields DEF TypeOK
    <3>5. TypeOK'
      BY <2>0, <3>2, <3>3, <3>4 DEF TypeOK
    <3>6. CartsExist'
      BY <2>0, <3>2, <3>3, <3>4, AddFields DEF CartInv, CartsExist
    <3>7. EffectOnce' /\ UpsertedOverMySQL' /\ ItemsFromCalls'
      BY <2>0, <3>2, <3>3
         DEF CartInv, EffectOnce, UpsertedOverMySQL, ItemsFromCalls
    <3>8. ASSUME NEW b \in Adds, adds'[b].phase = "added"
          PROVE  \E e \in effect' :
                    /\ adds'[e].id = adds'[b].id
                    /\ adds'[e].product = adds'[b].product
                    /\ adds'[e].quantity = adds'[b].cart[adds'[b].product]
      <4>1. CASE b = a
        BY <3>2, <3>3, <4>1
      <4>2. CASE b # a
        BY <2>0, <3>2, <3>3, <3>8, <4>2 DEF CartInv, AnswerHasItem
      <4> QED
        BY <4>1, <4>2
    <3> QED
      BY <3>5, <3>6, <3>7, <3>8 DEF CartInv, AnswerHasItem
  <2>5. ASSUME NEW a \in Adds, ReadBack(a) PROVE CartInv'
    <3> DEFINE c == adds[a].id
    <3>1. /\ adds[a].phase = "upserted"
          /\ adds' = [adds EXCEPT ![a].phase = "added", ![a].cart = carts[c]]
          /\ UNCHANGED <<database, carts, effect>>
      BY <2>5 DEF ReadBack
    <3>2. carts[c] \in Contents /\ database = "mysql"
          /\ carts[c][adds[a].product] # 0
      BY <3>1 DEF CartInv, CartsExist, UpsertedOverMySQL, ItemsFromCalls
    <3>3. /\ adds' \in [Adds -> Add] /\ adds'[a].phase = "added"
          /\ adds'[a].cart = carts[c]
          /\ \A b \in Adds \ {a} : adds'[b] = adds[b]
          /\ \A b \in Adds : /\ adds'[b].id = adds[b].id
                             /\ adds'[b].product = adds[b].product
                             /\ adds'[b].quantity = adds[b].quantity
      <4>1. TypeOK
        BY DEF CartInv
      <4> HIDE DEF c
      <4> QED
        BY <2>0, <3>1, <3>2, <4>1, AddStep
    <3>4. TypeOK' /\ CartsExist'
      <4>1. TypeOK'
        BY <3>1, <3>3 DEF TypeOK, CartInv
      <4>2. CartsExist'
        BY <3>1, <3>2, <3>3 DEF CartInv, CartsExist
      <4> QED
        BY <4>1, <4>2
    <3>5. EffectOnce' /\ UpsertedOverMySQL'
      BY <2>0, <3>1, <3>3 DEF CartInv, EffectOnce, UpsertedOverMySQL
    <3>6. ItemsFromCalls'
      BY <2>0, <3>1, <3>3 DEF CartInv, ItemsFromCalls, PutBy
    <3>7. PICK b \in effect : PutBy(b, c, adds[a].product, carts[c][adds[a].product])
      BY <2>0, <3>2, AddFields DEF CartInv, ItemsFromCalls
    <3>8. AnswerHasItem'
      BY <2>0, <3>1, <3>3, <3>7 DEF CartInv, AnswerHasItem, PutBy
    <3> QED
      BY <3>4, <3>5, <3>6, <3>8 DEF CartInv
  <2>6. ASSUME NEW a \in Adds, CallFails(a) PROVE CartInv'
    <3>1. /\ adds' = [adds EXCEPT ![a].phase = "failed"]
          /\ UNCHANGED <<database, carts, effect>>
      BY <2>6 DEF CallFails
    <3>2. /\ adds' \in [Adds -> Add] /\ adds'[a].phase = "failed"
          /\ \A b \in Adds \ {a} : adds'[b] = adds[b]
          /\ \A b \in Adds : /\ adds'[b].id = adds[b].id
                             /\ adds'[b].product = adds[b].product
                             /\ adds'[b].quantity = adds[b].quantity
      <4>1. /\ adds[a].cart \in Contents
            /\ adds' = [adds EXCEPT ![a].phase = "failed", ![a].cart = adds[a].cart]
        BY <2>0, <3>1, PhaseStep
      <4> QED
        BY <2>0, <4>1, AddStep
    <3>3. TypeOK' /\ CartsExist'
      BY <2>0, <3>1, <3>2 DEF TypeOK, CartInv, CartsExist
    <3>4. EffectOnce' /\ UpsertedOverMySQL'
      BY <2>0, <3>1, <3>2 DEF CartInv, EffectOnce, UpsertedOverMySQL
    <3>5. ItemsFromCalls'
      BY <2>0, <3>1, <3>2 DEF CartInv, ItemsFromCalls, PutBy
    <3>6. AnswerHasItem'
      BY <2>0, <3>1, <3>2 DEF CartInv, AnswerHasItem
    <3> QED
      BY <3>3, <3>4, <3>5, <3>6 DEF CartInv
  <2>7. CASE UNCHANGED vars
    BY <2>7 DEF vars, CartInv, TypeOK, CartsExist, EffectOnce, ItemsFromCalls, PutBy,
                UpsertedOverMySQL, AnswerHasItem
  <2> QED
    BY <2>1, <2>2, <2>3, <2>4, <2>5, <2>6, <2>7 DEF Next
<1> QED
  BY <1>1, <1>2, PTL DEF Spec

-----------------------------------------------------------------------------
(* The cart that AddItem answers with holds its product, over either       *)
(* database and whatever other calls came between the change and the read. *)
THEOREM AnswersHaveItem == Spec => []AnswerHasItem
<1>1. CartInv => AnswerHasItem
  BY DEF CartInv
<1> QED
  BY <1>1, CartInvariant, PTL

(* Over MySQL the service implements the interface CartStore: every AddItem *)
(* takes effect at most once, at one instant, on one product of one cart.   *)
THEOREM MySQLImplementsInterface == Spec => ImplementsInterface
<1>1. Init => Interface!SpecInit
  BY DEF Init, Interface!SpecInit, NoCart, Interface!NoCart
<1>2. CartInv /\ [Next]_vars
      => [database = "mysql" => Interface!SpecNext]_(Interface!specVars)
  <2> SUFFICES ASSUME CartInv, [Next]_vars, database = "mysql",
                      ~UNCHANGED <<carts, effect>>
               PROVE  Interface!SpecNext
    BY DEF Interface!specVars
  <2> USE DEF Interface!NoCart, Interface!EmptyCart, NoCart, EmptyCart
  <2>1. ASSUME NEW c \in Carts, CreateCart(c) PROVE Interface!SpecNext
    BY <2>1 DEF CreateCart, Interface!SpecNext, Interface!SpecCreate
  <2>2. ASSUME NEW a \in Adds, NEW ok \in BOOLEAN, Upsert(a, ok)
        PROVE  Interface!SpecNext
    <3>1. a \notin effect /\ carts[adds[a].id] # NoCart
      BY <2>2, UpsertChange, CartExists DEF CartInv, EffectOnce
    <3>2. carts' = [carts EXCEPT ![adds[a].id][adds[a].product] = adds[a].quantity]
      BY <2>2 DEF Upsert, WithItem
    <3>3. effect' = effect \cup {a}
      BY <2>2 DEF Upsert
    <3>4. /\ adds[a].id \in Carts /\ adds[a].product \in Products
          /\ adds[a].quantity \in Quantities
      BY AddFields DEF CartInv
    <3>5. Interface!SpecAdd(a, adds[a].id, adds[a].product, adds[a].quantity)
      BY <3>1, <3>2, <3>3 DEF Interface!SpecAdd
    <3> QED
      BY <3>4, <3>5 DEF Interface!SpecNext
  <2>3. ASSUME NEW a \in Adds, NEW ok \in BOOLEAN PROVE ~PutBack(a, ok)
    BY DEF PutBack
  <2> QED
    BY <2>1, <2>2, <2>3 DEF Next, vars, Verify, ReadBack, CallFails
<1> QED
  BY <1>1, <1>2, CartInvariant, PTL DEF Spec, ImplementsInterface
=============================================================================
