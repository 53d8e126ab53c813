------------------------------ MODULE CartSpec ------------------------------
(***************************************************************************)
(* What the interface CartStore promises (Assignment 8, store.go): a cart  *)
(* is created empty, and AddItem sets the quantity of one product of an    *)
(* existing cart and leaves the others alone.  Each AddItem takes effect   *)
(* at most once.                                                           *)
(***************************************************************************)
EXTENDS Integers

CONSTANTS Carts, Products, Quantities,
          Adds   \* identities of AddItem calls

VARIABLES carts,    \* cart -> NoCart or product -> quantity, 0 when absent
          applied   \* the AddItem calls that took effect

specVars == <<carts, applied>>

NoCart == [p \in Products |-> -1]
EmptyCart == [p \in Products |-> 0]

SpecInit == /\ carts = [c \in Carts |-> NoCart]
            /\ applied = {}

SpecCreate(c) ==
    /\ carts[c] = NoCart
    /\ carts' = [carts EXCEPT ![c] = EmptyCart]
    /\ UNCHANGED applied

SpecAdd(a, c, p, q) ==
    /\ a \notin applied
    /\ carts[c] # NoCart
    /\ carts' = [carts EXCEPT ![c][p] = q]
    /\ applied' = applied \cup {a}

SpecNext == \/ \E c \in Carts : SpecCreate(c)
            \/ \E a \in Adds, c \in Carts, p \in Products, q \in Quantities :
                  SpecAdd(a, c, p, q)

Spec == SpecInit /\ [][SpecNext]_specVars
=============================================================================
