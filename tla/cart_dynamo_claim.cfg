SPECIFICATION Spec
CHECK_DEADLOCK FALSE
CONSTANTS
    Carts = {c1}
    Products = {p1, p2}
    Quantities = {1}
    Adds = {a1, a2}
    Failures = FALSE
INVARIANTS
    AddedItemsStay
