SPECIFICATION Spec
CHECK_DEADLOCK FALSE
CONSTANTS
    Carts = {c1, c2}
    Products = {p1, p2}
    Quantities = {1, 2}
    Adds = {a1, a2}
    Failures = TRUE
INVARIANTS
    AnswerHasItem
PROPERTIES
    ImplementsInterface
