SPECIFICATION Spec
CHECK_DEADLOCK FALSE
CONSTANTS
    Posts = {p1, p2, p3}
    Gets = {g1}
    Seeds = 3
    Earlier = {0, 2}
    Goroutines = {a, b, c}
    Adds = 3
    Writers = {x, y, z}
    Entries = 2
    ProductIds = {1, 2}
    DetailPosts = {q1, q2}
    ProductGets = {h1}
SYMMETRY Symmetry
INVARIANTS
    LoneAlbumStays
    PrintedCounts
    LockedMapKeepsAll
    AnswersCurrentProduct
