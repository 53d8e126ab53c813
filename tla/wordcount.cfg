SPECIFICATION Spec
CHECK_DEADLOCK FALSE
CONSTANTS
    a = a
    b = b
    dot = dot
    first = first
    second = second
    Letters = {a, b}
    Punctuation = {dot}
    Blank = blank
    Runs = {first, second}
    Texts <- RunTexts
    Faults = {"calls", "bodies"}
INVARIANTS
    ReducedOwnChunks
    AgreesUnlessCut
