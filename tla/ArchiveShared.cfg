SPECIFICATION Spec
CONSTANTS
    Hole = Hole  a1 = a1  a2 = a2  b1 = b1  A = A  B = B
    Files = {a1, a2, b1}
    Names = {A, B}
    Name <- MCName
    Blocks <- MCBlocks
    Children = {p1, p2}
    Searches <- MCSearches
    MaxSearches = 3
    Faults = {"tar", "walk"}
    Faulty = {p1}
INVARIANTS TypeOK BlocksInPlace StoredWhole ServedAlone
PROPERTY SearchEnds
\* The users stop asking.
CHECK_DEADLOCK FALSE
