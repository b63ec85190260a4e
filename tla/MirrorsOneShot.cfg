SPECIFICATION Spec
CONSTANTS
    Clients = {c1, c2}
    Recurring = {}
    NoClient = NoClient
    IntMax = 100
    Backlog = 1
    StartCounts = {2, 3, 5, 6, 8}
    Fallible = {}
    Short = {}
    HopCap = 14
INVARIANTS HopsBounded
PROPERTY PlacementSpec
\* Every client starts once: all of them may have left.
CHECK_DEADLOCK FALSE
