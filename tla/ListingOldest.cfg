SPECIFICATION Spec
CONSTANTS
    Names = {1, 2}
    Tight = {}
    Times <- TwoSeconds
    MaxChanges = 0
    Faults = {}
INVARIANTS OldestFirst
\* The child may have died, and others may leave the directory alone.
CHECK_DEADLOCK FALSE
