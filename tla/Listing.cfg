SPECIFICATION Spec
CONSTANTS
    Names = {1, 2, 3}
    Tight = {3}
    Times <- OneSecond
    MaxChanges = 2
    Faults = {"opendir"}
INVARIANTS TypeOK SteadyListed OverrunByNew Ordered
PROPERTY Answered
\* The child may have died, and others may leave the directory alone.
CHECK_DEADLOCK FALSE
