SPECIFICATION Spec
CONSTANTS
    MAX_BUFFER_FILE_SIZE = 3
    Sizes <- SizesAround
    MaxCopies = 3
    Faults = {"open", "read", "write", "full"}
INVARIANTS TypeOK Whole Padding NoneOpen
PROPERTY BlockSpec
\* After the last copy nobody need search again.
CHECK_DEADLOCK FALSE
