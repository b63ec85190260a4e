SPECIFICATION Spec
CONSTANTS
    Block = 4
    TextBuf = 8
    ErrorLen = 5
    Lines <- MCLines
    MaxLines = 2
    ArchiveSizes <- MCArchiveSizes
    MaxCommands = 1
    Hazards = {}
PROPERTY MissIsAnswered
\* The user leaves, and the child ends.
CHECK_DEADLOCK FALSE
