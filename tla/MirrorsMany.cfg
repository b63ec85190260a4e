SPECIFICATION Spec
CONSTANTS
    Clients = {c1, c2}
    Recurring = {c1}
    NoClient = NoClient
    IntMax = 10
    Backlog = 1
    StartCounts = {0}
    Fallible = {0, 1}
    Short = {c2}
    HopCap = 1
INVARIANTS TypeOK ConnectionsArePrivate OnePlace LoadShare ProcessesBounded Handshake StaysAmongMirrors PromptIsServed
