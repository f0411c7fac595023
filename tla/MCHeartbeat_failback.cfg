\* A heartbeat arrives as the primary is declared down.
SPECIFICATION FairSpec
CONSTANTS
    Threshold = 2
    InboxCap = 1
PROPERTIES FailbackCompletes
