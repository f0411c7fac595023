\* The secondary loses its own session and keeps checking.
SPECIFICATION FairSpec
CONSTANTS
    Threshold = 2
    InboxCap = 1
PROPERTIES NoDownByOwnOutage
