\* Both gateways and both sessions come and go without limit.
SPECIFICATION FairSpec
CONSTANTS
    Threshold = 2
    InboxCap = 2
INVARIANTS NoLostFailover StandsDown
PROPERTIES NoForgedDown DeadPrimaryReplaced
