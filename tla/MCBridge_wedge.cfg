\* A registration that raises leaves its destination behind.
SPECIFICATION FairSpec
CONSTANTS
    MaxStarts = 1
    MaxAttempts = 2
    MaxRouters = 3
PROPERTIES SetupCanBeRetried
