\* stop() meets a connection that is being set up.
SPECIFICATION FairSpec
CONSTANTS
    MaxStarts = 1
    MaxAttempts = 1
    MaxRouters = 2
INVARIANTS PluginStopped
