SPECIFICATION FairSpec
CONSTANTS
    MaxCalls = 2
    MaxHooks = 2
    MaxWrites = 1
    Requests = {"good", "bad", "unknown"}
    ExpireMax = 1
    Submits = {TRUE, FALSE}
INVARIANTS HandledOnce FirstStatusWins HookMatchesEnd
PROPERTY DeadlinesExpire
CHECK_DEADLOCK FALSE
