SPECIFICATION FairSpec
CONSTANTS
    p1 = p1
    IO = IO
    Unbounded = Unbounded
    Producers <- MCOne
    CallIds <- MCCallIds
    Policies <- MCPolicies
    MaxConns = 1
    MaxOps = 2
    MaxHandlerOps = 1
INVARIANTS NoLostWakeup FirstFinishWins WritesInOrder NoSilentLoss FinishIsComplete
PROPERTY ShutdownStops
CHECK_DEADLOCK FALSE
