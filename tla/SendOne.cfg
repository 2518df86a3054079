SPECIFICATION Spec
CONSTANTS
    HeaderLen = 2
    Unbounded = Unbounded
    Streams = {1}
    NoCopyMin = 4
    FrameLens = {1, 3}
    Bodies = {0, 2}
    Policies <- MCPolicies
    MaxMsgs = 3
INVARIANTS PromiseKept NoByteLost
CHECK_DEADLOCK FALSE
