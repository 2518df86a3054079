SPECIFICATION FairSpec
CONSTANTS
    HeaderLen = 1
    Unbounded = Unbounded
    Streams = {1, 2}
    NoCopyMin = 3
    FrameLens = {3}
    Bodies = {0, 2}
    Policies <- MCNoPolicies
    MaxMsgs = 1
INVARIANT FramesContiguous
PROPERTIES  FinishedEnds
CHECK_DEADLOCK FALSE
