SPECIFICATION AbandonSpec
CONSTANTS
    MaxCalls = 2
    MaxMsgs = 1
    Modes = {"unary", "streaming"}
INVARIANT OneInFlight
CHECK_DEADLOCK FALSE
