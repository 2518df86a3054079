SPECIFICATION Spec
CONSTANTS
    MaxCalls = 1
    MaxMsgs = 1
    Modes = {"streaming"}
INVARIANT OkIsComplete
CHECK_DEADLOCK FALSE
