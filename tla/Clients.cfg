SPECIFICATION FairSpec
CONSTANTS
    MaxCalls = 2
    MaxMsgs = 1
    Modes = {"unary", "streaming"}
    Flavours = {"core", "rust", "cpp"}
    Timeouts = {0, 100, 600}
    Durations = {0, 250}
    Jitters = {0, 20, 40}
    TimeoutValues = {0, 1, 9, 10, 999, 1000, 1001, 12345678, 99999999, 100000000, 2147483647}
    ByteValues = {31, 32, 37, 50, 53, 65, 126, 127, 169, 195}
    MaxMessageBytes = 3
    PayloadLens = {0, 1, 258, 259}
    MaxPayload = 258
INVARIANTS GotOwn SentOwnByCore OneInFlightByCore OkIsCompleteByCore ConnectsInTime
     MessageArrives FramesSurviveSplits
PROPERTIES CallEnds
CHECK_DEADLOCK FALSE
