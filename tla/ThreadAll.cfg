SPECIFICATION FairSpec
CONSTANTS
    MaxConns = 2
    MaxInputs = 1
    MaxMails = 1
INVARIANT TicksPolledOnly
PROPERTIES InputIsRead DeadlineIsTicked StopJoins
CHECK_DEADLOCK FALSE
