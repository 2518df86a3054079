SPECIFICATION FairSpec
CONSTANTS
    IO = IO
    Null = Null
    Producers = {p1}
    Addrs = {a1, a2}
    MaxConns = 2
    MaxOps = 2
    MaxDirect = 1
    Handlings <- MCHandlings
    Styles = {"c_unary", "c_streaming", "cpp_unary", "cpp_streaming",
              "rust_unary", "rust_streaming"}
INVARIANTS NeverFreed EarlyGoesHome InOrder HandledIsAnswered 
PROPERTY MailboxDrains
CHECK_DEADLOCK FALSE
