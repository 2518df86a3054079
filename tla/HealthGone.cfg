SPECIFICATION Spec
CONSTANTS
    Producers = {p1}
    IO = IO
    Addrs = {a1}
    Null = Null
    Services = {"", "svc"}
    MaxConns = 1
    MaxChanges = 2
INVARIANT LiveIsOpen
CHECK_DEADLOCK FALSE
