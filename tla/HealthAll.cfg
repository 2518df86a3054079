SPECIFICATION Spec
CONSTANTS
    Producers = {p1}
    IO = IO
    Addrs = {a1, a2}
    Null = Null
    Services = {"", "svc"}
    MaxConns = 2
    MaxChanges = 3
INVARIANTS InitialFirst HooksOwned CaughtUp
CHECK_DEADLOCK FALSE
