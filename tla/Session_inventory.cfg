SPECIFICATION MCSpec
CONSTANTS
    Clients = {c1, c2}
    Devices = {d1, d2}
    Requests = {q1, q2}
    None = None
    BanLength = 2
    MaxInbox = 1
    MaxWrites = 2
    Callers = {s1, s2}
    Recipients = {r1}
    NoRecipient = everyone
    Account = account
    Rate = 1
    Burst = 3
    Cost = 2
    MaxWait = 2
    Jitter = 2
    Limit = 2
    Window = 1
    BanHold = 2
    MaxClock = 2
INVARIANT
    InventoryHonest
SYMMETRY Symmetry
CHECK_DEADLOCK FALSE
