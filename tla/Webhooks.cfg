SPECIFICATION MCSpec
CONSTANTS
    m1 = m1
    u1 = u1
    u2 = u2
    Messages = {m1, m2, m3}
    Sessions = {s1}
    Urls = {u1, u2}
    Filter <- MCFilter
    NoUrl = NoUrl
    CopyIds = {1, 2, 3, 4, 5, 6}
    Workers = {w1, w2}
    MaxRetries = 1
    PublishConfirm = FALSE
    SendRetries = 1
    DirectSlots = 1
    AsyncSlots = 1
    Cap = 2
    MaxFaults = 1
INVARIANTS
    
    OnceWithoutFaults
    LatestIsNewest

    
CHECK_DEADLOCK FALSE
