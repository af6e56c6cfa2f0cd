\* Two requests at a time of one user on two devices, or registering.
CONSTANTS
    u1 = u1
    d1 = d1
    d2 = d2
    e1 = e1
    e2 = e2
    Users = {u1}
    Devices = {d1, d2}
    Concurrency = 1
    LockThreshold = 5
    MaxSessions = 2
    MaxWrong = 0
    Slots = {1, 2}
    Emails = {e1, e2}
    Seeded = 1
    Idle = Idle
    MaxRequests = 4
SPECIFICATION TxSpec
INVARIANTS
    TxInv
    OnlyRacedSurvive
    NumbersAreDense
PROPERTIES
    BlockIsLifted
    UncrossedIsSerial
    RegistersAlone
CHECK_DEADLOCK FALSE
