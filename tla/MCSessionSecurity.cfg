\* One user, two device ids, three sessions: the third carries the concurrency
\* surcharge.
CONSTANTS
    trader = trader
    analyst = analyst
    web = web
    lab = lab
    Users = {trader}
    Devices = {web, lab}
    Concurrency = 2
    LockThreshold = 5
    MaxSessions = 3
    MaxWrong = 1
SYMMETRY Symmetry
SPECIFICATION Spec
INVARIANTS
    IInv
    LockedUserIsOut
    BlockedDeviceIsOut
    ScreeningAssumption
