\* Five wrong passwords in a row.
CONSTANTS
    trader = trader
    analyst = analyst
    web = web
    lab = lab
    Users = {trader, analyst}
    Devices = {web, lab}
    Concurrency = 2
    LockThreshold = 5
    MaxSessions = 1
    MaxWrong = 5
SYMMETRY Symmetry
SPECIFICATION Spec
INVARIANT
    FailuresLockAccount
