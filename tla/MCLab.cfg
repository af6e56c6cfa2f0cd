\* The demo users on a device each and the lab, on two stocks and one address.
CONSTANTS
    trader = trader
    analyst = analyst
    plain = plain
    watched = watched
    labIp = labIp
    labDevice = labDevice
    d1 = d1
    Users = {trader, analyst}
    Devices = {d1}
    Stocks = {plain, watched}
    Ips = {labIp}
    Watchlist = {watched}
    Amounts = {4}
    Regions = {FALSE}
    HighAmount = 4
    SpikeAmount = 3
    LabAmount = 6
    SmallAmount = 1
    CancelBurst = 1
    LockThreshold = 5
    PeerWindow = 0
    CancelWindow = 1
    FailureWindow = 1
    MaxOrders = 3
    MaxSubmits = 2
    MaxCancels = 1
    MaxTime = 1
    MaxRuns = 1
SPECIFICATION LabSpec
INVARIANTS
    IInv
    IdleRules
    PairsAreNoticed
    ScenarioIsWhole
    HeldIsNeverLost
PROPERTIES
    ScenarioOrderStopped
CHECK_DEADLOCK FALSE
