CONSTANTS
    admin = admin
    trader = trader
    t1 = t1
    t2 = t2
    Users = {admin, trader}
    Admins = {admin}
    Tokens = {t1, t2}
    Owner <- OneEach
    NoToken = NoToken
    NoUser = NoUser
    Buttons = {"submit", "lab"}
    Panes = {}
    Slots = {1, 2}
    MaxEvents = 1
    Idle = Idle
SPECIFICATION FairSpec
PROPERTIES
    LoadingEnds
    ScreenCatchesUp
CHECK_DEADLOCK FALSE
