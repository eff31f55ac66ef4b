SPECIFICATION FairSpec
CONSTANTS
    ana = ana
    beto = beto
    guest = guest
    a1 = a1
    b1 = b1
    b2 = b2
    g1 = g1
    People = {ana, beto, guest}
    Guests = {guest}
    NoOne = NoOne
    Legs = {a1, b1}
    OwnerOf <- MCOwner
    Smalls = {small}
    Main = main
    Host = ana
    Invited = {ana, beto}
    Requests = {q1, q2}
    LobbyFor = "guests"
    WaitForHost = TRUE
    MayUnmute = FALSE
    MuteOnEntry = TRUE
    Given <- MCBreakoutOrders
    MaxAsked = 4
    MaxMoves = 2
    MaxFaults = 1
PROPERTIES
    HostWaitersEnter
    BreakoutsEnd
CHECK_DEADLOCK FALSE
