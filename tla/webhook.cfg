SPECIFICATION FairSpec
CONSTANTS
    Deliveries = {d1, d2, d3}
    Projects = {p1, p2}
    NoDelivery = NoDelivery
    SemCap = 2
CHECK_DEADLOCK FALSE
INVARIANTS TypeOK NewestOwnsEntry OneLiveFetch SlotsAccounted
PROPERTIES AcceptedIsSynced SlotsReturned
