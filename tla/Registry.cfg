\* Two servers of one service, with every fault; a client, an admin request.
SPECIFICATION Spec
CONSTANTS
    Server = {s1, s2}
    Client = {c1}
    Admin = {a1, a2}
    Service = {n1}
    Offers <- AllOffers
    Faults = {"crash", "expiry"}
    MaxSessions = 2
    NoName = NoName
INVARIANTS TypeOK PageListsSteady
PROPERTIES DiscoverNeverDenies AdminSparesSteady
SYMMETRY Symmetry
