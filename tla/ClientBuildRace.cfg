SPECIFICATION Spec
CONSTANTS
    v4 = v4
    v6 = v6
    Client = {c1, c2}
    Address = {v4, v6}
    ConnStr <- Split
    Strategy <- Strategies
    Event = {1, 2}
    MaxRings = 2
    Unparsable = Unparsable
    NoAddress = NoAddress
    NoChannel = 0
INVARIANT OneHolderPerAddress
