\* Two clients, built one after the other or at once, two calls and closes at
\* any time.
SPECIFICATION FairSpec
CONSTANTS
    v4 = v4
    v6 = v6
    Client = {c1, c2}
    Address = {v4, v6}
    ConnStr <- Split
    Strategy <- Strategies
    Event = {1, 2}
    MaxRings = 2
    Unparsable = Unparsable
    NoAddress = NoAddress
    NoChannel = 0
INVARIANTS TypeOK HandledAtMostOnce PoolsGateTheirRing SharedHolder CallFindsHolder ClosedPoolsDrain
PROPERTY SettledResponsesHandled
