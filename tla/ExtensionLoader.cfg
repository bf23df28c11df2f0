\* Three threads, each with one of a few calls; the constructor of one class may
\* throw.  The deadlock check is on.
SPECIFICATION FairSpec
CONSTANTS
    k1 = k1
    k2 = k2
    k3 = k3
    Caller = {k1, k2, k3}
    Type = {"Codec", "Cache", "Unclear"}
    Name = {"fast", "quick", "slow", "gone"}
    Class = {"Fast", "Slow", "Missing"}
    Calls <- TheCalls
    Default = Default
    Defaults <- TheDefaults
    Lines <- TheLines
    Subtypes <- TheSubtypes
    Fragile = {"Slow"}
    None = None
INVARIANTS TypeOK OneLoaderPerType OneInstancePerClass ResultFits
PROPERTY EveryCallEnds
