\* Bodies of no, one and three bytes, one that cannot be deserialized and one
\* that is not encoded, in every order and cut at every byte.
SPECIFICATION FairSpec
CONSTANTS
    empty = empty
    short = short
    long = long
    bad = bad
    foreign = foreign
    Message = {empty, short, long, bad, foreign}
    Size <- Sizes
    Unwritten = {foreign}
    Undecodable = {bad}
    Garbage = Garbage
INVARIANTS TypeOK NoFrameLeftBehind
PROPERTIES ImplementsFifo EveryMessageDecoded
