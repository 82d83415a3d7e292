SPECIFICATION FairSpec
CONSTANTS
    a = a
    b = b
    c = c
    d = d
    e = e
    f = f
    k = k
    NoCall = NoCall
    Calls = {a, b}
    Keys = {k}
    Kind <- PairKind
    Key <- PairKey
    SeqOf <- PairSeq
    MaxBarriers = 0
CHECK_DEADLOCK FALSE
PROPERTIES EveryCallEnds
