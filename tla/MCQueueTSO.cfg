CONSTANTS
    Producers = {p1, p2}
    Elements = {e1, e2, e3}
    Null = Null
    Consumer = c
    Model = "TSO"
SPECIFICATION FairSpec
INVARIANTS NothingLost
PROPERTIES ImplementsFifoTSO EventuallyDequeuedTSO
