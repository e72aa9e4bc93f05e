CONSTANTS
    Producers = {p1, p2}
    Elements = {e1, e2}
    Null = Null
    Consumer = c
    Model = "PSO"
SPECIFICATION Spec
INVARIANTS NothingLost
