CONSTANTS
    Producers = {p1, p2, p3}
    Elements = {e1, e2, e3}
    Null = Null
SPECIFICATION CasFairSpec
PROPERTIES ImplementsQueue SomeEnqueueSwaps
