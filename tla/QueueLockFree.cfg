CONSTANTS
    Producers = {p1, p2}
    Elements = {e1, e2}
    Null = Null
SPECIFICATION ConsumerSpec
PROPERTIES DequeueLockFree
