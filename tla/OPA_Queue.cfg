CONSTANTS
    Producers = {p1, p2, p3}
    Elements = {e1, e2, e3, e4}
    Null = Null
SPECIFICATION FairSpec
INVARIANTS IInv NoDanglingReference
PROPERTIES HeadNeverOverwritten LinkWrittenOnce ImplementsFifo EventuallyDequeued
