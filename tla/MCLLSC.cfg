CONSTANTS
    Threads = {t1, t2}
    Half = 2
    CallSet <- MCCalls
    MaxCalls = 2
    Spurious = 1
SPECIFICATION FairSpec
INVARIANTS Inv
PROPERTIES LoopsAreAtomic LoopsEnd
CHECK_DEADLOCK FALSE
