CONSTANTS
    Threads = {t1, t2}
    Leader = t1
    Nobody = none
    Half = 2
    CallSet <- MCCalls
    MaxCalls = 2
SPECIFICATION Spec
INVARIANTS OnlyHastyUnguarded SectionsExclude
PROPERTY SectionsAreAtomic
CHECK_DEADLOCK FALSE
