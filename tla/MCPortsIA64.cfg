CONSTANTS
    Threads = {t1, t2}
    Ports = {"ia64"}
    Half = 4
    CallSet <- MCFallbackCalls
    MaxCalls = 2
SPECIFICATION Spec
PROPERTIES PortsAreAtomic
CHECK_DEADLOCK FALSE
