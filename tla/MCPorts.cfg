CONSTANTS
    Threads = {t1, t2}
    Ports = {"by_cas", "x86", "ia64", "c11", "gcc", "gcc_swap", "sun", "nt"}
    Half = 2
    CallSet <- MCCalls
    MaxCalls = 2
SPECIFICATION FairSpec
PROPERTIES PortsAreAtomic CasLoopsEnd
CHECK_DEADLOCK FALSE
