CONSTANTS
    Ports = {"x86", "p3", "ppc", "arm", "sicortex", "ia64", "gcc", "c11", "sun", "nt", "by_lock"}
    Tests = {"linear_array", "publish", "handover", "store_load", "done"}
    Threads = {1, 2, 3}
    Rounds = 2
SPECIFICATION Spec
INVARIANTS NeverIncreasing PublishedIsVisible AcquireSeesRelease BarrierHandsOver StoreBeforeLoad
CHECK_DEADLOCK FALSE
