CONSTANTS
    Processes = {p1, p2}
    Callers = {c1, c2}
    Size = 3
    AsymmNull = 1
    Offsets = {0, 2}
SPECIFICATION Spec
INVARIANTS LinksResolve
PROPERTIES RefusedOnceCalled
