CONSTANTS
    Producers = {p1, p2}
    Elements = {e1, e2, e3}
    Null = Null
    Consumer = c
    Model = "PSO"
SPECIFICATION Spec
SYMMETRY Symmetry
INVARIANTS RelaxedInv PayloadVisible
PROPERTY DequeuedInOrder
