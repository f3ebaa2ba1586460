SPECIFICATION Spec
CONSTANTS
    Appenders = {a1, a2}
    VmIds = {v1, v2}
    MaxEvents = 4
    BufferCapacity = 2
SYMMETRY Symmetric
INVARIANTS
    TypeOK
    SeqDense
    PublishedOnce
    VmOrder
    NoHoles
