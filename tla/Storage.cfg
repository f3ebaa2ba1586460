SPECIFICATION Spec
CONSTANTS
    Callers = {c1, c2}
    Bodies = {1, 2}
    Names = {n1}
    Refs <- Agents
    Types <- Agents
    None = None
SYMMETRY Symmetric
INVARIANTS
    TypeOK
    WholeUnlessTorn
    SaveKeeps
    ReadsSound
    DeleteClean
    ListComplete
