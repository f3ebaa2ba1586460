SPECIFICATION Spec
CONSTANTS
    Lines = {a, b, c}
    Capacity = 4
INVARIANTS
    TypeOK
    ShortTails
PROPERTIES
    KeepsLastLines
