CONSTANTS
    Files = {f1, f2, f3}
    Workers = {w1}
    Capacity = 1
    None = None
    SENTINEL = SENTINEL
SPECIFICATION Spec
INVARIANT ReportComplete
CHECK_DEADLOCK FALSE
SYMMETRY Symmetry
