SPECIFICATION Spec
CONSTANTS
    p1 = p1  p2 = p2
    None = None
    Proc <- MCProc
    MaxLives = 1
    MaxCalls = 3
    MaxRounds = 2
CHECK_DEADLOCK FALSE
SYMMETRY ProcSymmetry
INVARIANTS
    ToldUnlessMisled
PROPERTIES
    Fenced
