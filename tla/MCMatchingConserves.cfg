SPECIFICATION Spec
CONSTANTS
    Tokens = {1, 2, 3}
    Markets <- Triangle
    TriangularEnabled = TRUE
    ProductMax = 1000
INVARIANT
    CycleConserves
CHECK_DEADLOCK FALSE
