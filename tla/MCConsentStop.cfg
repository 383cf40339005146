SPECIFICATION ConsentSpec
CONSTANTS
    Workers = {w1, w2}
    MaxTime = 2
SYMMETRY Symmetry
INVARIANTS StopLasts
