SPECIFICATION Spec
CONSTANTS
    c1 = c1
    c2 = c2
    w1 = w1
    w2 = w2
    reserved = reserved
    line = line
    NoKey = NoKey
    Workers = {w1, w2}
    MaxTime = 2
    Keys = {reserved, line}
    Reserving = {reserved}
    Clients = {c1, c2}
    Callbacks = {"read", "failed", "undeliverable"}
    Unreliable = TRUE
SYMMETRY Symmetry
CONSTRAINT Bound
INVARIANTS OptedOutIsSuppressed OptedInIsStated NativeStatementsConverge RowTellsOutcome
PROPERTIES ReservedSpendsOnce ReplayUndoesNothing
