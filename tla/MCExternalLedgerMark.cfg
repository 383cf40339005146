SPECIFICATION Spec
CONSTANTS
    c1 = c1
    c2 = c2
    w1 = w1
    w2 = w2
    reserved = reserved
    line = line
    NoKey = NoKey
    Workers = {}
    MaxTime = 0
    Keys = {reserved, line}
    Reserving = {reserved}
    Clients = {c1, c2}
    Callbacks = {"read", "failed", "undeliverable"}
    Unreliable = FALSE
SYMMETRY Symmetry
CONSTRAINT Bound
INVARIANTS UndeliverableIsMarked
