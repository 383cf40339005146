SPECIFICATION Spec
CONSTANTS
    Events = {e1, e2}
    NoEvent = NoEvent
    MaxTries = 2
    MaxFaults = 1
    Messages = {m1}
    Workers = {}
    MaxTime = 0
SYMMETRY Symmetry
INVARIANTS StopProcessedCancelsWork ProcessingIsHandled StateIsBestStatus
