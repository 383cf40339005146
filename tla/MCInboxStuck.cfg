SPECIFICATION FairSpec
CONSTANTS
    Events = {e1}
    NoEvent = NoEvent
    MaxTries = 2
    MaxFaults = 1
    Messages = {m1}
    Workers = {}
    MaxTime = 0
PROPERTIES EveryEventSettles
