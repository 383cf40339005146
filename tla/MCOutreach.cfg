SPECIFICATION Spec
CONSTANTS
    o1 = o1
    o2 = o2
    w1 = w1
    w2 = w2
    c1 = c1
    c2 = c2
    camp = camp
    soon = soon
    later = later
    NoCampaign = NoCampaign
    Customers = {c1, c2}
    Members = {}
    MaxMoves = 2
    Operators = {o1, o2}
    CampaignIDs = {camp}
    Definitions <- MCDefinitions
    Workers = {w1, w2}
    StepCount = 1
    MaxTriggers = 2
    MaxChanges = 2
    DayLength = 4
    Sends = {soon, later}
    WaitOf <- MCWaitOf
    Backoffs = {2}
    MaxDay = 2
SYMMETRY Symmetry
CONSTRAINT Bound
INVARIANTS ScheduledAsReviewed  RedactedHasNoJobs RestockReachesBuyers TriggersAreRestocks  SentOutsideQuietHours DueWhenAllowed NeverBeforeSimulated StepsKeepTheirOrder
PROPERTIES ScheduledAreEligible CancelledForGood
CHECK_DEADLOCK FALSE
