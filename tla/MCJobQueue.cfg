SPECIFICATION FairSpec
CONSTANTS
    step1 = step1  step2 = step2  w1 = w1  w2 = w2  r1 = r1  c1 = c1  flow = flow
    NoJob = NoJob  None = None
    Workers = {w1, w2}
    Runs = {r1}
    Customers = {c1}
    Names = {flow}
    CustomerOfRun <- MCCustomerOfRun
    NameOf <- MCNameOf
    LostUpdates = TRUE
    Jobs = {step1, step2}
    RunOf <- MCRunOf
    CustomerOf <- MCCustomerOf
    MaxAttempts <- MCMaxAttempts
    MaxFaults = 1
    PromptRestart = FALSE
INVARIANTS TypeOK OwnerKeepsRow PausedWithItsRun NoOrphanWithoutFault
PROPERTIES ClosedForGood ImplementsExclusiveWork EveryJobSettles
