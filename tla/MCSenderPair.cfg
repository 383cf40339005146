SPECIFICATION Spec
CONSTANTS
    first = first  second = second  retry = retry  w1 = w1  w2 = w2
    run = run  cust = cust  camp = camp  flow = flow
    NoJob = NoJob  None = None
    Jobs = {first, second}
    Workers = {w1, w2}
    Runs = {run}
    Names = {flow}
    Customers = {cust}
    Campaigns = {camp}
    RunOf <- PairRunOf
    CustomerOf <- PairCustomerOf
    CustomerOfRun <- PairCustomerOfRun
    NameOf <- PairNameOf
    CampaignOf <- PairCampaignOf
    RetryOf <- PairRetryOf
    MaxAttempts <- PairMaxAttempts
    MaxFaults = 0
    LostUpdates = FALSE
    PromptRestart = FALSE
    CapOf <- CapOne
SYMMETRY Symmetry
CONSTRAINT ClearAnswers
INVARIANTS FrequencyCap StoppedWorkNotSent
PROPERTIES QueueSpec
