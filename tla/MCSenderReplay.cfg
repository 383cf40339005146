SPECIFICATION Spec
CONSTANTS
    first = first  second = second  retry = retry  w1 = w1  w2 = w2
    run = run  cust = cust  camp = camp  flow = flow
    NoJob = NoJob  None = None
    Jobs = {first}
    Workers = {w1, w2}
    Runs = {}
    Names = {}
    Customers = {cust}
    Campaigns = {camp}
    RunOf <- OneRunOf
    CustomerOf <- OneCustomerOf
    CustomerOfRun <- NoFun
    NameOf <- NoFun
    CampaignOf <- OneCampaignOf
    RetryOf <- OneRetryOf
    MaxAttempts <- OneMaxAttempts
    MaxFaults = 0
    LostUpdates = FALSE
    PromptRestart = FALSE
    CapOf <- CapOne
SYMMETRY Symmetry
PROPERTIES ReplayNeverDuplicates
