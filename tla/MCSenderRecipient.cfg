SPECIFICATION Spec
CONSTANTS
    first = first  second = second  retry = retry  w1 = w1  w2 = w2
    run = run  cust = cust  camp = camp  flow = flow
    NoJob = NoJob  None = None
    Jobs = {first, retry}
    Workers = {w1, w2}
    Runs = {}
    Names = {}
    Customers = {cust}
    Campaigns = {camp}
    RunOf <- RecipientRunOf
    CustomerOf <- RecipientCustomerOf
    CustomerOfRun <- NoFun
    NameOf <- NoFun
    CampaignOf <- RecipientCampaignOf
    RetryOf <- RecipientRetryOf
    MaxAttempts <- RecipientMaxAttempts
    MaxFaults = 1
    LostUpdates = TRUE
    PromptRestart = FALSE
    CapOf <- CapOne
SYMMETRY Symmetry
INVARIANTS RecordedNeverResent CompletedMeansAccepted RetryAfterOriginal
PROPERTIES KeepsDelivery
