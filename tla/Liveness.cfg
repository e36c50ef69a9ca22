SPECIFICATION FairSpec
CONSTANTS
    Requests = {r1}
    Operations = {"validate", "reject", "requestChanges", "addPurchaseItems",
        "publish", "updateAndRepublish"}
    StartSteps = {"DA"}
    StartTypes = {"OPERATION", "PROGRAMME"}
    Amounts = {4999999}
    BudgetThreshold = 5000000
    MaxQuotes = 1
    MaxFlows = 3
    CanFail = FALSE
PROPERTIES
    PublishedIsDecided
\* A purchase that is done, rejected or deleted is worked on no more.
CHECK_DEADLOCK FALSE
