SPECIFICATION Spec
CONSTANTS
    Requests = {r1}
    Operations = {"validate", "requestChanges", "addPurchaseItems", "publish",
        "updateAndRepublish"}
    StartSteps = {"DA"}
    StartTypes = {"OPERATION"}
    Amounts = {999999, 6000000}
    BudgetThreshold = 5000000
    MaxQuotes = 1
    MaxFlows = 3
    CanFail = FALSE
INVARIANTS
    PublishedWithinBudget
\* A purchase that is done, rejected or deleted is worked on no more.
CHECK_DEADLOCK FALSE
