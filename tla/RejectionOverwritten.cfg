SPECIFICATION Spec
CONSTANTS
    Requests = {r1, r2}
    Operations = {"validate", "reject", "uploadBC"}
    StartSteps = {"BC"}
    StartTypes = {"OPERATION"}
    Amounts = {999999}
    BudgetThreshold = 5000000
    MaxQuotes = 1
    MaxFlows = 4
    CanFail = FALSE
PROPERTIES
    StaysRejected
\* A purchase that is done, rejected or deleted is worked on no more.
CHECK_DEADLOCK FALSE
