SPECIFICATION Spec
CONSTANTS
    Requests = {r1}
    Operations = {"validate", "uploadQuotes", "deleteQuote", "submitQuotes",
        "requestDerogation", "validateDerogation", "proceedWithQuotes",
        "createPV", "uploadBC", "uploadDocument", "submitDocument",
        "submitForValidation", "createAttachment", "deleteAttachment"}
    StartSteps = {"QR"}
    StartTypes = {"OPERATION"}
    Amounts = {999999}
    BudgetThreshold = 5000000
    MaxQuotes = 1
    MaxFlows = 5
    CanFail = FALSE
INVARIANTS
    PendingIsActionable
\* A purchase that is done, rejected or deleted is worked on no more.
CHECK_DEADLOCK FALSE
