SPECIFICATION Spec
CONSTANTS
    Requests = {r1}
    Operations = {"validate", "reject", "requestChanges", "addPurchaseItems",
        "updatePurchase", "publish", "updateAndRepublish", "deleteDraft",
        "submitQuotes", "createPV", "updatePV", "uploadBC", "uploadDocument",
        "submitDocument", "submitForValidation"}
    StartSteps = {"DA", "BC"}
    StartTypes = {"OPERATION", "PROGRAMME"}
    Amounts = {4999999, 5000000}
    BudgetThreshold = 5000000
    MaxQuotes = 3
    MaxFlows = 6
    CanFail = FALSE
INVARIANTS
    TypeOK
    PendingIsActionable
    DraftHasNoChain
    PaperTrail
    ClosedMatchesStatus
PROPERTIES
    StepsInOrder
    LeavesStepApproved
    RejectionIsFinal
\* A purchase that is done, rejected or deleted is worked on no more.
CHECK_DEADLOCK FALSE
