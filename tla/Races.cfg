SPECIFICATION Spec
CONSTANTS
    Requests = {r1, r2}
    Operations = {"validate", "reject", "uploadBC", "submitForValidation"}
    StartSteps = {"BC"}
    StartTypes = {"OPERATION"}
    Amounts = {999999}
    BudgetThreshold = 5000000
    MaxQuotes = 1
    MaxFlows = 4
    CanFail = TRUE
INVARIANTS
    TurnsStayGood
    ApprovalsInOrder
    CompleteFlagSound
    MovesOnlyWhenSigned
PROPERTIES
    NoDecisionWithdrawn
SYMMETRY Symmetric
\* A purchase that is rejected, or whose last signature was lost, waits
\* for nobody.
CHECK_DEADLOCK FALSE
