-------------------------- MODULE PurchaseApproval --------------------------
(***************************************************************************)
(* The validators' three endpoints: validateDA, rejectDA and               *)
(* requestChangesOnDA.                                                     *)
(*                                                                         *)
(* All three are authorised against the workflow created last, whatever    *)
(* its step.  reject and requestChanges then load the purchase and look up *)
(* the turn again, at the purchase's current step; validate loads the      *)
(* purchase in parallel with the authorisation and marks the validator     *)
(* the authorisation found.  A user whose role is not that of the next     *)
(* validator is refused without effect, so the caller of a request is      *)
(* taken to be a user of that role.                                        *)
(***************************************************************************)
EXTENDS PurchaseState

ApprovalOps == {"validate", "reject", "requestChanges"}

\* Mutant of DecisionOf: a name that is not in the enum.
DecisionMisnamed(op) == CASE op = "reject" -> "REJECTED"
                          [] op = "requestChanges" -> "CHANGES_REQUESTED"

DecisionOf(op) == CASE op = "validate" -> "VALIDATED"
                    [] op = "reject" -> "REJECTED"
                    [] op = "requestChanges" -> "CHANGE_REQUESTED"

-----------------------------------------------------------------------------
(* The reads.                                                              *)

TurnOf(s, i) == [step |-> s, id |-> flows[s].id, order |-> i,
                 role |-> flows[s].validators[i].role]

\* The validator that getUserAndCheckAuthorization returns.
AuthorisedTurns ==
    UNION { { TurnOf(s, i) : i \in { j \in Undecided(flows[s]) :
                                        IsNext(flows[s], j) } } :
            s \in { t \in FlowSteps : IsLatest(t) } }

\* Mutant of OpenStatuses: a refusal does not close the votes.
StatusesNotFinal == {"PUBLISHED", "PENDING_APPROVAL", "IN_DEROGATION", "REJECTED"}

OpenStatuses == {"PUBLISHED", "PENDING_APPROVAL", "IN_DEROGATION"}

\* validatePurchaseState.
AwaitsValidation ==
    /\ purchase.exists
    /\ purchase.status \in OpenStatuses
    /\ purchase.currentStep \in FlowSteps
    /\ Exists(purchase.currentStep)

LoadedSnapshot ==
    [step |-> purchase.currentStep,
     status |-> purchase.status,
     id |-> flows[purchase.currentStep].id,
     open |-> Undecided(flows[purchase.currentStep])]

-----------------------------------------------------------------------------
(* What a validation goes on to write.                                     *)

\* Mutants of SignsLast: the caller's own signature is not counted; one
\* signature is not waited for.
CountsOthersOnly(turn, seen) == seen.open = {}

CountsOneTooMany(turn, seen) == Cardinality(seen.open) <= 2

\* The rows of the snapshot, with the caller's own marked on top of them.
SignsLast(turn, seen) ==
    seen.open \subseteq IF turn.id = seen.id THEN {turn.order} ELSE {}

\* The mark and the two halves of advanceWorkflow run in a Promise.all.  If
\* the workflow is deleted in between both sides fail from then on, so to
\* stop at the first that does leaves the database as the code leaves it.
ParallelWrites(turn, seen) ==
    LET mark == Mark(turn.step, turn.id, turn.order, "VALIDATED")
        read == ReadFlow(seen.step, seen.id)
        write == AdvanceFlow(seen.step, seen.id)
    IN  { << mark, read, write >>, << read, mark, write >>,
          << read, write, mark >> }

\* The purchase's status: PUBLISHED after the last signature, else the one
\* of the snapshot, written back.
ValidatedStatus(turn, seen) ==
    IF SignsLast(turn, seen) THEN "PUBLISHED" ELSE seen.status

\* handleStepCompletion.
CompletionWrites(turn, seen) ==
    IF SignsLast(turn, seen)
    THEN LET next == NextStepMap[seen.step]
         IN  << MoveTo(next, StatusOnEntry(next)) >>
    ELSE << >>

ValidationWrites(turn, seen) ==
    { p \o << SetStatus(ValidatedStatus(turn, seen)) >>
        \o CompletionWrites(turn, seen) : p \in ParallelWrites(turn, seen) }

-----------------------------------------------------------------------------
(* validateDA.                                                             *)

\* What was seen is kept, for the properties to refer to.
Validating(seen, w) == [Planned("validate", w) EXCEPT !.seen = seen]

\* The two reads of the Promise.all, in either order.
ValidateAuthFirst(r) ==
    /\ Starts(r, "validate")
    /\ \E turn \in AuthorisedTurns :
            req' = [req EXCEPT ![r].op = "validate", ![r].turn = turn]
    /\ UNCHANGED << purchase, flows, nextFlow, papers >>

ValidateLoadFirst(r) ==
    /\ Starts(r, "validate")
    /\ AwaitsValidation
    /\ req' = [req EXCEPT ![r].op = "validate", ![r].seen = LoadedSnapshot]
    /\ UNCHANGED << purchase, flows, nextFlow, papers >>

\* The second read: it goes on to the writes, or the request is refused, in
\* ValidateAuth also when the caller is not of the next validator's role.
ValidateLoad(r) ==
    /\ req[r].op = "validate"
    /\ req[r].todo = << >>
    /\ req[r].seen = NotLoaded
    /\ IF AwaitsValidation
       THEN \E w \in ValidationWrites(req[r].turn, LoadedSnapshot) :
                req' = [req EXCEPT ![r] = Validating(LoadedSnapshot, w)]
       ELSE Throw(r)
    /\ UNCHANGED << purchase, flows, nextFlow, papers >>

ValidateAuth(r) ==
    /\ req[r].op = "validate"
    /\ req[r].todo = << >>
    /\ req[r].turn = NoTurn
    /\ \/ \E turn \in AuthorisedTurns :
            \E w \in ValidationWrites(turn, req[r].seen) :
                req' = [req EXCEPT ![r] = Validating(req[r].seen, w)]
       \/ Throw(r)
    /\ UNCHANGED << purchase, flows, nextFlow, papers >>

-----------------------------------------------------------------------------
(* rejectDA and requestChangesOnDA.                                        *)

\* getUserAndCheckAuthorization.  Only the caller's role is kept.
RefuseAuth(r) ==
    /\ \E op \in {"reject", "requestChanges"} :
            /\ Starts(r, op)
            /\ \E turn \in AuthorisedTurns :
                    req' = [req EXCEPT ![r].op = op,
                                          ![r].turn.role = turn.role]
    /\ UNCHANGED << purchase, flows, nextFlow, papers >>

\* getPurchaseWithWorkflow and validatePurchaseState.
RefuseLoad(r) ==
    /\ req[r].op \in {"reject", "requestChanges"}
    /\ req[r].todo = << >>
    /\ req[r].seen = NotLoaded
    /\ IF AwaitsValidation
       THEN req' = [req EXCEPT ![r].seen = LoadedSnapshot]
       ELSE Throw(r)
    /\ UNCHANGED << purchase, flows, nextFlow, papers >>

\* canUserValidate at the step of the snapshot, in the database as it is now.
RefuseTurn(r) ==
    /\ req[r].op \in {"reject", "requestChanges"}
    /\ req[r].todo = << >>
    /\ req[r].seen # NotLoaded
    /\ LET s == req[r].seen.step
           decision == DecisionOf(req[r].op)
           Mine(i) == /\ IsNext(flows[s], i)
                      /\ flows[s].validators[i].role = req[r].turn.role
       IN  \/ \E i \in 1..Len(flows[s].validators) :
                /\ Mine(i)
                /\ req' = [req EXCEPT ![r] = Planned(req[r].op,
                        << Mark(s, flows[s].id, i, decision),
                           Close(decision) >>)]
           \/ /\ \A i \in 1..Len(flows[s].validators) : ~Mine(i)
              /\ Throw(r)
    /\ UNCHANGED << purchase, flows, nextFlow, papers >>

ApprovalNext(r) ==
    \/ ValidateAuthFirst(r)
    \/ ValidateLoadFirst(r)
    \/ ValidateLoad(r)
    \/ ValidateAuth(r)
    \/ RefuseAuth(r)
    \/ RefuseLoad(r)
    \/ RefuseTurn(r)
=============================================================================
