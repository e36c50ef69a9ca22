------------------------ MODULE PurchaseProperties -------------------------
(***************************************************************************)
(* What is claimed of the purchase lifecycle.  The first section holds     *)
(* however the requests interleave and wherever they fail; the second only *)
(* while one request runs at a time; the third states what the code's      *)
(* documentation promises and the code does not keep.                      *)
(***************************************************************************)
EXTENDS PurchaseSystem, PurchaseQueries

Decided(w) == (1..Len(w.validators)) \ Undecided(w)

\* No request is under way.
Quiet == \A r \in Requests : req[r] = Idle

-----------------------------------------------------------------------------
(* Under any interleaving.                                                 *)

\* In every workflow the validators who have decided come before those who
\* have not: nobody is overtaken, although the turn is checked in one
\* database call and the decision written in another.
ApprovalsInOrder ==
    \A s \in FlowSteps : \A i \in Decided(flows[s]) :
        (1..(i - 1)) \subseteq Decided(flows[s])

Pending(r, do) ==
    { i \in 1..Len(req[r].todo) : req[r].todo[i].do = do }

\* The validator may be marked: if his workflow still stands, nobody before
\* him is left to decide.  A workflow yet to be created has a greater id.
MayMark(step, id, order) ==
    /\ id < nextFlow
    /\ Stands(step, id) => /\ order \in 1..Len(flows[step].validators)
                           /\ 1..(order - 1) \subseteq Decided(flows[step])

\* Why ApprovalsInOrder holds, as an inductive invariant: a turn that a request
\* has looked up stays good until it is written, since no decision is ever
\* withdrawn and no id is ever used again.
TurnsStayGood ==
    /\ ApprovalsInOrder
    /\ \A s \in FlowSteps : /\ flows[s].id < nextFlow
                            /\ Exists(s) \/ flows[s] = NoFlow
    /\ \A r \in Requests :
            /\ MayMark(req[r].turn.step, req[r].turn.id, req[r].turn.order)
            /\ \A i \in Pending(r, "mark") :
                    LET m == req[r].todo[i] IN MayMark(m.step, m.id, m.order)

\* A flag isComplete is never set too early: a workflow that still waits for
\* a validator is never hidden from that validator's worklist, which only
\* shows workflows without the flag.
CompleteFlagSound ==
    \A s \in FlowSteps : flows[s].isComplete => Undecided(flows[s]) = {}

\* The request still has to move the purchase to another step.
Moves(r) == \E i \in Pending(r, "update") : req[r].todo[i].step # Keep

\* A validation that is about to move the purchase to the next step, its own
\* mark behind it, goes by a workflow in which everybody has decided (unless
\* that workflow is gone): counting the signatures on a stale snapshot never
\* counts one too many.
MovesOnlyWhenSigned ==
    \A r \in Requests :
        ( /\ req[r].op = "validate"
          /\ Pending(r, "mark") = {}
          /\ Moves(r)
          /\ Stands(req[r].seen.step, req[r].seen.id) )
        => Undecided(flows[req[r].seen.step]) = {}

\* The validators of the workflow (step, id) that the request will yet mark.
Awaited(r, step, id) ==
    { req[r].todo[i].order :
        i \in { j \in Pending(r, "mark") : /\ req[r].todo[j].step = step
                                          /\ req[r].todo[j].id = id } }

\* What the request has seen of a workflow that still stands errs on the safe
\* side only: no validator is open now who was not open then, what is left to
\* sign when it moves the purchase is what it will sign itself, and it found
\* the workflow complete only if it is.  It advances the workflow it has seen,
\* and no other workflow has the id of its turn.
SnapshotSound(r) ==
    LET seen == req[r].seen
        turn == req[r].turn
        InSight == Stands(seen.step, seen.id)
        Left == Undecided(flows[seen.step])
    IN  /\ seen.id < nextFlow
        /\ InSight => Left \subseteq seen.open
        /\ \A s \in FlowSteps : Stands(s, turn.id) => s = turn.step
        /\ \A i \in Pending(r, "readFlow") \cup Pending(r, "advanceFlow") :
                req[r].todo[i].step = seen.step /\ req[r].todo[i].id = seen.id
        /\ req[r].op = "validate" /\ Moves(r) /\ InSight
                => Left \subseteq Awaited(r, seen.step, seen.id)
        /\ req[r].allSigned => seen.id # 0 /\ (InSight => Left = {})

\* Why CompleteFlagSound and MovesOnlyWhenSigned hold, as an inductive
\* invariant next to TurnsStayGood: a snapshot only ages well, since
\* workflows gain decisions and ids are not used again, not even for
\* another step.
SnapshotsStaySound ==
    /\ CompleteFlagSound
    /\ \A s \in FlowSteps, t \in FlowSteps :
            Exists(s) /\ flows[s].id = flows[t].id => s = t
    /\ \A r \in Requests : SnapshotSound(r)

\* A decision can be replaced by a later one, never withdrawn: a workflow
\* only loses signatures by being deleted.
NoDecisionWithdrawn ==
    [][ \A s \in FlowSteps :
            flows'[s].id = flows[s].id
            => Decided(flows[s]) \subseteq Decided(flows'[s]) ]_vars

-----------------------------------------------------------------------------
(* One request at a time.                                                  *)

\* The step only ever changes to its successor: no handler skips a step or
\* goes back to an earlier one.
StepsInOrder ==
    [][ purchase'.currentStep # purchase.currentStep
        => StepNumber[purchase'.currentStep] = StepNumber[purchase.currentStep] + 1 ]_vars

ApprovedBy(w, roles) ==
    /\ Len(w.validators) = Len(roles)
    /\ \A i \in 1..Len(roles) :
            w.validators[i] = [role |-> roles[i], decision |-> "VALIDATED"]

\* The purchase leaves a step that needs signatures only with a workflow of
\* that step in which every role the matrix asks for, for the operation type
\* and the amount the purchase has at that moment, has said yes.  Items and
\* fields may have been revised in between, also after a change request.
LeavesStepApproved ==
    [][ ( /\ purchase'.currentStep # purchase.currentStep
          /\ purchase.currentStep \in FlowSteps )
        => ApprovedBy(flows[purchase.currentStep],
                      RequireValidators(purchase.currentStep,
                                        purchase.operationType,
                                        purchase.amount)) ]_vars

UnderWay ==
    /\ purchase.status \in OpenStatuses \cup {"AWAITING_DOCUMENTS"}
    /\ purchase.currentStep # "DONE"

\* Between requests, a purchase that waits for approval can get it: the
\* workflow of its step is the one the authorisation will look at and still
\* has a validator to decide.  The roles that find it in their worklist are
\* those that may decide it now: the listing goes by the step and the flags,
\* the authorisation by the workflow created last.  What is under way is on
\* the desk of a validator or the buyer; at QR, on the quote desk, unless a
\* derogation is asked for.
PendingIsActionable ==
    Quiet /\ purchase.exists =>
        /\ ( \/ purchase.status = "PENDING_APPROVAL"
             \/ purchase.status = "PUBLISHED" /\ purchase.currentStep = "DA" )
            => /\ purchase.currentStep \in FlowSteps
               /\ IsLatest(purchase.currentStep)
               /\ ~Complete(flows[purchase.currentStep])
        /\ {role \in Roles : IsListed(role)} =
                {turn.role : turn \in {t \in AuthorisedTurns : AwaitsValidation}}
        /\ UnderWay =>
            \/ \E role \in Roles : IsListed(role)
            \/ purchase.currentStep = "QR" /\ OnQuoteDesk
            \/ (purchase.currentStep # "QR" \/ papers.derogation = "PENDING") /\ InBuyerWorkspace

\* Between requests, nothing is in the way of publishing a draft: the DA
\* workflow it will create is not there yet.
DraftHasNoChain ==
    Quiet /\ purchase.exists /\ purchase.status = "DRAFT" => ~Exists("DA")

\* Between requests, closedAt is set exactly on the purchases that are
\* refused, sent back or done.
ClosedMatchesStatus ==
    Quiet /\ purchase.exists =>
        ( purchase.closed <=> \/ purchase.status \in {"REJECTED", "CHANGE_REQUESTED"}
                              \/ purchase.currentStep = "DONE" )

\* Between requests, the papers of the steps behind the purchase are there:
\* the purchase order, delivery note, invoice and proof of payment.  Nobody
\* deletes attachments in the runs that check it.
PaperTrail ==
    Quiet /\ purchase.exists =>
        LET Behind(s) == StepBefore(s, purchase.currentStep)
        IN  /\ Behind("BC") => "PURCHASE_ORDER" \in papers.docs
            /\ Behind("BR") => "DELIVERY_NOTE" \in papers.docs
            /\ Behind("INVOICE") => "INVOICE" \in papers.docs
            /\ Behind("PROOF_OF_PAYMENT") => "PROOF_OF_PAYMENT" \in papers.docs

\* A rejected purchase stays rejected and its step and workflows stay as
\* they are.
RejectionIsFinal ==
    [][ purchase.status = "REJECTED"
        => purchase' = purchase /\ flows' = flows ]_vars

-----------------------------------------------------------------------------
(* Promised by the documentation or the messages, not kept by the code.    *)

\* "Si tous les validateurs ont valide : passage a l'etape suivante"
\* (validation.controller.ts).  Between requests, no purchase is left
\* waiting for approval at a step where everybody has signed.
SignedMeansMoved ==
    Quiet /\ AwaitsValidation => ~Complete(flows[purchase.currentStep])

\* "Budget threshold enforcement" (purchase.service.ts).  Between requests,
\* no purchase waits for the approval of a total above its budget line's.
PublishedWithinBudget ==
    ( /\ Quiet
      /\ purchase.currentStep = "DA"
      /\ purchase.status = "PUBLISHED" )
    => purchase.amount <= BudgetThreshold

\* "Status -> REJECTED, workflow termine, demande fermee"
\* (validation.controller.ts).  Nothing takes a purchase out of REJECTED.
StaysRejected ==
    [][ purchase.status = "REJECTED" => purchase'.status = "REJECTED" ]_vars

-----------------------------------------------------------------------------
(* Liveness.                                                               *)

\* Every request gets its database calls answered, and a validator whose turn
\* it is eventually decides.  The first is what the server and the database
\* do as long as they run; the second is the users' part.
Fairness ==
    \A r \in Requests :
        /\ WF_vars(Continue(r))
        /\ WF_vars(ValidateLoad(r) \/ ValidateAuth(r) \/ RefuseLoad(r)
                   \/ RefuseTurn(r))
        /\ SF_vars(ValidateAuthFirst(r))

FairSpec == Spec /\ Fairness

\* A purchase published at DA is eventually decided on: it enters QR, or is
\* refused or sent back.
PublishedIsDecided ==
    (purchase.currentStep = "DA" /\ purchase.status = "PUBLISHED")
    ~> ( \/ purchase.currentStep = "QR"
         \/ purchase.status \in {"REJECTED", "CHANGE_REQUESTED"} )
=============================================================================
