--------------------------- MODULE PurchaseState ---------------------------
(***************************************************************************)
(* One purchase (a "DA"), the rows that hang off it in the database, and   *)
(* the HTTP requests that are working on it.                               *)
(*                                                                         *)
(* No handler of the purchase modules opens a database transaction: each   *)
(* awaited Prisma call commits by itself, and between two of them every    *)
(* other request may run.  A request is therefore modelled as its reads,   *)
(* which check the guards and take a snapshot, followed by the list todo   *)
(* of the writes it still has to await.  The handlers (modules             *)
(* PurchaseApproval, PurchaseAuthoring, ...) decide the list; this module  *)
(* defines the state and what each single write does to it.                *)
(***************************************************************************)
EXTENDS WorkflowRules, FiniteSets

CONSTANTS
    Requests,         \* identities of the requests that may run at once
    Operations,       \* those of the Endpoints the users call
    StartSteps,       \* steps at which a behaviour may start, see Init
    StartTypes,       \* operation types with which it may start
    Amounts,          \* totals of the item lists the creator may send
    BudgetThreshold,  \* budgetThreshold of the purchase's budget line
    MaxQuotes,        \* bound: no more quotes than this are uploaded
    MaxFlows,         \* bound: workflows created in a behaviour
    CanFail           \* TRUE if a request may die between two awaits

\* The endpoints that are modelled.
Endpoints ==
    {"validate", "reject", "requestChanges", "addPurchaseItems",
     "updatePurchase", "publish", "updateAndRepublish", "deleteDraft",
     "uploadQuotes", "deleteQuote", "submitQuotes", "proceedWithQuotes",
     "requestDerogation", "validateDerogation", "createPV", "updatePV",
     "uploadBC", "uploadDocument", "submitDocument", "submitForValidation",
     "createAttachment", "deleteAttachment"}

ASSUME OperationsAssumption == Operations \subseteq Endpoints

ASSUME AmountsAssumption == Amounts \subseteq Nat \ {0}

ASSUME BoundsAssumption ==
    /\ BudgetThreshold \in Nat
    /\ MaxQuotes \in Nat
    /\ MaxFlows \in Nat
    /\ CanFail \in BOOLEAN

ASSUME StartAssumption ==
    /\ StartSteps \subseteq {"DA", "QR", "PV", "BC", "DAP"}
    /\ StartTypes \subseteq OperationTypes

VARIABLES
    purchase,    \* the row of the purchase
    flows,       \* per step, the validation workflow of that step
    nextFlow,    \* id of the next workflow created; doubles as createdAt
    papers,      \* the rest: attachments, derogation, PV
    req          \* per request, its local state

vars == << purchase, flows, nextFlow, papers, req >>

-----------------------------------------------------------------------------
(* The rows.                                                               *)

Decisions == {"none", "VALIDATED", "REJECTED", "CHANGE_REQUESTED"}

\* A validator's isValidated is decision # "none": the code sets both in one
\* update, also when the decision is to reject or to ask for changes.  Its
\* order is its index, which the code counts from 0.
Validator == [role : Roles, decision : Decisions]

\* The unique key (purchase, step) leaves at most one workflow per step;
\* an id of 0 stands for none.  The column currentStep, which only responses
\* show, is left out.
Workflow == [id : Nat, validators : Seq(Validator), isComplete : BOOLEAN]

NoFlow == [id |-> 0, validators |-> << >>, isComplete |-> FALSE]

\* An item list is represented by its total, no items by 0.  closed says
\* whether closedAt is set.
Purchase == [exists : BOOLEAN, status : Statuses, currentStep : Steps,
             closed : BOOLEAN, operationType : OperationTypes, amount : Nat]

\* The attachment types the code asks for, "OTHER/DAP" being an attachment
\* of type OTHER whose description mentions DAP.
DocTypes == {"PURCHASE_ORDER", "DELIVERY_NOTE", "INVOICE", "DAP",
             "OTHER/DAP", "PROOF_OF_PAYMENT"}

\* A PV is "empty" while it has no supplier.
Papers == [quotes : Nat, docs : SUBSET DocTypes,
           derogation : {"none", "PENDING", "VALIDATED", "REJECTED"},
           pv : {"none", "empty", "filled"}]

-----------------------------------------------------------------------------
(* The writes a request can await.                                         *)

Keep == "keep"    \* a column the update leaves alone

Update(step, status, closed, op) ==
    [do |-> "update", step |-> step, status |-> status, closed |-> closed,
     operationType |-> op]

SetStatus(status) == Update(Keep, status, Keep, Keep)
MoveTo(step, status) == Update(step, status, Keep, Keep)
Close(status) == Update(Keep, status, "set", Keep)

Mark(step, id, order, decision) ==
    [do |-> "mark", step |-> step, id |-> id, order |-> order,
     decision |-> decision]

ReadFlow(step, id) == [do |-> "readFlow", step |-> step, id |-> id]
AdvanceFlow(step, id) == [do |-> "advanceFlow", step |-> step, id |-> id]

CreateFlow(step, roles, signed) ==
    [do |-> "createFlow", step |-> step, roles |-> roles, signed |-> signed]

DeleteFlows(steps) == [do |-> "deleteFlows", steps |-> steps]

DeletePurchase == [do |-> "deletePurchase"]
DeleteItems == [do |-> "deleteItems"]
CreateItems(amount) == [do |-> "createItems", amount |-> amount]
AddQuotes(n) == [do |-> "addQuotes", count |-> n]
DropQuote == [do |-> "dropQuote"]
AddDoc(type) == [do |-> "addDoc", type |-> type]
DropDocs(type) == [do |-> "dropDocs", type |-> type]
CreateDerogation(status) == [do |-> "createDerogation", status |-> status]
SetDerogation(status) == [do |-> "setDerogation", status |-> status]
CreatePv(pv) == [do |-> "createPv", pv |-> pv]
SavePv(pv) == [do |-> "savePv", pv |-> pv]

\* A read between two writes that throws unless it finds what it looks for:
\* an attachment of a type, or a PV with a supplier.
Require(what) == [do |-> "require", what |-> what]

Write ==
    [do : {"update"}, step : Steps \cup {Keep}, status : Statuses \cup {Keep},
     closed : {"set", "clear", Keep},
     operationType : OperationTypes \cup {Keep}]
    \cup [do : {"mark"}, step : FlowSteps, id : Nat, order : Nat,
          decision : Decisions \ {"none"}]
    \cup [do : {"readFlow", "advanceFlow"}, step : FlowSteps, id : Nat]
    \cup [do : {"createFlow"}, step : FlowSteps, roles : Seq(Roles),
          signed : BOOLEAN]
    \cup [do : {"deleteFlows"}, steps : SUBSET FlowSteps]
    \cup [do : {"deletePurchase", "deleteItems", "dropQuote"}]
    \cup [do : {"createItems"}, amount : Nat]
    \cup [do : {"addQuotes"}, count : Nat]
    \cup [do : {"addDoc", "dropDocs"}, type : DocTypes]
    \cup [do : {"createDerogation", "setDerogation"},
          status : {"PENDING", "VALIDATED", "REJECTED"}]
    \cup [do : {"createPv", "savePv"}, pv : {"empty", "filled"}]
    \cup [do : {"require"}, what : DocTypes \cup {"PV"}]

-----------------------------------------------------------------------------
(* The local state of a request.                                           *)

\* The validator row whose turn it was when the request was authorised.
Turn == [step : FlowSteps, id : Nat, order : Nat, role : Roles]
NoTurn == [step |-> "DA", id |-> 0, order |-> 0, role |-> "DEMANDEUR"]

\* What the request read of the purchase: its step and status, the workflow
\* of that step and which of its validators were still to decide.
Snapshot == [step : FlowSteps, status : Statuses, id : Nat, open : SUBSET Nat]
NotLoaded == [step |-> "DA", status |-> "DRAFT", id |-> 0, open |-> {}]

\* allSigned is what advanceWorkflow computed from the workflow it read.
Request == [op : Endpoints \cup {"idle"}, turn : Turn, seen : Snapshot,
            allSigned : BOOLEAN, todo : Seq(Write)]

Idle == [op |-> "idle", turn |-> NoTurn, seen |-> NotLoaded,
         allSigned |-> FALSE, todo |-> << >>]

\* A request that has done its reads and goes on to the writes w.
Planned(op, w) == [Idle EXCEPT !.op = op, !.todo = w]

TypeOK ==
    /\ purchase \in Purchase
    /\ flows \in [FlowSteps -> Workflow]
    /\ nextFlow \in Nat \ {0}
    /\ papers \in Papers
    /\ req \in [Requests -> Request]

-----------------------------------------------------------------------------
(* Reading a workflow.                                                     *)

Exists(s) == flows[s].id # 0

Undecided(w) == {i \in 1..Len(w.validators) : w.validators[i].decision = "none"}

\* Mutant of IsNext: any validator still to decide.
IsOpen(w, i) == i \in Undecided(w)

\* getNextValidator: of those still to decide, the lowest order.
IsNext(w, i) == i \in Undecided(w) /\ \A j \in Undecided(w) : i <= j

\* Mutant of Complete: the validator who is signing is not awaited.
CompleteButOne(w) == Cardinality(Undecided(w)) <= 1

Complete(w) == Undecided(w) = {}

\* The workflow created last, which getWorkflow returns when no step is given.
IsLatest(s) == Exists(s) /\ \A t \in FlowSteps : flows[t].id <= flows[s].id

\* The workflow (step, id) still stands.
Stands(step, id) == id # 0 /\ flows[step].id = id

NewFlow(id, roles, signed) ==
    [id |-> id,
     validators |->
        [i \in 1..Len(roles) |->
            [role |-> roles[i],
             decision |-> IF signed /\ i = 1 THEN "VALIDATED" ELSE "none"]],
     isComplete |-> FALSE]

-----------------------------------------------------------------------------
(* Init.  A behaviour starts when the purchase has just entered a step of  *)
(* StartSteps: at DA, a draft with its first items; later, as the          *)
(* completed validations of the steps before leave it.                     *)

StepNumber ==
    [s \in Steps |->
        CASE s = "DA" -> 1
          [] s = "QR" -> 2
          [] s = "PV" -> 3
          [] s = "BC" -> 4
          [] s = "BR" -> 5
          [] s = "INVOICE" -> 6
          [] s = "DAP" -> 7
          [] s = "PROOF_OF_PAYMENT" -> 8
          [] s = "DONE" -> 9]

StepBefore(s, t) == StepNumber[s] < StepNumber[t]

SignedFlow(s, op, amount) ==
    LET roles == RequireValidators(s, op, amount)
    IN  [id |-> StepNumber[s],
         validators |-> [i \in 1..Len(roles) |->
                            [role |-> roles[i], decision |-> "VALIDATED"]],
         isComplete |-> TRUE]

InitAt(start, op, amount) ==
    /\ purchase = [exists |-> TRUE,
                   status |-> IF start = "DA" THEN "DRAFT"
                                              ELSE StatusOnEntry(start),
                   currentStep |-> start, closed |-> FALSE,
                   operationType |-> op,
                   amount |-> amount]
    /\ flows = [s \in FlowSteps |-> IF StepBefore(s, start)
                                    THEN SignedFlow(s, op, amount)
                                    ELSE NoFlow]
    /\ nextFlow = StepNumber[start]
    /\ papers = [quotes |-> IF StepBefore("QR", start)
                            THEN RequiredQuotes(amount) ELSE 0,
                 docs |-> {d \in {"PURCHASE_ORDER", "DELIVERY_NOTE", "INVOICE"} :
                            start = "DAP"},
                 derogation |-> "none",
                 pv |-> IF StepBefore("PV", start) THEN "filled" ELSE "none"]

Init ==
    /\ \E start \in StartSteps, op \in StartTypes, amount \in Amounts :
            amount <= BudgetThreshold /\ InitAt(start, op, amount)
    /\ req = [r \in Requests |-> Idle]

-----------------------------------------------------------------------------
(* Awaiting one write.                                                     *)

\* Request r has the write w next.
Awaits(r, do) == req[r].todo # << >> /\ Head(req[r].todo).do = do

\* The write is done: on to the next, or the response is sent.
Done(r) ==
    LET rest == Tail(req[r].todo)
    IN  req' = [req EXCEPT ![r] = IF rest = << >>
                                  THEN Idle
                                  ELSE [req[r] EXCEPT !.todo = rest]]

\* The write throws: the handler rejects, what it wrote before stays.
Throw(r) == req' = [req EXCEPT ![r] = Idle]

Patch(old, new) == IF new = Keep THEN old ELSE new

UpdatePurchase(r) ==
    /\ Awaits(r, "update")
    /\ LET w == Head(req[r].todo)
       IN  IF purchase.exists
           THEN /\ purchase' =
                     [purchase EXCEPT
                        !.currentStep = Patch(@, w.step),
                        !.status = Patch(@, w.status),
                        !.operationType = Patch(@, w.operationType),
                        !.closed = IF w.closed = Keep THEN @
                                                      ELSE w.closed = "set"]
                /\ Done(r)
           ELSE Throw(r) /\ UNCHANGED purchase
    /\ UNCHANGED << flows, nextFlow, papers >>

\* The cascades take the workflows and every paper of the purchase along.
RemovePurchase(r) ==
    /\ Awaits(r, "deletePurchase")
    /\ IF purchase.exists
       THEN /\ purchase' = [purchase EXCEPT !.exists = FALSE, !.amount = 0]
            /\ flows' = [s \in FlowSteps |-> NoFlow]
            /\ papers' = [quotes |-> 0, docs |-> {}, derogation |-> "none",
                          pv |-> "none"]
            /\ Done(r)
       ELSE Throw(r) /\ UNCHANGED << purchase, flows, papers >>
    /\ UNCHANGED nextFlow

RemoveItems(r) ==
    /\ Awaits(r, "deleteItems")
    /\ purchase' = [purchase EXCEPT !.amount = 0]
    /\ Done(r)
    /\ UNCHANGED << flows, nextFlow, papers >>

\* Created rows add up: the table has no key that would stop a second list.
InsertItems(r) ==
    /\ Awaits(r, "createItems")
    /\ IF purchase.exists
       THEN /\ purchase' = [purchase EXCEPT
                                !.amount = @ + Head(req[r].todo).amount]
            /\ Done(r)
       ELSE Throw(r) /\ UNCHANGED purchase
    /\ UNCHANGED << flows, nextFlow, papers >>

RemoveFlows(r) ==
    /\ Awaits(r, "deleteFlows")
    /\ flows' = [s \in FlowSteps |-> IF s \in Head(req[r].todo).steps
                                     THEN NoFlow ELSE flows[s]]
    /\ Done(r)
    /\ UNCHANGED << purchase, nextFlow, papers >>

\* Fails on the unique key (purchase, step).
InsertFlow(r) ==
    /\ Awaits(r, "createFlow")
    /\ LET w == Head(req[r].todo)
       IN  IF purchase.exists /\ ~Exists(w.step)
           THEN /\ flows' = [flows EXCEPT ![w.step] =
                                NewFlow(nextFlow, w.roles, w.signed)]
                /\ nextFlow' = nextFlow + 1
                /\ Done(r)
           ELSE Throw(r) /\ UNCHANGED << flows, nextFlow >>
    /\ UNCHANGED << purchase, papers >>

\* Mutant of MarkValidator: a rejection starts the round again.
MarkAndReset(r) ==
    /\ Awaits(r, "mark")
    /\ LET w == Head(req[r].todo)
       IN  IF Stands(w.step, w.id)
           THEN /\ flows' = [flows EXCEPT ![w.step].validators =
                    [i \in DOMAIN @ |->
                        [@[i] EXCEPT !.decision =
                            IF i = w.order THEN w.decision
                            ELSE IF w.decision = "REJECTED" THEN "none"
                            ELSE @]]]
                /\ Done(r)
           ELSE Throw(r) /\ UNCHANGED flows
    /\ UNCHANGED << purchase, nextFlow, papers >>

\* validator.update by id: whatever the row's decision was, it is replaced.
MarkValidator(r) ==
    /\ Awaits(r, "mark")
    /\ LET w == Head(req[r].todo)
       IN  IF Stands(w.step, w.id)
           THEN /\ flows' = [flows EXCEPT
                        ![w.step].validators[w.order].decision = w.decision]
                /\ Done(r)
           ELSE Throw(r) /\ UNCHANGED flows
    /\ UNCHANGED << purchase, nextFlow, papers >>

\* The two halves of advanceWorkflow.
ReadFlowToAdvance(r) ==
    /\ Awaits(r, "readFlow")
    /\ LET w == Head(req[r].todo)
       IN  IF Stands(w.step, w.id)
           THEN req' = [req EXCEPT ![r].allSigned = Complete(flows[w.step]),
                                   ![r].todo = Tail(@)]
           ELSE Throw(r)
    /\ UNCHANGED << purchase, flows, nextFlow, papers >>

WriteFlowAdvance(r) ==
    /\ Awaits(r, "advanceFlow")
    /\ LET w == Head(req[r].todo)
       IN  IF Stands(w.step, w.id)
           THEN /\ flows' = [flows EXCEPT
                        ![w.step].isComplete = req[r].allSigned]
                /\ Done(r)
           ELSE Throw(r) /\ UNCHANGED flows
    /\ UNCHANGED << purchase, nextFlow, papers >>

\* The attachments, the derogation and the PV.  A derogation and a PV are
\* unique per purchase.
PapersAfter(w) ==
    CASE w.do = "addQuotes" -> [papers EXCEPT !.quotes = @ + w.count]
      [] w.do = "dropQuote" -> [papers EXCEPT !.quotes = @ - 1]
      [] w.do = "addDoc" -> [papers EXCEPT !.docs = @ \cup {w.type}]
      [] w.do = "dropDocs" -> [papers EXCEPT !.docs = @ \ {w.type}]
      [] w.do \in {"createDerogation", "setDerogation"} ->
            [papers EXCEPT !.derogation = w.status]
      [] w.do \in {"createPv", "savePv"} -> [papers EXCEPT !.pv = w.pv]

PaperWrites == {"addQuotes", "dropQuote", "addDoc", "dropDocs", "createDerogation",
                "setDerogation", "createPv", "savePv"}

WritePapers(r) ==
    /\ \E do \in PaperWrites : Awaits(r, do)
    /\ LET w == Head(req[r].todo)
       IN  IF /\ purchase.exists
              /\ w.do = "createDerogation" => papers.derogation = "none"
              /\ w.do = "dropQuote" => papers.quotes > 0
              /\ w.do = "createPv" => papers.pv = "none"
           THEN papers' = PapersAfter(w) /\ Done(r)
           ELSE Throw(r) /\ UNCHANGED papers
    /\ UNCHANGED << purchase, flows, nextFlow >>

CheckPapers(r) ==
    /\ Awaits(r, "require")
    /\ LET what == Head(req[r].todo).what
       IN  IF IF what = "PV" THEN papers.pv = "filled" ELSE what \in papers.docs
           THEN Done(r)
           ELSE Throw(r)
    /\ UNCHANGED << purchase, flows, nextFlow, papers >>

Continue(r) ==
    \/ CheckPapers(r)
    \/ UpdatePurchase(r)
    \/ RemovePurchase(r)
    \/ RemoveItems(r)
    \/ InsertItems(r)
    \/ RemoveFlows(r)
    \/ InsertFlow(r)
    \/ MarkValidator(r)
    \/ ReadFlowToAdvance(r)
    \/ WriteFlowAdvance(r)
    \/ WritePapers(r)

\* The process dies, or the awaited call fails: what was written stays.
Fail(r) ==
    /\ CanFail
    /\ req[r] # Idle
    /\ Throw(r)
    /\ UNCHANGED << purchase, flows, nextFlow, papers >>

-----------------------------------------------------------------------------
(* Starting a request.                                                     *)

\* Request r is free, the users call op, and the purchase is found.
Starts(r, op) == req[r] = Idle /\ op \in Operations /\ purchase.exists

\* Same for an operation that goes on to create a workflow.
FlowsLeft == nextFlow <= MaxFlows
StartsFlow(r, op) == Starts(r, op) /\ FlowsLeft

\* The handler has passed its guards and goes on to the writes w.
Runs(r, op, w) ==
    /\ req' = [req EXCEPT ![r] = Planned(op, w)]
    /\ UNCHANGED << purchase, flows, nextFlow, papers >>
=============================================================================
