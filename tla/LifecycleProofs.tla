-------------------------- MODULE LifecycleProofs --------------------------
(***************************************************************************)
(* Proofs of what the purchase workflow keeps as long as its requests do   *)
(* not overlap.  A handler then finds the purchase as the handler before   *)
(* left it, and what it has still to write is a suffix of one of the lists *)
(* that handlers build: an invariant says of each kind of suffix what it   *)
(* has still to establish.                                                 *)
(***************************************************************************)
EXTENDS PurchaseProofs

-----------------------------------------------------------------------------
(* The steps in order.                                                     *)
(*                                                                         *)
(* While two requests run, a purchase can be moved by both, and the later  *)
(* move may be a step back.  A request that runs alone takes the purchase  *)
(* to the next step or leaves it where it is, whichever endpoint it calls  *)
(* and wherever it fails.                                                  *)

OneRequest == \A q \in Requests, r \in Requests : q = r

\* Of the writes of a request only the last can move the purchase, and it
\* takes it to the step after the one it is at.  Until it is, the step that a
\* validation has read is the purchase's.
OrderedRequest(x, step) ==
    /\ \A i \in 1..Len(x.todo) :
            MovesStep(x.todo[i])
            => /\ i = Len(x.todo)
               /\ StepNumber[x.todo[i].step] = StepNumber[step] + 1
    /\ x.op = "validate" /\ x.turn = NoTurn => x.seen.step = step

StepsOrdered == \A r \in Requests : OrderedRequest(req[r], purchase.currentStep)

LEMMA IdleOrdered == \A step : OrderedRequest(Idle, step)
<1>1. Idle.todo = << >> /\ Idle.op = "idle"
  BY DEF Idle
<1>2. QED
  BY <1>1 DEF OrderedRequest

\* With one request there is nobody else whose order could be disturbed.
LEMMA OnlyOneOrdered ==
    ASSUME OneRequest, TypeOK, NEW r \in Requests, NEW y,
           req' = [req EXCEPT ![r] = y],
           OrderedRequest(y, purchase'.currentStep)
    PROVE  StepsOrdered'
<1>1. \A q \in Requests : q = r
  BY DEF OneRequest
<1>2. req'[r] = y
  BY DEF TypeOK
<1>3. QED
  BY <1>1, <1>2 DEF StepsOrdered

\* After its next write, if that did not move the purchase, a request has
\* the same order to keep.
LEMMA AnsweredOrdered ==
    ASSUME NEW x \in Request, NEW step, x.todo # << >>, OrderedRequest(x, step),
           NEW y, y.op = x.op, y.turn = x.turn, y.seen = x.seen,
           y.todo = Tail(x.todo)
    PROVE  OrderedRequest(y, step)
<1>1. /\ Len(y.todo) = Len(x.todo) - 1
      /\ \A i \in 1..Len(y.todo) : y.todo[i] = x.todo[i + 1]
      /\ Len(x.todo) \in Nat
  BY HeadTailProperties DEF Request
<1>2. ASSUME NEW i \in 1..Len(y.todo), MovesStep(y.todo[i])
      PROVE  /\ i = Len(y.todo)
             /\ StepNumber[y.todo[i].step] = StepNumber[step] + 1
  <2>1. i + 1 \in 1..Len(x.todo) /\ y.todo[i] = x.todo[i + 1]
    BY <1>1
  <2>2. i + 1 = Len(x.todo) /\ StepNumber[x.todo[i + 1].step] = StepNumber[step] + 1
    BY <1>2, <2>1 DEF OrderedRequest
  <2>3. QED
    BY <1>1, <2>1, <2>2
<1>3. QED
  BY <1>2 DEF OrderedRequest

\* The lists of the creator and the buyer.
LEMMA RunsOrdered ==
    ASSUME OneRequest, TypeOK, NEW r \in Requests,
           RunsStill(r) \/ RunsAndMoves(r)
    PROVE  StepsOrdered'
<1>1. ASSUME NEW op \in Endpoints \ ApprovalOps, NEW w, Runs(r, op, w),
             \A i \in 1..Len(w) :
                MovesStep(w[i])
                => /\ i = Len(w)
                   /\ StepNumber[w[i].step] = StepNumber[purchase.currentStep] + 1
      PROVE  StepsOrdered'
  <2>1. Planned(op, w).op = op /\ Planned(op, w).todo = w
    BY DEF Planned, Idle
  <2>2. OrderedRequest(Planned(op, w), purchase.currentStep)
    BY <1>1, <2>1 DEF OrderedRequest, ApprovalOps
  <2>3. QED
    BY <1>1, <2>2, OnlyOneOrdered DEF Runs
<1>2. \A w \in Seq(Still) : \A i \in 1..Len(w) : ~MovesStep(w[i])
  BY ElementOfSeq DEF Still, MovesStep
<1>3. CASE RunsStill(r)
  BY <1>1, <1>2, <1>3 DEF RunsStill
<1>4. CASE RunsAndMoves(r)
  <2>1. PICK op \in Endpoints \ ApprovalOps, w \in Seq(Still),
                 move \in Plain :
            StepMove(move) /\ Runs(r, op, w \o << move >>)
    BY <1>4 DEF RunsAndMoves
  <2> DEFINE v == w \o << move >>
  <2>2. /\ w \in Seq(Plain) /\ << move >> \in Seq(Plain)
        /\ Len(<< move >>) = 1 /\ << move >>[1] = move
    BY <2>1, PlainLists DEF StepMove
  <2>3. /\ Len(v) = Len(w) + 1 /\ Len(w) \in Nat
        /\ \A i \in 1..Len(w) : v[i] = w[i]
        /\ v[Len(w) + 1] = move
    <3>1. Len(w) \in Nat
      BY <2>2
    <3>2. \A i \in 1..(Len(w) + 1) : v[i] = IF i <= Len(w) THEN w[i]
                                             ELSE << move >>[i - Len(w)]
      BY <2>2, ConcatProperties
    <3>3. Len(v) = Len(w) + 1
      BY <2>2, ConcatProperties
    <3> HIDE DEF v
    <3>4. \A i \in 1..Len(w) : i \in 1..(Len(w) + 1) /\ i <= Len(w)
      BY <3>1
    <3>5. /\ Len(w) + 1 \in 1..(Len(w) + 1) /\ ~(Len(w) + 1 <= Len(w))
          /\ (Len(w) + 1) - Len(w) = 1
      BY <3>1
    <3>6. \A i \in 1..Len(w) : v[i] = w[i]
      BY <3>2, <3>4
    <3>7. v[Len(w) + 1] = move
      BY <2>2, <3>2, <3>5
    <3>8. QED
      BY <3>1, <3>3, <3>6, <3>7
  <2> HIDE DEF v
  <2>4. ASSUME NEW i \in 1..Len(v), MovesStep(v[i])
        PROVE  /\ i = Len(v)
               /\ StepNumber[v[i].step] = StepNumber[purchase.currentStep] + 1
    <3>1. i \in 1..Len(w) \/ i = Len(w) + 1
      BY <2>3
    <3>2. i \notin 1..Len(w)
      BY <1>2, <2>3, <2>4
    <3>3. v[i] = move /\ i = Len(v)
      BY <2>3, <3>1, <3>2
    <3>4. QED
      BY <2>1, <3>3 DEF StepMove
  <2>5. Runs(r, op, v)
    BY <2>1 DEF v
  <2>6. QED
    BY <1>1, <2>4, <2>5
<1>5. QED
  BY <1>3, <1>4

LEMMA ApprovalOrdered ==
    ASSUME OneRequest, TypeOK, StepsOrdered, NEW r \in Requests, ApprovalNext(r)
    PROVE  StepsOrdered'
<1> DEFINE step == purchase.currentStep
<1>1. /\ req \in [Requests -> Request] /\ req[r] \in Request
      /\ req[r].turn \in Turn /\ req[r].seen \in Snapshot
  BY DEF TypeOK, Request
<1>2. OrderedRequest(req[r], step)
  BY DEF StepsOrdered
<1>3. UNCHANGED purchase
  BY DEF ApprovalNext, ValidateAuthFirst, ValidateLoadFirst, ValidateLoad,
         ValidateAuth, RefuseAuth, RefuseLoad, RefuseTurn
<1>4. ASSUME NEW y, OrderedRequest(y, step), req' = [req EXCEPT ![r] = y]
      PROVE  StepsOrdered'
  BY <1>3, <1>4, OnlyOneOrdered
<1>5. ASSUME NEW y, y.todo = << >>,
             y.op = "validate" /\ y.turn = NoTurn => y.seen.step = step
      PROVE  OrderedRequest(y, step)
  BY <1>5 DEF OrderedRequest
<1>6. CASE Throw(r)
  BY <1>4, <1>6, IdleOrdered DEF Throw
\* Both lists of a validation are made from a snapshot of the present step.
<1>7. ASSUME NEW turn \in Turn, NEW seen \in Snapshot, seen.step = step,
             NEW w \in ValidationWrites(turn, seen),
             req' = [req EXCEPT ![r] = Validating(seen, w)]
      PROVE  StepsOrdered'
  <2> DEFINE y == Validating(seen, w)
  <2>1. y.op = "validate" /\ y.seen = seen /\ y.todo = w
    BY DEF Validating, Planned, Idle
  <2>2. StepNumber[NextStepMap[step]] = StepNumber[step] + 1
    <3>1. step \in FlowSteps
      BY <1>7 DEF Snapshot
    <3>2. \A s \in FlowSteps : StepNumber[NextStepMap[s]] = StepNumber[s] + 1
      <4>1. /\ NextStepMap["DA"] = "QR" /\ NextStepMap["QR"] = "PV"
            /\ NextStepMap["PV"] = "BC" /\ NextStepMap["BC"] = "BR"
            /\ NextStepMap["DAP"] = "PROOF_OF_PAYMENT"
        BY DEF NextStepMap, Steps
      <4>2. /\ StepNumber["DA"] = 1 /\ StepNumber["QR"] = 2
            /\ StepNumber["PV"] = 3 /\ StepNumber["BC"] = 4
            /\ StepNumber["BR"] = 5 /\ StepNumber["DAP"] = 7
            /\ StepNumber["PROOF_OF_PAYMENT"] = 8
        BY DEF StepNumber, Steps
      <4>3. QED
        BY <4>1, <4>2 DEF FlowSteps
    <3>3. QED
      BY <3>1, <3>2
  <2> HIDE DEF y, step
  <2>3. \A i \in 1..Len(w) :
            MovesStep(w[i]) => i = Len(w) /\ StepNumber[w[i].step] = StepNumber[step] + 1
    BY <1>7, <2>2, ValidationLists
  <2>4. OrderedRequest(y, step)
    BY <1>7, <2>1, <2>3 DEF OrderedRequest
  <2>5. QED
    BY <1>4, <1>7, <2>4 DEF y
<1>8. AwaitsValidation => LoadedSnapshot \in Snapshot /\ LoadedSnapshot.step = step
  BY SnapshotType DEF LoadedSnapshot
<1>9. CASE ValidateAuthFirst(r)
  <2>1. PICK turn \in AuthorisedTurns :
            req' = [req EXCEPT ![r].op = "validate", ![r].turn = turn]
    BY <1>9 DEF ValidateAuthFirst
  <2> DEFINE y == [req[r] EXCEPT !.op = "validate", !.turn = turn]
  <2>2. req' = [req EXCEPT ![r] = y] /\ req[r] = Idle
    BY <1>1, <1>9, <2>1 DEF ValidateAuthFirst, Starts
  <2>3. y.turn = turn /\ y.todo = << >>
    BY <1>1, <2>2 DEF Request, Idle
  <2>4. turn # NoTurn
    <3>1. turn.id # 0
      BY DEF AuthorisedTurns, TurnOf, IsLatest, Exists
    <3>2. QED
      BY <3>1 DEF NoTurn
  <2> HIDE DEF y
  <2>5. QED
    BY <1>4, <1>5, <2>2, <2>3, <2>4
<1>10. CASE ValidateLoadFirst(r)
  <2> DEFINE y == [req[r] EXCEPT !.op = "validate", !.seen = LoadedSnapshot]
  <2>1. /\ req' = [req EXCEPT ![r] = y] /\ req[r] = Idle
        /\ AwaitsValidation
    BY <1>1, <1>10 DEF ValidateLoadFirst, Starts
  <2>2. y.seen = LoadedSnapshot /\ y.todo = << >>
    BY <1>1, <2>1 DEF Request, Idle
  <2> HIDE DEF y
  <2>3. QED
    BY <1>4, <1>5, <1>8, <2>1, <2>2
<1>11. CASE ValidateLoad(r) /\ ~Throw(r)
  <2>1. PICK w \in ValidationWrites(req[r].turn, LoadedSnapshot) :
            /\ AwaitsValidation
            /\ req' = [req EXCEPT ![r] = Validating(LoadedSnapshot, w)]
    BY <1>11 DEF ValidateLoad
  <2>2. QED
    BY <1>1, <1>7, <1>8, <2>1
<1>12. CASE ValidateAuth(r) /\ ~Throw(r)
  <2>1. PICK turn \in AuthorisedTurns :
            \E w \in ValidationWrites(turn, req[r].seen) :
                req' = [req EXCEPT ![r] = Validating(req[r].seen, w)]
    BY <1>12 DEF ValidateAuth
  <2>2. turn \in Turn
    <3>1. PICK s \in FlowSteps : \E i \in Undecided(flows[s]) : turn = TurnOf(s, i)
      BY DEF AuthorisedTurns
    <3>2. QED
      BY <3>1, TurnsType
  <2>3. req[r].seen.step = step
    BY <1>2, <1>12 DEF OrderedRequest, ValidateAuth
  <2>4. QED
    BY <1>1, <1>7, <2>1, <2>2, <2>3
<1>13. CASE RefuseAuth(r)
  <2>1. PICK op \in {"reject", "requestChanges"}, turn \in AuthorisedTurns :
            /\ req[r] = Idle
            /\ req' = [req EXCEPT ![r].op = op, ![r].turn.role = turn.role]
    BY <1>13 DEF RefuseAuth, Starts
  <2> DEFINE y == [req[r] EXCEPT !.op = op, !.turn.role = turn.role]
  <2>2. req' = [req EXCEPT ![r] = y]
    BY <1>1, <2>1
  <2>3. y.todo = << >> /\ y.op = op
    BY <1>1, <2>1 DEF Request, Idle
  <2> HIDE DEF y
  <2>4. QED
    BY <1>4, <1>5, <2>1, <2>2, <2>3
<1>14. CASE RefuseLoad(r) /\ ~Throw(r)
  <2> DEFINE y == [req[r] EXCEPT !.seen = LoadedSnapshot]
  <2>1. /\ req' = [req EXCEPT ![r] = y] /\ req[r].op # "validate"
        /\ req[r].todo = << >>
    BY <1>1, <1>14 DEF RefuseLoad
  <2>2. y.todo = << >> /\ y.op = req[r].op
    BY <1>1, <2>1 DEF Request
  <2> HIDE DEF y
  <2>3. QED
    BY <1>4, <1>5, <2>1, <2>2
<1>15. CASE RefuseTurn(r) /\ ~Throw(r)
  <2> DEFINE s == req[r].seen.step
             decision == DecisionOf(req[r].op)
             list(i) == << Mark(s, flows[s].id, i, decision), Close(decision) >>
  <2>1. PICK i \in 1..Len(flows[s].validators) :
            req' = [req EXCEPT ![r] = Planned(req[r].op, list(i))]
    BY <1>15 DEF RefuseTurn
  <2> DEFINE y == Planned(req[r].op, list(i))
  <2>2. y.todo = list(i) /\ y.op # "validate"
    BY <1>15 DEF Planned, Idle, RefuseTurn
  <2>3. \A j \in 1..Len(list(i)) : ~MovesStep(list(i)[j])
    <3>1. /\ Len(list(i)) = 2
          /\ list(i)[1] = Mark(s, flows[s].id, i, decision)
          /\ list(i)[2] = Close(decision)
      OBVIOUS
    <3>2. /\ ~MovesStep(Mark(s, flows[s].id, i, decision))
          /\ ~MovesStep(Close(decision))
      BY DEF MovesStep, Mark, Close, Update
    <3> HIDE DEF list
    <3>3. QED
      BY <3>1, <3>2
  <2> HIDE DEF y, list
  <2>4. OrderedRequest(y, step)
    BY <2>2, <2>3 DEF OrderedRequest
  <2>5. QED
    BY <1>4, <2>1, <2>4 DEF y
<1>16. QED
  BY <1>6, <1>9, <1>10, <1>11, <1>12, <1>13, <1>14, <1>15 DEF ApprovalNext

LEMMA ContinueOrdered ==
    ASSUME OneRequest, TypeOK, StepsOrdered, NEW r \in Requests, Continue(r)
    PROVE  /\ StepsOrdered'
           /\ purchase'.currentStep # purchase.currentStep
                => StepNumber[purchase'.currentStep]
                        = StepNumber[purchase.currentStep] + 1
<1> DEFINE step == purchase.currentStep
           x == Head(req[r].todo)
           rest == [req[r] EXCEPT !.todo = Tail(req[r].todo)]
<1>1. /\ req \in [Requests -> Request] /\ req[r] \in Request
      /\ purchase \in Purchase
  BY DEF TypeOK
<1>2. OrderedRequest(req[r], step)
  BY DEF StepsOrdered
<1>3. req[r].todo # << >>
  BY DEF Continue, CheckPapers, UpdatePurchase, RemovePurchase, RemoveItems,
         InsertItems, RemoveFlows, InsertFlow, MarkValidator,
         ReadFlowToAdvance, WriteFlowAdvance, WritePapers, Awaits
<1>4. ASSUME NEW y, OrderedRequest(y, step), req' = [req EXCEPT ![r] = y],
             purchase'.currentStep = step
      PROVE  StepsOrdered'
  BY <1>4, OnlyOneOrdered
<1>5. OrderedRequest(rest, step)
  <2>1. /\ rest.op = req[r].op /\ rest.turn = req[r].turn
        /\ rest.seen = req[r].seen /\ rest.todo = Tail(req[r].todo)
    BY <1>1 DEF Request
  <2> HIDE DEF rest
  <2>2. QED
    BY <1>1, <1>2, <1>3, <2>1, AnsweredOrdered
<1>6. ASSUME Throw(r) \/ Done(r), purchase'.currentStep = step
      PROVE  StepsOrdered'
  BY <1>4, <1>5, <1>6, IdleOrdered DEF Throw, Done
<1>7. CASE UpdatePurchase(r)
  <2>1. x \in Write /\ x.do = "update"
    BY <1>7, NextWriteType DEF UpdatePurchase
  <2>2. CASE ~purchase.exists
    BY <1>6, <1>7, <2>2 DEF UpdatePurchase
  <2>3. CASE purchase.exists /\ x.step = Keep
    <3>1. purchase'.currentStep = step /\ Done(r)
      BY <1>1, <1>7, <2>3 DEF UpdatePurchase, Patch, Purchase
    <3>2. QED
      BY <1>6, <3>1
  <2>4. CASE purchase.exists /\ x.step # Keep
    <3>1. purchase'.currentStep = x.step /\ Done(r)
      BY <1>1, <1>7, <2>4 DEF UpdatePurchase, Patch, Purchase
    <3>2. req[r].todo \in Seq(Write)
      BY <1>1 DEF Request
    <3>3. 1 \in 1..Len(req[r].todo) /\ req[r].todo[1] = x
      BY <1>3, <3>2
    <3>4. Len(req[r].todo) = 1 /\ StepNumber[x.step] = StepNumber[step] + 1
      BY <1>2, <2>1, <2>4, <3>3 DEF OrderedRequest, MovesStep
    <3>5. Tail(req[r].todo) = << >>
      <4>1. Tail(req[r].todo) \in Seq(Write) /\ Len(Tail(req[r].todo)) = 0
        BY <1>3, <3>2, <3>4, HeadTailProperties
      <4>2. QED
        BY <4>1, EmptySeq
    <3>6. req' = [req EXCEPT ![r] = Idle]
      BY <3>1, <3>5 DEF Done
    <3>7. StepsOrdered'
      BY <3>6, IdleOrdered, OnlyOneOrdered
    <3>8. QED
      BY <3>1, <3>4, <3>7
  <2>5. QED
    BY <2>2, <2>3, <2>4
<1>8. CASE ReadFlowToAdvance(r) /\ ~Throw(r)
  <2> DEFINE all == Complete(flows[x.step])
             y == [req[r] EXCEPT !.allSigned = all, !.todo = Tail(req[r].todo)]
  <2>1. req' = [req EXCEPT ![r] = y] /\ UNCHANGED purchase
    BY <1>1, <1>8 DEF ReadFlowToAdvance
  <2>2. /\ y.op = req[r].op /\ y.turn = req[r].turn
        /\ y.seen = req[r].seen /\ y.todo = Tail(req[r].todo)
    BY <1>1 DEF Request
  <2> HIDE DEF y
  <2>3. OrderedRequest(y, step)
    BY <1>1, <1>2, <1>3, <2>2, AnsweredOrdered
  <2>4. QED
    BY <1>4, <2>1, <2>3
<1>9. CASE ReadFlowToAdvance(r) /\ Throw(r)
  BY <1>6, <1>9 DEF ReadFlowToAdvance
<1>10. CASE CheckPapers(r) \/ RemovePurchase(r) \/ RemoveItems(r)
            \/ InsertItems(r) \/ RemoveFlows(r) \/ InsertFlow(r)
            \/ MarkValidator(r) \/ WriteFlowAdvance(r) \/ WritePapers(r)
  <2>1. Throw(r) \/ Done(r)
    BY <1>10 DEF CheckPapers, RemovePurchase, RemoveItems, InsertItems,
                 RemoveFlows, InsertFlow, MarkValidator, WriteFlowAdvance, WritePapers
  <2>2. purchase'.currentStep = step
    BY <1>1, <1>10
       DEF CheckPapers, RemovePurchase, RemoveItems, InsertItems, RemoveFlows,
           InsertFlow, MarkValidator, WriteFlowAdvance, WritePapers, Purchase
  <2>3. QED
    BY <1>6, <2>1, <2>2
<1>11. QED
  BY <1>7, <1>8, <1>9, <1>10 DEF Continue

LEMMA StepOrdered ==
    ASSUME OneRequest, TypeOK, StepsOrdered, [Next]_vars
    PROVE  /\ StepsOrdered'
           /\ purchase'.currentStep # purchase.currentStep
                => StepNumber[purchase'.currentStep]
                        = StepNumber[purchase.currentStep] + 1
<1>1. CASE UNCHANGED vars
  BY <1>1 DEF vars, StepsOrdered
<1>2. CASE \E r \in Requests : ApprovalNext(r)
  <2>1. PICK r \in Requests : ApprovalNext(r)
    BY <1>2
  <2>2. UNCHANGED purchase
    BY <2>1 DEF ApprovalNext, ValidateAuthFirst, ValidateLoadFirst,
                ValidateLoad, ValidateAuth, RefuseAuth, RefuseLoad, RefuseTurn
  <2>3. QED
    BY <2>1, <2>2, ApprovalOrdered
<1>3. CASE \E r \in Requests : RunsStill(r) \/ RunsAndMoves(r)
  <2>1. PICK r \in Requests : RunsStill(r) \/ RunsAndMoves(r)
    BY <1>3
  <2>2. UNCHANGED purchase
    BY <2>1 DEF RunsStill, RunsAndMoves, Runs
  <2>3. QED
    BY <2>1, <2>2, RunsOrdered
<1>4. CASE \E r \in Requests : Continue(r)
  BY <1>4, ContinueOrdered
<1>5. CASE \E r \in Requests : Fail(r)
  <2>1. PICK r \in Requests : Fail(r)
    BY <1>5
  <2>2. UNCHANGED purchase /\ req' = [req EXCEPT ![r] = Idle]
    BY <2>1 DEF Fail, Throw
  <2>3. QED
    BY <2>2, IdleOrdered, OnlyOneOrdered
<1>6. QED
  BY <1>1, <1>2, <1>3, <1>4, <1>5, InertIsStill, AuthoringRuns,
     SourcingRuns, DocumentsRuns
     DEF Next

\* While one request runs at a time no handler skips a step or goes back to
\* an earlier one, whatever it fails at.
THEOREM StepsNeverSkip ==
    ASSUME OneRequest
    PROVE  Spec => StepsInOrder
<1> DEFINE ToTheNext ==
        purchase'.currentStep # purchase.currentStep
        => StepNumber[purchase'.currentStep] = StepNumber[purchase.currentStep] + 1
<1>1. Init => StepsOrdered
  BY IdleOrdered DEF Init, StepsOrdered
<1>2. TypeOK /\ StepsOrdered /\ [Next]_vars => StepsOrdered' /\ [ToTheNext]_vars
  BY StepOrdered
<1>3. QED
  BY <1>1, <1>2, TypeCorrect, PTL DEF Spec, StepsInOrder

-----------------------------------------------------------------------------
(* What a refusal, a draft and an end leave behind.                        *)

\* A purchase in hand: not a draft, not refused, not done.
Refusals == {"REJECTED", "CHANGE_REQUESTED"}

Active(p) ==
    /\ p.status \notin Refusals \cup {"DRAFT"}
    /\ p.currentStep # "DONE"
    /\ ~p.closed

Has(f, s) == f[s].id # 0

\* What holds between two requests: closedAt goes with the refusals and the
\* last step; a refused purchase is at a step whose workflow stands, the one
\* that refused it; a draft is at a step with signatures, its first workflow
\* not there.
Settled(p, f) ==
    /\ p.closed <=> (p.status \in Refusals \/ p.currentStep = "DONE")
    /\ p.status \in Refusals => p.currentStep \in FlowSteps /\ Has(f, p.currentStep)
    /\ p.status = "DRAFT" => p.currentStep \in FlowSteps /\ ~Has(f, "DA")
    /\ p.currentStep = "DONE" => p.status = "VALIDATED"

\* Kinds of writes.  Calm ones leave a purchase in hand, or done.
Calm(w) ==
    /\ w.do # "deletePurchase"
    /\ w.do = "update" =>
        /\ w.status \notin Refusals \cup {"DRAFT"}
        /\ \/ w.step # "DONE" /\ w.closed = Keep
           \/ w.step = "DONE" /\ w.status = "VALIDATED" /\ w.closed = "set"

OnPapers(w) == w.do \in PaperWrites \cup {"require"}
OnItems(w) == w.do \in {"deleteItems", "createItems"}
OnFields(w) ==
    w.do = "update" /\ w.step = Keep /\ w.status = Keep /\ w.closed = Keep
Refuses(w) ==
    /\ w.do = "update" /\ w.step = Keep
    /\ w.status \in Refusals /\ w.closed = "set"
SetsStatus(w, status) ==
    w.do = "update" /\ w.step = Keep /\ w.status = status /\ w.closed = Keep
Reopens(w) ==
    w.do = "update" /\ w.step = Keep /\ w.status = Keep /\ w.closed = "clear"
ToDraft(w) ==
    w.do = "update" /\ w.step = Keep /\ w.status = "DRAFT" /\ w.closed = "clear"
DropsFlows(w) == w.do = "deleteFlows" /\ w.steps = FlowSteps
OpensFlow(w, step) == w.do = "createFlow" /\ w.step = step

\* Where a request can be, by the kind of its list.
Looking(x, p, f) ==
    /\ x.todo = << >>
    /\ Settled(p, f)
    /\ x.op = "validate" /\ x.turn = NoTurn => Active(p)
    /\ x.op \in {"reject", "requestChanges"} /\ x.seen # NotLoaded =>
        Active(p) /\ x.seen.step = p.currentStep /\ Has(f, p.currentStep)

Proceeding(x, p) ==
    /\ Active(p)
    /\ x.op \notin {"reject", "requestChanges"}
    /\ \A i \in 1..Len(x.todo) : Calm(x.todo[i])

Refusing(x, p, f) ==
    LET n == Len(x.todo)
    IN  /\ Active(p) /\ p.currentStep \in FlowSteps /\ Has(f, p.currentStep)
        /\ n \in 1..2
        /\ Refuses(x.todo[n])
        /\ n = 2 => x.todo[1].do = "mark"

Adjusting(x, p, f) ==
    /\ Settled(p, f)
    /\ x.op \notin ApprovalOps
    /\ \A i \in 1..Len(x.todo) :
        \/ OnPapers(x.todo[i])
        \/ (OnItems(x.todo[i]) \/ OnFields(x.todo[i])) /\ p.status # "REJECTED"

Publishing(x, p, f) ==
    LET n == Len(x.todo)
    IN  /\ p.exists /\ p.currentStep \in FlowSteps
        /\ n \in 1..4
        /\ SetsStatus(x.todo[n], "PUBLISHED")
        /\ n >= 2 => OpensFlow(x.todo[n - 1], "DA")
        /\ n >= 3 => Reopens(x.todo[n - 2])
        /\ n = 4 => DropsFlows(x.todo[1])
        /\ n >= 3 => p.status = "CHANGE_REQUESTED"
        /\ n \in 2..3 => ~Has(f, "DA")
        /\ n <= 2 => p.status \in {"CHANGE_REQUESTED", "DRAFT"} /\ ~p.closed

Revising(x, p) ==
    LET n == Len(x.todo)
    IN  /\ p.exists /\ p.currentStep \in FlowSteps
        /\ n >= 1
        /\ DropsFlows(x.todo[n])
        /\ \/ /\ p.status = "CHANGE_REQUESTED"
              /\ n >= 2 /\ ToDraft(x.todo[1])
              /\ \A i \in 2..(n - 1) : OnItems(x.todo[i])
           \/ /\ p.status = "DRAFT" /\ ~p.closed
              /\ \A i \in 1..(n - 1) : OnItems(x.todo[i])

Deleting(x, p, f) ==
    /\ Settled(p, f) /\ p.status = "DRAFT"
    /\ Len(x.todo) = 1 /\ x.todo[1].do = "deletePurchase"

Submitting(x, p, f) ==
    LET n == Len(x.todo)
    IN  /\ Settled(p, f)
        /\ p.currentStep \in {"PV", "BC", "DAP"}
        /\ n \in 1..3
        /\ SetsStatus(x.todo[n], "PENDING_APPROVAL")
        /\ n >= 2 => OpensFlow(x.todo[n - 1], p.currentStep)
        /\ n = 3 => OnPapers(x.todo[1])
        /\ n = 1 => p.status \notin Refusals

Orderly(x, p, f) ==
    /\ x.op = "validate" /\ x.turn = NoTurn => x.seen.status \in OpenStatuses
    /\ \/ Looking(x, p, f)
       \/ Proceeding(x, p)
       \/ Refusing(x, p, f)
       \/ Adjusting(x, p, f)
       \/ Publishing(x, p, f)
       \/ Revising(x, p)
       \/ Deleting(x, p, f)
       \/ Submitting(x, p, f)

AllOrderly == \A r \in Requests : Orderly(req[r], purchase, flows)

\* The same standing: nothing that Settled looks at has changed.
SameStanding(p, q) ==
    /\ q.exists = p.exists /\ q.status = p.status
    /\ q.currentStep = p.currentStep /\ q.closed = p.closed

SameFlows(f, g) == \A s \in FlowSteps : g[s].id = f[s].id

\* The request is over, or has one write less to do.
Over(r) == req' = [req EXCEPT ![r] = Idle]

Goes(x, y) ==
    /\ y.op = x.op /\ y.turn = x.turn /\ y.seen = x.seen
    /\ x.todo # << >> /\ y.todo = Tail(x.todo)

HasLess(r) == \E y : Goes(req[r], y) /\ req' = [req EXCEPT ![r] = y]

GoesOn(r) == IF Len(req[r].todo) = 1 THEN Over(r) ELSE HasLess(r)

LEMMA DoneGoesOn ==
    ASSUME TypeOK, NEW r \in Requests, req[r].todo # << >>, Done(r)
    PROVE  GoesOn(r)
<1> DEFINE y == [req[r] EXCEPT !.todo = Tail(req[r].todo)]
<1>1. req[r] \in Request /\ req[r].todo \in Seq(Write)
  BY DEF TypeOK, Request
<1>2. Goes(req[r], y)
  BY <1>1 DEF Goes, Request
<1>3. CASE Tail(req[r].todo) = << >>
  <2>1. Len(req[r].todo) = 1
    <3>1. /\ Len(Tail(req[r].todo)) = Len(req[r].todo) - 1
          /\ Len(req[r].todo) \in Nat
      BY <1>1, HeadTailProperties
    <3>2. Len(Tail(req[r].todo)) = 0
      BY <1>3, EmptySeq
    <3>3. QED
      BY <3>1, <3>2
  <2>2. QED
    BY <1>3, <2>1 DEF Done, GoesOn, Over
<1>4. CASE Tail(req[r].todo) # << >>
  <2>1. req' = [req EXCEPT ![r] = y]
    BY <1>4 DEF Done
  <2>2. Len(req[r].todo) # 1
    <3>1. Tail(req[r].todo) \in Seq(Write) /\ Len(Tail(req[r].todo)) # 0
      BY <1>1, <1>4, EmptySeq, HeadTailProperties
    <3>2. Len(Tail(req[r].todo)) = Len(req[r].todo) - 1
      BY <1>1, HeadTailProperties
    <3>3. QED
      BY <3>1, <3>2
  <2> HIDE DEF y
  <2>3. QED
    BY <1>2, <2>1, <2>2 DEF GoesOn, HasLess
<1>5. QED
  BY <1>3, <1>4

\* What one write does, by its kind: to the standing of the purchase, to the
\* workflows and to the request.
LEMMA WriteEffects ==
    ASSUME TypeOK, NEW r \in Requests, Continue(r)
    PROVE  LET w == Head(req[r].todo)
               p == purchase
               q == purchase'
           IN  /\ req[r].todo # << >>
               /\ Over(r) \/ HasLess(r)
               /\ w.do # "readFlow" => Over(r) \/ GoesOn(r)
               /\ w.do = "update" =>
                    \/ ~p.exists /\ Over(r) /\ q = p /\ flows' = flows
                    \/ /\ p.exists /\ GoesOn(r)
                       /\ flows' = flows
                       /\ q.exists = p.exists
                       /\ q.currentStep = Patch(p.currentStep, w.step)
                       /\ q.status = Patch(p.status, w.status)
                       /\ q.closed = IF w.closed = Keep THEN p.closed
                                                        ELSE w.closed = "set"
               /\ w.do = "deletePurchase" =>
                    \/ ~p.exists /\ Over(r) /\ q = p /\ flows' = flows
                    \/ /\ p.exists /\ GoesOn(r)
                       /\ q.status = p.status /\ q.currentStep = p.currentStep
                       /\ q.closed = p.closed
                       /\ \A s \in FlowSteps : ~Has(flows', s)
               /\ w.do = "createFlow" =>
                    /\ q = p
                    /\ \/ ~(p.exists /\ ~Exists(w.step)) /\ Over(r) /\ flows' = flows
                       \/ /\ p.exists /\ ~Exists(w.step) /\ GoesOn(r)
                          /\ \A s \in FlowSteps : s # w.step => flows'[s] = flows[s]
               /\ w.do = "deleteFlows" =>
                    /\ q = p /\ GoesOn(r)
                    /\ \A s \in FlowSteps : s \in w.steps => ~Has(flows', s)
               /\ w.do \notin {"update", "deletePurchase"} => SameStanding(p, q)
               /\ w.do \notin {"deletePurchase", "createFlow", "deleteFlows"}
                    => SameFlows(flows, flows')
               /\ OnPapers(w) => q = p /\ flows' = flows
               /\ OnItems(w) =>
                    /\ flows' = flows
                    /\ p.exists => GoesOn(r)
<1> DEFINE w == Head(req[r].todo)
<1>1. /\ flows \in FlowTable /\ purchase \in Purchase
      /\ req \in [Requests -> Request] /\ req[r] \in Request
  BY DEF TypeOK, FlowTable
<1>2. req[r].todo # << >> /\ w \in Write
  <2>1. req[r].todo # << >>
    BY DEF Continue, CheckPapers, UpdatePurchase, RemovePurchase, RemoveItems,
           InsertItems, RemoveFlows, InsertFlow, MarkValidator,
           ReadFlowToAdvance, WriteFlowAdvance, WritePapers, Awaits
  <2>2. req[r].todo \in Seq(Write)
    BY <1>1 DEF Request
  <2>3. QED
    BY <2>1, <2>2
<1>3. Done(r) => GoesOn(r) /\ (Over(r) \/ HasLess(r))
  BY <1>2, DoneGoesOn DEF GoesOn
<1>4. Throw(r) => Over(r)
  BY DEF Throw, Over
<1>5. UNCHANGED purchase => SameStanding(purchase, purchase')
  BY DEF SameStanding
<1>6. UNCHANGED flows => SameFlows(flows, flows')
  BY DEF SameFlows
<1>7. CASE CheckPapers(r)
  BY <1>2, <1>3, <1>4, <1>5, <1>6, <1>7 DEF CheckPapers, Awaits, OnPapers, OnItems
<1>8. CASE UpdatePurchase(r)
  <2>1. w.do = "update" /\ UNCHANGED flows
    BY <1>8 DEF UpdatePurchase, Awaits
  <2>2. CASE ~purchase.exists
    BY <1>2, <1>4, <1>6, <1>8, <2>1, <2>2 DEF UpdatePurchase, OnPapers, OnItems, PaperWrites
  <2>3. CASE purchase.exists
    <3>1. /\ Done(r)
          /\ purchase'.exists = purchase.exists
          /\ purchase'.currentStep = Patch(purchase.currentStep, w.step)
          /\ purchase'.status = Patch(purchase.status, w.status)
          /\ purchase'.closed = IF w.closed = Keep THEN purchase.closed
                                                   ELSE w.closed = "set"
      BY <1>1, <1>8, <2>3 DEF UpdatePurchase, Purchase
    <3>2. QED
      BY <1>2, <1>3, <1>6, <2>1, <2>3, <3>1 DEF OnPapers, OnItems, PaperWrites
  <2>4. QED
    BY <2>2, <2>3
<1>9. CASE RemovePurchase(r)
  <2>1. w.do = "deletePurchase"
    BY <1>9 DEF RemovePurchase, Awaits
  <2>2. CASE ~purchase.exists
    BY <1>2, <1>4, <1>9, <2>1, <2>2 DEF RemovePurchase, OnPapers, OnItems, PaperWrites
  <2>3. CASE purchase.exists
    <3>1. /\ Done(r)
          /\ purchase'.currentStep = purchase.currentStep
          /\ purchase'.status = purchase.status
          /\ purchase'.closed = purchase.closed
      BY <1>1, <1>9, <2>3 DEF RemovePurchase, Purchase
    <3>2. \A s \in FlowSteps : ~Has(flows', s)
      BY <1>9, <2>3 DEF RemovePurchase, Has, NoFlow
    <3>3. QED
      BY <1>2, <1>3, <2>1, <2>3, <3>1, <3>2 DEF OnPapers, OnItems, PaperWrites
  <2>4. QED
    BY <2>2, <2>3
<1>10. CASE RemoveItems(r)
  <2>1. w.do = "deleteItems" /\ Done(r) /\ UNCHANGED flows
    BY <1>10 DEF RemoveItems, Awaits
  <2>2. SameStanding(purchase, purchase')
    BY <1>1, <1>10 DEF RemoveItems, SameStanding, Purchase
  <2>3. QED
    BY <1>2, <1>3, <1>6, <2>1, <2>2 DEF OnPapers, OnItems, PaperWrites
<1>11. CASE InsertItems(r)
  <2>1. w.do = "createItems" /\ UNCHANGED flows
    BY <1>11 DEF InsertItems, Awaits
  <2>2. SameStanding(purchase, purchase')
    BY <1>1, <1>11 DEF InsertItems, SameStanding, Purchase
  <2>3. (purchase.exists => Done(r)) /\ (Done(r) \/ Throw(r))
    BY <1>11 DEF InsertItems
  <2>4. QED
    BY <1>2, <1>3, <1>4, <1>6, <2>1, <2>2, <2>3 DEF OnPapers, OnItems, PaperWrites
<1>12. CASE RemoveFlows(r)
  <2>1. w.do = "deleteFlows" /\ Done(r) /\ UNCHANGED purchase
    BY <1>12 DEF RemoveFlows, Awaits
  <2>2. \A s \in FlowSteps : s \in w.steps => ~Has(flows', s)
    BY <1>12 DEF RemoveFlows, Has, NoFlow
  <2>3. QED
    BY <1>2, <1>3, <1>5, <2>1, <2>2 DEF OnPapers, OnItems, PaperWrites
<1>13. CASE InsertFlow(r)
  <2>1. w.do = "createFlow" /\ UNCHANGED purchase
    BY <1>13 DEF InsertFlow, Awaits
  <2>2. CASE purchase.exists /\ ~Exists(w.step)
    <3>1. Done(r) /\ \A s \in FlowSteps : s # w.step => flows'[s] = flows[s]
      BY <1>1, <1>13, <2>2 DEF InsertFlow, FlowTable
    <3>2. QED
      BY <1>2, <1>3, <1>5, <2>1, <2>2, <3>1 DEF OnPapers, OnItems, PaperWrites
  <2>3. CASE ~(purchase.exists /\ ~Exists(w.step))
    <3>1. Throw(r) /\ UNCHANGED flows
      BY <1>13, <2>3 DEF InsertFlow
    <3>2. QED
      BY <1>2, <1>4, <1>5, <2>1, <2>3, <3>1 DEF OnPapers, OnItems, PaperWrites
  <2>4. QED
    BY <2>2, <2>3
<1>14. CASE MarkValidator(r)
  <2>1. w.do = "mark" /\ UNCHANGED purchase /\ (Done(r) \/ Throw(r))
    BY <1>14 DEF MarkValidator, Awaits
  <2>2. w.step \in FlowSteps
    BY <1>2, <2>1, WriteFields
  <2>3. SameFlows(flows, flows')
    <3>1. CASE UNCHANGED flows
      BY <1>6, <3>1
    <3>2. CASE ~UNCHANGED flows
      <4>1. flows' = [flows EXCEPT
                        ![w.step].validators[w.order].decision = w.decision]
        BY <1>14, <3>2 DEF MarkValidator
      <4>2. QED
        BY <1>1, <2>2, <4>1 DEF FlowTable, Workflow, SameFlows
    <3>3. QED
      BY <3>1, <3>2
  <2>4. QED
    BY <1>2, <1>3, <1>4, <1>5, <2>1, <2>3 DEF OnPapers, OnItems, PaperWrites
<1>15. CASE ReadFlowToAdvance(r)
  <2>1. w.do = "readFlow" /\ UNCHANGED << purchase, flows >>
    BY <1>15 DEF ReadFlowToAdvance, Awaits
  <2>2. ASSUME ~Throw(r)
        PROVE  HasLess(r)
    <3> DEFINE y == [req[r] EXCEPT !.allSigned = Complete(flows[w.step]),
                                   !.todo = Tail(req[r].todo)]
    <3>1. req' = [req EXCEPT ![r] = y]
      BY <1>1, <1>15, <2>2 DEF ReadFlowToAdvance
    <3>2. Goes(req[r], y)
      BY <1>1, <1>2 DEF Goes, Request
    <3> HIDE DEF y
    <3>3. QED
      BY <3>1, <3>2 DEF HasLess
  <2>3. QED
    BY <1>2, <1>4, <1>5, <1>6, <2>1, <2>2 DEF OnPapers, OnItems, PaperWrites
<1>16. CASE WriteFlowAdvance(r)
  <2>1. w.do = "advanceFlow" /\ UNCHANGED purchase /\ (Done(r) \/ Throw(r))
    BY <1>16 DEF WriteFlowAdvance, Awaits
  <2>2. w.step \in FlowSteps
    BY <1>2, <2>1, WriteFields
  <2>3. SameFlows(flows, flows')
    <3>1. CASE UNCHANGED flows
      BY <1>6, <3>1
    <3>2. CASE ~UNCHANGED flows
      <4>1. flows' = [flows EXCEPT ![w.step].isComplete = req[r].allSigned]
        BY <1>16, <3>2 DEF WriteFlowAdvance
      <4>2. QED
        BY <1>1, <2>2, <4>1 DEF FlowTable, Workflow, SameFlows
    <3>3. QED
      BY <3>1, <3>2
  <2>4. QED
    BY <1>2, <1>3, <1>4, <1>5, <2>1, <2>3 DEF OnPapers, OnItems, PaperWrites
<1>17. CASE WritePapers(r)
  <2>1. w.do \in PaperWrites /\ UNCHANGED << purchase, flows >> /\ (Done(r) \/ Throw(r))
    BY <1>17 DEF WritePapers, Awaits
  <2>2. QED
    BY <1>2, <1>3, <1>4, <1>5, <1>6, <2>1 DEF OnPapers, OnItems, PaperWrites
<1>18. QED
  BY <1>7, <1>8, <1>9, <1>10, <1>11, <1>12, <1>13, <1>14, <1>15, <1>16, <1>17
     DEF Continue

-----------------------------------------------------------------------------
LEMMA OnlyOneOrderly ==
    ASSUME OneRequest, TypeOK, NEW r \in Requests, NEW y,
           req' = [req EXCEPT ![r] = y], Orderly(y, purchase', flows')
    PROVE  AllOrderly'
<1>1. \A q \in Requests : q = r
  BY DEF OneRequest
<1>2. req'[r] = y
  BY DEF TypeOK
<1>3. QED
  BY <1>1, <1>2 DEF AllOrderly

LEMMA ActiveSettled ==
    ASSUME NEW p, NEW f, Active(p)
    PROVE  Settled(p, f)
  BY DEF Active, Settled

LEMMA SameSettled ==
    ASSUME NEW p, NEW f, Settled(p, f), NEW q, NEW g,
           SameStanding(p, q), SameFlows(f, g)
    PROVE  Settled(q, g)
<1>1. "DA" \in FlowSteps
  BY DEF FlowSteps
<1>2. QED
  BY <1>1 DEF Settled, SameStanding, SameFlows, Has

\* Between requests, that is all there is to say.
LEMMA OverOrderly ==
    ASSUME OneRequest, TypeOK, NEW r \in Requests, Over(r),
           Settled(purchase', flows')
    PROVE  AllOrderly'
<1>1. Idle.todo = << >> /\ Idle.op = "idle"
  BY DEF Idle
<1>2. Orderly(Idle, purchase', flows')
  BY <1>1 DEF Orderly, Looking
<1>3. QED
  BY <1>2, OnlyOneOrderly DEF Over

LEMMA LessToDo ==
    ASSUME NEW x \in Request, x.todo # << >>
    PROVE  /\ Len(x.todo) \in Nat \ {0}
           /\ Head(x.todo) = x.todo[1] /\ 1 \in 1..Len(x.todo)
           /\ \A y : Goes(x, y) =>
                /\ Len(y.todo) = Len(x.todo) - 1
                /\ \A i \in 1..Len(y.todo) : /\ y.todo[i] = x.todo[i + 1]
                                             /\ i + 1 \in 1..Len(x.todo)
<1>1. x.todo \in Seq(Write)
  BY DEF Request
<1>2. Len(x.todo) \in Nat \ {0} /\ Head(x.todo) = x.todo[1]
  BY <1>1, EmptySeq
<1>3. ASSUME NEW y, Goes(x, y)
      PROVE  /\ Len(y.todo) = Len(x.todo) - 1
             /\ \A i \in 1..Len(y.todo) : /\ y.todo[i] = x.todo[i + 1]
                                          /\ i + 1 \in 1..Len(x.todo)
  <2>1. y.todo = Tail(x.todo)
    BY <1>3 DEF Goes
  <2>2. /\ Len(Tail(x.todo)) = Len(x.todo) - 1
        /\ \A i \in 1..Len(Tail(x.todo)) : Tail(x.todo)[i] = x.todo[i + 1]
    BY <1>1, HeadTailProperties
  <2>3. QED
    BY <1>2, <2>1, <2>2
<1>4. QED
  BY <1>2, <1>3

\* A request that has one write less to do keeps what a validation remembers.
LEMMA GoesOrderly ==
    ASSUME NEW x, NEW p, NEW f, Orderly(x, p, f), NEW y, Goes(x, y),
           NEW q, NEW g,
           \/ Proceeding(y, q) \/ Refusing(y, q, g) \/ Adjusting(y, q, g)
           \/ Publishing(y, q, g) \/ Revising(y, q) \/ Submitting(y, q, g)
    PROVE  Orderly(y, q, g)
  BY DEF Orderly, Goes

-----------------------------------------------------------------------------
(* The next write of each kind of list.                                    *)

\* The active purchase of a validation or of the buyer stays in hand until
\* it is done.
LEMMA ProceedingContinues ==
    ASSUME OneRequest, TypeOK, StepsOrdered, AllOrderly,
           NEW r \in Requests, Continue(r), Proceeding(req[r], purchase)
    PROVE  AllOrderly'
<1> DEFINE x == req[r]
           w == Head(x.todo)
<1>1. x \in Request /\ x.todo # << >> /\ Orderly(x, purchase, flows)
  BY WriteEffects DEF TypeOK, AllOrderly
<1>2. w = x.todo[1] /\ 1 \in 1..Len(x.todo)
  BY <1>1, LessToDo
<1>3. Calm(w) /\ Active(purchase)
  BY <1>2 DEF Proceeding
<1>4. ASSUME Active(purchase')
      PROVE  AllOrderly'
  <2>1. CASE Over(r)
    BY <1>4, <2>1, ActiveSettled, OverOrderly
  <2>2. CASE HasLess(r)
    <3>1. PICK y : Goes(x, y) /\ req' = [req EXCEPT ![r] = y]
      BY <2>2 DEF HasLess
    <3>2. \A i \in 1..Len(y.todo) : Calm(y.todo[i])
      BY <1>1, <3>1, LessToDo DEF Proceeding
    <3>3. Proceeding(y, purchase')
      BY <1>4, <3>1, <3>2 DEF Proceeding, Goes
    <3>4. Orderly(y, purchase', flows')
      BY <1>1, <3>1, <3>3, GoesOrderly
    <3>5. QED
      BY <3>1, <3>4, OnlyOneOrderly
  <2>3. QED
    BY <2>1, <2>2, WriteEffects
<1>5. CASE w.do # "update"
  <2>1. SameStanding(purchase, purchase')
    BY <1>3, <1>5, WriteEffects DEF Calm
  <2>2. QED
    BY <1>3, <1>4, <2>1 DEF Active, SameStanding
<1>6. CASE w.do = "update" /\ ~purchase.exists
  <2>1. purchase' = purchase
    BY <1>6, WriteEffects
  <2>2. QED
    BY <1>3, <1>4, <2>1
<1>7. CASE w.do = "update" /\ purchase.exists
  <2>1. /\ GoesOn(r)
        /\ purchase'.currentStep = Patch(purchase.currentStep, w.step)
        /\ purchase'.status = Patch(purchase.status, w.status)
        /\ purchase'.closed = IF w.closed = Keep THEN purchase.closed
                                                 ELSE w.closed = "set"
    BY <1>7, WriteEffects
  <2>2. purchase'.status \notin Refusals \cup {"DRAFT"}
    BY <1>3, <1>7, <2>1 DEF Calm, Active, Patch
  <2>3. CASE w.step # "DONE" /\ w.closed = Keep
    <3>1. Active(purchase')
      BY <1>3, <2>1, <2>2, <2>3 DEF Active, Patch
    <3>2. QED
      BY <1>4, <3>1
  <2>4. CASE w.step = "DONE" /\ w.status = "VALIDATED" /\ w.closed = "set"
    <3>1. "DONE" # Keep /\ "VALIDATED" # Keep /\ "set" # Keep
      BY DEF Keep
    <3>2. Len(x.todo) = 1
      BY <1>2, <1>7, <2>4, <3>1 DEF StepsOrdered, OrderedRequest, MovesStep
    <3>3. Over(r)
      BY <2>1, <3>2 DEF GoesOn
    <3>4. /\ purchase'.currentStep = "DONE" /\ purchase'.status = "VALIDATED"
          /\ purchase'.closed
      BY <2>1, <2>4, <3>1 DEF Patch
    <3>5. Settled(purchase', flows')
      BY <3>4 DEF Settled, Refusals
    <3>6. QED
      BY <3>3, <3>5, OverOrderly
  <2>5. QED
    BY <1>3, <1>7, <2>3, <2>4 DEF Calm
<1>8. QED
  BY <1>5, <1>6, <1>7

\* A rejection or a change request marks its validator, then closes the
\* purchase in one write.
LEMMA RefusingContinues ==
    ASSUME OneRequest, TypeOK, AllOrderly,
           NEW r \in Requests, Continue(r), Refusing(req[r], purchase, flows)
    PROVE  AllOrderly'
<1> DEFINE x == req[r]
           w == Head(x.todo)
<1>1. x \in Request /\ x.todo # << >> /\ Orderly(x, purchase, flows)
  BY WriteEffects DEF TypeOK, AllOrderly
<1>2. w = x.todo[1]
  BY <1>1, LessToDo
<1>3. /\ Active(purchase) /\ purchase.currentStep \in FlowSteps
      /\ Has(flows, purchase.currentStep)
      /\ Len(x.todo) \in 1..2 /\ Refuses(x.todo[Len(x.todo)])
      /\ Len(x.todo) = 2 => w.do = "mark"
  BY <1>2 DEF Refusing
<1>4. CASE Len(x.todo) = 2
  <2>1. /\ SameStanding(purchase, purchase') /\ SameFlows(flows, flows')
        /\ Over(r) \/ GoesOn(r)
    BY <1>3, <1>4, WriteEffects
  <2>2. /\ Active(purchase') /\ purchase'.currentStep \in FlowSteps
        /\ Has(flows', purchase'.currentStep)
    BY <1>3, <2>1 DEF Active, SameStanding, SameFlows, Has
  <2>3. CASE Over(r)
    BY <2>2, <2>3, ActiveSettled, OverOrderly
  <2>4. CASE GoesOn(r)
    <3>1. PICK y : Goes(x, y) /\ req' = [req EXCEPT ![r] = y]
      BY <1>4, <2>4 DEF GoesOn, HasLess
    <3>2. Len(y.todo) = 1 /\ y.todo[1] = x.todo[2]
      <4>1. Len(y.todo) = 1
        <5>1. Len(y.todo) = Len(x.todo) - 1
          BY <1>1, <3>1, LessToDo
        <5>2. QED
          BY <1>4, <5>1
      <4>2. \A i \in 1..1 : y.todo[i] = x.todo[i + 1]
        BY <1>1, <3>1, <4>1, LessToDo
      <4>3. QED
        BY <4>1, <4>2
    <3>3. Refusing(y, purchase', flows')
      BY <1>3, <1>4, <2>2, <3>2 DEF Refusing
    <3>4. Orderly(y, purchase', flows')
      BY <1>1, <3>1, <3>3, GoesOrderly
    <3>5. QED
      BY <3>1, <3>4, OnlyOneOrderly
  <2>5. QED
    BY <2>1, <2>3, <2>4
<1>5. CASE Len(x.todo) = 1
  <2>1. Refuses(w) /\ w.do = "update"
    BY <1>2, <1>3, <1>5 DEF Refuses
  <2>2. CASE ~purchase.exists
    <3>1. Over(r) /\ purchase' = purchase
      BY <2>1, <2>2, WriteEffects
    <3>2. Active(purchase')
      BY <1>3, <3>1
    <3>3. QED
      BY <3>1, <3>2, ActiveSettled, OverOrderly
  <2>3. CASE purchase.exists
    <3>1. /\ GoesOn(r) /\ flows' = flows
          /\ purchase'.currentStep = Patch(purchase.currentStep, w.step)
          /\ purchase'.status = Patch(purchase.status, w.status)
          /\ purchase'.closed = IF w.closed = Keep THEN purchase.closed
                                                   ELSE w.closed = "set"
      BY <2>1, <2>3, WriteEffects
    <3>2. Over(r)
      BY <1>5, <3>1 DEF GoesOn
    <3>3. /\ purchase'.currentStep = purchase.currentStep
          /\ purchase'.status \in Refusals /\ purchase'.closed
      BY <2>1, <3>1 DEF Refuses, Patch, Refusals, Keep
    <3>4. Settled(purchase', flows')
      BY <1>3, <3>1, <3>3 DEF Settled, Active, Refusals
    <3>5. QED
      BY <3>2, <3>4, OverOrderly
  <2>4. QED
    BY <2>2, <2>3
<1>6. QED
  BY <1>3, <1>4, <1>5

\* Papers, items and fields change nothing that Settled looks at.
LEMMA AdjustingContinues ==
    ASSUME OneRequest, TypeOK, AllOrderly,
           NEW r \in Requests, Continue(r), Adjusting(req[r], purchase, flows)
    PROVE  /\ AllOrderly'
           /\ purchase.status = "REJECTED" => purchase' = purchase /\ flows' = flows
<1> DEFINE x == req[r]
           w == Head(x.todo)
<1>1. x \in Request /\ x.todo # << >> /\ Orderly(x, purchase, flows)
  BY WriteEffects DEF TypeOK, AllOrderly
<1>2. w = x.todo[1] /\ 1 \in 1..Len(x.todo)
  BY <1>1, LessToDo
<1>3. /\ Settled(purchase, flows)
      /\ \/ OnPapers(w)
         \/ (OnItems(w) \/ OnFields(w)) /\ purchase.status # "REJECTED"
  BY <1>2 DEF Adjusting
<1>4. SameStanding(purchase, purchase') /\ SameFlows(flows, flows')
  <2>1. CASE OnPapers(w)
    BY <2>1, WriteEffects DEF SameStanding, SameFlows
  <2>2. CASE OnItems(w)
    BY <2>2, WriteEffects DEF SameFlows, OnItems
  <2>3. CASE OnFields(w)
    <3>1. w.do = "update" /\ w.step = Keep /\ w.status = Keep /\ w.closed = Keep
      BY <2>3 DEF OnFields
    <3>2. flows' = flows
      BY <3>1, WriteEffects
    <3>3. SameStanding(purchase, purchase')
      BY <3>1, WriteEffects DEF SameStanding, Patch
    <3>4. QED
      BY <3>2, <3>3 DEF SameFlows
  <2>4. QED
    BY <1>3, <2>1, <2>2, <2>3
<1>5. Settled(purchase', flows')
  BY <1>3, <1>4, SameSettled
<1>6. CASE Over(r)
  BY <1>3, <1>5, <1>6, OverOrderly, WriteEffects
<1>7. CASE HasLess(r)
  <2>1. PICK y : Goes(x, y) /\ req' = [req EXCEPT ![r] = y]
    BY <1>7 DEF HasLess
  <2> DEFINE Fine(v) ==
        \/ OnPapers(v)
        \/ (OnItems(v) \/ OnFields(v)) /\ purchase.status # "REJECTED"
  <2>2. (\A i \in 1..Len(x.todo) : Fine(x.todo[i])) /\ x.op \notin ApprovalOps
    BY DEF Adjusting
  <2> HIDE DEF Fine
  <2>3. \A i \in 1..Len(y.todo) : Fine(y.todo[i])
    BY <1>1, <2>1, <2>2, LessToDo
  <2>4. Adjusting(y, purchase', flows')
    BY <1>4, <1>5, <2>1, <2>2, <2>3 DEF Adjusting, Goes, SameStanding, Fine
  <2>5. Orderly(y, purchase', flows')
    BY <1>1, <2>1, <2>4, GoesOrderly
  <2>6. QED
    BY <1>3, <2>1, <2>5, OnlyOneOrderly, WriteEffects
<1>8. QED
  BY <1>6, <1>7, WriteEffects

\* The deletion of a draft leaves a row nobody finds any more.
LEMMA DeletingContinues ==
    ASSUME OneRequest, TypeOK, AllOrderly,
           NEW r \in Requests, Continue(r), Deleting(req[r], purchase, flows)
    PROVE  AllOrderly'
<1> DEFINE x == req[r]
           w == Head(x.todo)
<1>1. x \in Request /\ x.todo # << >>
  BY WriteEffects DEF TypeOK
<1>2. w = x.todo[1]
  BY <1>1, LessToDo
<1>3. /\ Settled(purchase, flows) /\ purchase.status = "DRAFT"
      /\ Len(x.todo) = 1 /\ w.do = "deletePurchase"
  BY <1>2 DEF Deleting
<1>4. CASE ~purchase.exists
  <2>1. Over(r) /\ purchase' = purchase /\ flows' = flows
    BY <1>3, <1>4, WriteEffects
  <2>2. QED
    BY <1>3, <2>1, OverOrderly
<1>5. CASE purchase.exists
  <2>1. /\ GoesOn(r)
        /\ purchase'.status = purchase.status
        /\ purchase'.currentStep = purchase.currentStep
        /\ purchase'.closed = purchase.closed
        /\ \A s \in FlowSteps : ~Has(flows', s)
    BY <1>3, <1>5, WriteEffects
  <2>2. Over(r) /\ "DA" \in FlowSteps
    BY <1>3, <2>1 DEF GoesOn, FlowSteps
  <2>3. Settled(purchase', flows')
    BY <1>3, <2>1, <2>2 DEF Settled, Refusals
  <2>4. QED
    BY <2>2, <2>3, OverOrderly
<1>6. QED
  BY <1>4, <1>5

\* Counted from their ends the two lists are the same.
LEMMA FromTheEnd ==
    ASSUME NEW x \in Request, NEW y, Goes(x, y)
    PROVE  /\ Len(x.todo) \in Nat \ {0}
           /\ Len(y.todo) = Len(x.todo) - 1
           /\ \A k \in 0..3 : k < Len(y.todo) =>
                y.todo[Len(y.todo) - k] = x.todo[Len(x.todo) - k]
<1>1. x.todo # << >>
  BY DEF Goes
<1>2. /\ Len(x.todo) \in Nat \ {0}
      /\ Len(y.todo) = Len(x.todo) - 1
      /\ \A i \in 1..Len(y.todo) : y.todo[i] = x.todo[i + 1]
  BY <1>1, LessToDo
<1>3. ASSUME NEW k \in 0..3, k < Len(y.todo)
      PROVE  y.todo[Len(y.todo) - k] = x.todo[Len(x.todo) - k]
  <2> DEFINE i == Len(y.todo) - k
  <2>1. i \in 1..Len(y.todo) /\ i + 1 = Len(x.todo) - k
    BY <1>2, <1>3
  <2> HIDE DEF i
  <2>2. y.todo[i] = x.todo[Len(x.todo) - k]
    BY <1>2, <2>1
  <2>3. QED
    BY <2>2 DEF i
<1>4. QED
  BY <1>2, <1>3

\* A publication opens the workflow of DA, which a draft does not have and a
\* purchase sent back has just lost, before it says PUBLISHED.
LEMMA PublishingContinues ==
    ASSUME OneRequest, TypeOK, AllOrderly,
           NEW r \in Requests, Continue(r), Publishing(req[r], purchase, flows)
    PROVE  AllOrderly'
<1> DEFINE x == req[r]
           w == Head(x.todo)
           n == Len(x.todo)
<1>1. x \in Request /\ x.todo # << >> /\ Orderly(x, purchase, flows)
  BY WriteEffects DEF TypeOK, AllOrderly
<1>2. w = x.todo[1]
  BY <1>1, LessToDo
<1>3. /\ purchase.exists /\ purchase.currentStep \in FlowSteps
      /\ n \in 1..4
      /\ SetsStatus(x.todo[n], "PUBLISHED")
      /\ n >= 2 => OpensFlow(x.todo[n - 1], "DA")
      /\ n >= 3 => Reopens(x.todo[n - 2])
      /\ n = 4 => DropsFlows(x.todo[1])
      /\ n >= 3 => purchase.status = "CHANGE_REQUESTED"
      /\ n \in 2..3 => ~Has(flows, "DA")
      /\ n <= 2 => /\ purchase.status \in {"CHANGE_REQUESTED", "DRAFT"}
                   /\ ~purchase.closed
  BY DEF Publishing
<1>4. "DA" \in FlowSteps /\ "DONE" \notin FlowSteps
  BY DEF FlowSteps
<1>5. ASSUME n # 1, GoesOn(r),
             purchase'.exists, purchase'.currentStep = purchase.currentStep,
             n >= 4 => purchase'.status = "CHANGE_REQUESTED",
             n \in 3..4 => ~Has(flows', "DA"),
             n <= 3 => /\ purchase'.status \in {"CHANGE_REQUESTED", "DRAFT"}
                       /\ ~purchase'.closed
      PROVE  AllOrderly'
  <2>1. PICK y : Goes(x, y) /\ req' = [req EXCEPT ![r] = y]
    BY <1>5 DEF GoesOn, HasLess
  <2> DEFINE m == Len(y.todo)
  <2>2. /\ m = n - 1
        /\ \A k \in 0..3 : k < m => y.todo[m - k] = x.todo[n - k]
    BY <1>1, <2>1, FromTheEnd
  <2>3. m \in 1..3
    BY <1>3, <1>5, <2>2
  <2> HIDE DEF m, n
  <2>4. /\ y.todo[m] = x.todo[n]
        /\ m >= 2 => y.todo[m - 1] = x.todo[n - 1]
        /\ m >= 3 => y.todo[m - 2] = x.todo[n - 2]
    <3>1. m - 0 = m /\ n - 0 = n
      BY <1>3, <2>3
    <3>2. 0 < m /\ (m >= 2 => 1 < m) /\ (m >= 3 => 2 < m)
      BY <2>3
    <3>3. QED
      BY <2>2, <3>1, <3>2
  <2>5. /\ m >= 3 => n >= 4
        /\ m \in 2..3 => n \in 3..4
        /\ m <= 2 => n <= 3
        /\ m >= 2 => n >= 3
        /\ n >= 2
        /\ m # 4
    BY <1>3, <2>2, <2>3
  <2>6. /\ SetsStatus(y.todo[m], "PUBLISHED")
        /\ m >= 2 => OpensFlow(y.todo[m - 1], "DA")
        /\ m >= 3 => Reopens(y.todo[m - 2])
    BY <1>3, <2>4, <2>5
  <2>7. m \in 1..4
    BY <2>3
  <2>8. Publishing(y, purchase', flows')
    BY <1>3, <1>5, <2>5, <2>6, <2>7 DEF Publishing, m
  <2>9. Orderly(y, purchase', flows')
    BY <1>1, <2>1, <2>8, GoesOrderly
  <2>10. QED
    BY <2>1, <2>9, OnlyOneOrderly
<1>6. CASE n = 4
  <2>1. w.do = "deleteFlows" /\ w.steps = FlowSteps
    BY <1>2, <1>3, <1>6 DEF DropsFlows
  <2>2. purchase' = purchase /\ GoesOn(r) /\ ~Has(flows', "DA")
    BY <1>4, <2>1, WriteEffects
  <2>3. QED
    BY <1>3, <1>5, <1>6, <2>2
<1>7. CASE n = 3
  <2>1. Reopens(w)
    BY <1>2, <1>3, <1>7
  <2>2. /\ GoesOn(r) /\ flows' = flows
        /\ purchase'.exists = purchase.exists
        /\ purchase'.currentStep = Patch(purchase.currentStep, w.step)
        /\ purchase'.status = Patch(purchase.status, w.status)
        /\ purchase'.closed = IF w.closed = Keep THEN purchase.closed
                                                 ELSE w.closed = "set"
    BY <1>3, <2>1, WriteEffects DEF Reopens
  <2>3. purchase.status = "CHANGE_REQUESTED"
    BY <1>3, <1>7
  <2>4. /\ purchase'.currentStep = purchase.currentStep
        /\ purchase'.status = "CHANGE_REQUESTED" /\ ~purchase'.closed
    BY <2>1, <2>2, <2>3 DEF Reopens, Patch, Keep
  <2>5. QED
    BY <1>3, <1>5, <1>7, <2>2, <2>4
<1>8. CASE n = 2
  <2>1. w.do = "createFlow" /\ w.step = "DA" /\ ~Exists(w.step)
    BY <1>2, <1>3, <1>8 DEF OpensFlow, Has, Exists
  <2>2. purchase' = purchase /\ GoesOn(r)
    BY <1>3, <2>1, WriteEffects
  <2>3. QED
    BY <1>3, <1>5, <1>8, <2>2
<1>9. CASE n = 1
  <2>1. SetsStatus(w, "PUBLISHED")
    BY <1>2, <1>3, <1>9
  <2>2. /\ GoesOn(r)
        /\ purchase'.currentStep = Patch(purchase.currentStep, w.step)
        /\ purchase'.status = Patch(purchase.status, w.status)
        /\ purchase'.closed = IF w.closed = Keep THEN purchase.closed
                                                 ELSE w.closed = "set"
    BY <1>3, <2>1, WriteEffects DEF SetsStatus
  <2>3. Over(r)
    BY <1>9, <2>2 DEF GoesOn
  <2>4. /\ purchase'.currentStep \in FlowSteps
        /\ purchase'.status = "PUBLISHED" /\ ~purchase'.closed
    BY <1>3, <1>9, <2>1, <2>2 DEF SetsStatus, Patch, Keep
  <2>5. Active(purchase')
    BY <1>4, <2>4 DEF Active, Refusals
  <2>6. QED
    BY <2>3, <2>5, ActiveSettled, OverOrderly
<1>10. n = 1 \/ n = 2 \/ n = 3 \/ n = 4
  BY <1>3
<1>11. QED
  BY <1>6, <1>7, <1>8, <1>9, <1>10

\* A revision says DRAFT first and drops the workflows last; in between it
\* replaces items.
LEMMA RevisingContinues ==
    ASSUME OneRequest, TypeOK, AllOrderly,
           NEW r \in Requests, Continue(r), Revising(req[r], purchase)
    PROVE  AllOrderly'
<1> DEFINE x == req[r]
           w == Head(x.todo)
           n == Len(x.todo)
<1>1. x \in Request /\ x.todo # << >> /\ Orderly(x, purchase, flows)
  BY WriteEffects DEF TypeOK, AllOrderly
<1>2. w = x.todo[1] /\ n \in Nat \ {0}
  BY <1>1, LessToDo
<1>3. purchase.exists /\ purchase.currentStep \in FlowSteps /\ DropsFlows(x.todo[n])
  BY DEF Revising
<1>4. "DA" \in FlowSteps /\ "DONE" \notin FlowSteps
  BY DEF FlowSteps
<1>5. ASSUME n # 1, GoesOn(r), purchase'.exists,
             purchase'.currentStep = purchase.currentStep,
             purchase'.status = "DRAFT", ~purchase'.closed,
             \A i \in 2..(n - 1) : OnItems(x.todo[i])
      PROVE  AllOrderly'
  <2>1. PICK y : Goes(x, y) /\ req' = [req EXCEPT ![r] = y]
    BY <1>5 DEF GoesOn, HasLess
  <2> DEFINE m == Len(y.todo)
  <2>2. m = n - 1 /\ \A i \in 1..m : y.todo[i] = x.todo[i + 1]
    BY <1>1, <2>1, LessToDo
  <2>3. m \in Nat \ {0} /\ n = m + 1
    BY <1>2, <1>5, <2>2
  <2>4. DropsFlows(y.todo[m])
    <3>1. m \in 1..m
      BY <2>3
    <3> HIDE DEF m, n
    <3>2. QED
      BY <1>3, <2>2, <2>3, <3>1
  <2>5. \A i \in 1..(m - 1) : OnItems(y.todo[i])
    <3>1. \A i \in 1..(m - 1) : i \in 1..m /\ i + 1 \in 2..(n - 1)
      BY <2>3
    <3> HIDE DEF m, n
    <3>2. QED
      BY <1>5, <2>2, <3>1
  <2>6. Revising(y, purchase')
    BY <1>3, <1>5, <2>3, <2>4, <2>5 DEF Revising
  <2>7. Orderly(y, purchase', flows')
    BY <1>1, <2>1, <2>6, GoesOrderly
  <2>8. QED
    BY <2>1, <2>7, OnlyOneOrderly
<1>6. CASE purchase.status = "CHANGE_REQUESTED"
  <2>1. /\ n >= 2 /\ ToDraft(w)
        /\ \A i \in 2..(n - 1) : OnItems(x.todo[i])
    BY <1>2, <1>6 DEF Revising
  <2>2. /\ GoesOn(r) /\ flows' = flows
        /\ purchase'.exists = purchase.exists
        /\ purchase'.currentStep = Patch(purchase.currentStep, w.step)
        /\ purchase'.status = Patch(purchase.status, w.status)
        /\ purchase'.closed = IF w.closed = Keep THEN purchase.closed
                                                 ELSE w.closed = "set"
    BY <1>3, <2>1, WriteEffects DEF ToDraft
  <2>3. /\ purchase'.currentStep = purchase.currentStep
        /\ purchase'.status = "DRAFT" /\ ~purchase'.closed
    BY <2>1, <2>2 DEF ToDraft, Patch, Keep
  <2>4. n # 1
    <3> HIDE DEF n
    <3>1. QED
      BY <1>2, <2>1
  <2>5. QED
    BY <1>3, <1>5, <2>1, <2>2, <2>3, <2>4
<1>7. CASE purchase.status = "DRAFT"
  <2>1. ~purchase.closed /\ \A i \in 1..(n - 1) : OnItems(x.todo[i])
    BY <1>7 DEF Revising
  <2>2. CASE n = 1
    <3>1. w.do = "deleteFlows" /\ w.steps = FlowSteps
      BY <1>2, <1>3, <2>2 DEF DropsFlows
    <3>2. purchase' = purchase /\ GoesOn(r) /\ ~Has(flows', "DA")
      BY <1>4, <3>1, WriteEffects
    <3>3. Over(r)
      BY <2>2, <3>2 DEF GoesOn
    <3>4. Settled(purchase', flows')
      BY <1>3, <1>4, <1>7, <2>1, <3>2 DEF Settled, Refusals
    <3>5. QED
      BY <3>3, <3>4, OverOrderly
  <2>3. CASE n # 1
    <3>1. 1 \in 1..(n - 1) /\ \A i \in 2..(n - 1) : i \in 1..(n - 1)
      <4> HIDE DEF n
      <4>1. QED
        BY <1>2, <2>3
    <3>2. OnItems(w)
      BY <1>2, <2>1, <3>1
    <3>3. GoesOn(r) /\ SameStanding(purchase, purchase')
      BY <1>3, <3>2, WriteEffects DEF OnItems
    <3>4. QED
      BY <1>3, <1>5, <1>7, <2>1, <2>3, <3>1, <3>3 DEF SameStanding
  <2>4. QED
    BY <2>2, <2>3
<1>8. QED
  BY <1>6, <1>7 DEF Revising

\* A submission to the validators opens the workflow of the step before it
\* says PENDING_APPROVAL.  A refused purchase still has that workflow.
LEMMA SubmittingContinues ==
    ASSUME OneRequest, TypeOK, AllOrderly,
           NEW r \in Requests, Continue(r), Submitting(req[r], purchase, flows)
    PROVE  /\ AllOrderly'
           /\ purchase.status = "REJECTED" => purchase' = purchase /\ flows' = flows
<1> DEFINE x == req[r]
           w == Head(x.todo)
           n == Len(x.todo)
           step == purchase.currentStep
<1>1. x \in Request /\ x.todo # << >> /\ Orderly(x, purchase, flows)
  BY WriteEffects DEF TypeOK, AllOrderly
<1>2. w = x.todo[1]
  BY <1>1, LessToDo
<1>3. /\ Settled(purchase, flows)
      /\ step \in {"PV", "BC", "DAP"} /\ step \in FlowSteps /\ step # "DONE"
      /\ n \in 1..3
      /\ SetsStatus(x.todo[n], "PENDING_APPROVAL")
      /\ n >= 2 => OpensFlow(x.todo[n - 1], step)
      /\ n = 3 => OnPapers(x.todo[1])
      /\ n = 1 => purchase.status \notin Refusals
  BY DEF Submitting, FlowSteps
<1>4. ASSUME n # 1, GoesOn(r),
             purchase' = purchase, Settled(purchase', flows'),
             n = 2 => purchase.status \notin Refusals
      PROVE  AllOrderly'
  <2>1. PICK y : Goes(x, y) /\ req' = [req EXCEPT ![r] = y]
    BY <1>4 DEF GoesOn, HasLess
  <2> DEFINE m == Len(y.todo)
  <2>2. /\ m = n - 1
        /\ \A k \in 0..3 : k < m => y.todo[m - k] = x.todo[n - k]
    BY <1>1, <2>1, FromTheEnd
  <2>3. m \in 1..2
    BY <1>3, <1>4, <2>2
  <2> HIDE DEF m, n
  <2>4. /\ y.todo[m] = x.todo[n]
        /\ m >= 2 => y.todo[m - 1] = x.todo[n - 1]
    <3>1. m - 0 = m /\ n - 0 = n
      BY <1>3, <2>3
    <3>2. 0 < m /\ (m >= 2 => 1 < m)
      BY <2>3
    <3>3. QED
      BY <2>2, <3>1, <3>2
  <2>5. n >= 2 /\ m # 3 /\ (m = 1 => n = 2) /\ m \in 1..3
    BY <1>3, <2>2, <2>3
  <2>6. /\ SetsStatus(y.todo[m], "PENDING_APPROVAL")
        /\ m >= 2 => OpensFlow(y.todo[m - 1], step)
    BY <1>3, <2>4, <2>5
  <2>7. Submitting(y, purchase', flows')
    BY <1>3, <1>4, <2>5, <2>6 DEF Submitting, m
  <2>8. Orderly(y, purchase', flows')
    BY <1>1, <2>1, <2>7, GoesOrderly
  <2>9. QED
    BY <2>1, <2>8, OnlyOneOrderly
<1>5. CASE n = 3
  <2>1. purchase' = purchase /\ flows' = flows /\ (Over(r) \/ GoesOn(r))
    <3>1. OnPapers(w)
      BY <1>2, <1>3, <1>5
    <3>2. w.do # "readFlow"
      BY <3>1 DEF OnPapers, PaperWrites
    <3>3. QED
      BY <3>1, <3>2, WriteEffects
  <2>2. CASE Over(r)
    BY <1>3, <2>1, <2>2, OverOrderly
  <2>3. CASE GoesOn(r)
    BY <1>3, <1>4, <1>5, <2>1, <2>3
  <2>4. QED
    BY <2>1, <2>2, <2>3
<1>6. CASE n = 2
  <2>1. w.do = "createFlow" /\ w.step = step
    BY <1>2, <1>3, <1>6 DEF OpensFlow
  <2>2. purchase' = purchase
    BY <2>1, WriteEffects
  <2>3. CASE ~(purchase.exists /\ ~Exists(step))
    <3>1. Over(r) /\ flows' = flows
      BY <2>1, <2>3, WriteEffects
    <3>2. QED
      BY <1>3, <2>2, <3>1, OverOrderly
  <2>4. CASE purchase.exists /\ ~Exists(step)
    <3>1. GoesOn(r) /\ \A s \in FlowSteps : s # step => flows'[s] = flows[s]
      BY <2>1, <2>4, WriteEffects
    <3>2. purchase.status \notin Refusals
      BY <1>3, <2>4 DEF Settled, Has, Exists
    <3>3. Settled(purchase', flows')
      <4>1. "DA" \in FlowSteps /\ step # "DA"
        BY <1>3 DEF FlowSteps
      <4>2. QED
        BY <1>3, <2>2, <3>1, <3>2, <4>1 DEF Settled, Has
    <3>4. AllOrderly'
      BY <1>4, <1>6, <2>2, <3>1, <3>2, <3>3
    <3>5. QED
      BY <3>2, <3>4 DEF Refusals
  <2>5. QED
    BY <2>3, <2>4
<1>7. CASE n = 1
  <2>1. SetsStatus(w, "PENDING_APPROVAL") /\ w.do = "update"
    BY <1>2, <1>3, <1>7 DEF SetsStatus
  <2>2. purchase.status \notin Refusals
    BY <1>3, <1>7
  <2>3. CASE ~purchase.exists
    <3>1. Over(r) /\ purchase' = purchase /\ flows' = flows
      BY <2>1, <2>3, WriteEffects
    <3>2. QED
      BY <1>3, <3>1, OverOrderly
  <2>4. CASE purchase.exists
    <3>1. /\ GoesOn(r)
          /\ purchase'.currentStep = Patch(step, w.step)
          /\ purchase'.status = Patch(purchase.status, w.status)
          /\ purchase'.closed = IF w.closed = Keep THEN purchase.closed
                                                   ELSE w.closed = "set"
      BY <2>1, <2>4, WriteEffects
    <3>2. Over(r)
      BY <1>7, <3>1 DEF GoesOn
    <3>3. /\ purchase'.currentStep = step
          /\ purchase'.status = "PENDING_APPROVAL"
          /\ purchase'.closed = purchase.closed
      BY <2>1, <3>1 DEF SetsStatus, Patch, Keep
    <3>4. ~purchase.closed
      BY <1>3, <2>2 DEF Settled
    <3>5. Active(purchase')
      BY <1>3, <3>3, <3>4 DEF Active, Refusals
    <3>6. AllOrderly'
      BY <3>2, <3>5, ActiveSettled, OverOrderly
    <3>7. QED
      BY <2>2, <3>6 DEF Refusals
  <2>5. QED
    BY <2>3, <2>4
<1>8. n = 1 \/ n = 2 \/ n = 3
  BY <1>3
<1>9. QED
  BY <1>5, <1>6, <1>7, <1>8

-----------------------------------------------------------------------------
(* A request that runs alone starts in order.                              *)

\* The endpoints that look at the purchase's step or its derogation and not
\* at its status: they change the status of a refused purchase, or of a draft.
Careless == {"uploadQuotes", "proceedWithQuotes", "requestDerogation",
             "validateDerogation"}

\* With nothing left to write, and nobody else at work.
LEMMA NothingToDo ==
    ASSUME TypeOK, AllOrderly, NEW r \in Requests, req[r].todo = << >>
    PROVE  /\ Settled(purchase, flows)
           /\ req[r].op = "validate" /\ req[r].turn = NoTurn =>
                Active(purchase) /\ req[r].seen.status \in OpenStatuses
           /\ req[r].op \in {"reject", "requestChanges"} => Looking(req[r], purchase, flows)
<1> DEFINE x == req[r]
<1>1. Orderly(x, purchase, flows)
  BY DEF AllOrderly
<1>2. Len(x.todo) = 0
  OBVIOUS
<1> HIDE DEF x
<1>3. Looking(x, purchase, flows) \/ Proceeding(x, purchase) \/ Adjusting(x, purchase, flows)
  BY <1>1, <1>2 DEF Orderly, Refusing, Publishing, Revising, Deleting, Submitting
<1>4. CASE Looking(x, purchase, flows)
  BY <1>1, <1>4 DEF Orderly, Looking, x
<1>5. CASE Proceeding(x, purchase)
  BY <1>1, <1>5, ActiveSettled DEF Orderly, Proceeding, x
<1>6. CASE Adjusting(x, purchase, flows)
  BY <1>6 DEF Adjusting, ApprovalOps, x
<1>7. QED
  BY <1>3, <1>4, <1>5, <1>6

LEMMA IdleSettled ==
    ASSUME TypeOK, AllOrderly, NEW r \in Requests, req[r] = Idle
    PROVE  Settled(purchase, flows)
  BY NothingToDo DEF Idle

\* A list that is in order starts a request that is.
LEMMA RunsOrderly ==
    ASSUME OneRequest, TypeOK, NEW r \in Requests,
           NEW op \in Endpoints \ ApprovalOps, NEW w, Runs(r, op, w),
           \A y : y.op = op /\ y.todo = w =>
                \/ Proceeding(y, purchase) \/ Adjusting(y, purchase, flows)
                \/ Publishing(y, purchase, flows) \/ Revising(y, purchase)
                \/ Deleting(y, purchase, flows) \/ Submitting(y, purchase, flows)
    PROVE  AllOrderly'
<1> DEFINE y == Planned(op, w)
<1>1. y.op = op /\ y.todo = w
  BY DEF Planned, Idle
<1>2. /\ req' = [req EXCEPT ![r] = y]
      /\ purchase' = purchase /\ flows' = flows
  BY DEF Runs
<1> HIDE DEF y
<1>3. Orderly(y, purchase, flows)
  BY <1>1 DEF Orderly, ApprovalOps
<1>4. QED
  BY <1>2, <1>3, OnlyOneOrderly

\* The two commonest of them.
LEMMA RunsCalm ==
    ASSUME OneRequest, TypeOK, NEW r \in Requests,
           NEW op \in Endpoints \ ApprovalOps, NEW w, Runs(r, op, w),
           Active(purchase), \A i \in 1..Len(w) : Calm(w[i])
    PROVE  AllOrderly'
<1>1. \A y : y.op = op /\ y.todo = w => Proceeding(y, purchase)
  BY DEF Proceeding, ApprovalOps
<1>2. QED
  BY <1>1, RunsOrderly

LEMMA RunsAside ==
    ASSUME OneRequest, TypeOK, NEW r \in Requests,
           NEW op \in Endpoints \ ApprovalOps, NEW w, Runs(r, op, w),
           Settled(purchase, flows),
           \A i \in 1..Len(w) :
                \/ OnPapers(w[i])
                \/ (OnItems(w[i]) \/ OnFields(w[i])) /\ purchase.status # "REJECTED"
    PROVE  AllOrderly'
<1>1. \A y : y.op = op /\ y.todo = w => Adjusting(y, purchase, flows)
  BY DEF Adjusting
<1>2. QED
  BY <1>1, RunsOrderly

\* In hand are the purchases that a handler finds open or waiting for
\* documents before the last step.
LEMMA OpenActive ==
    ASSUME Settled(purchase, flows), purchase.currentStep # "DONE",
           purchase.status \in OpenStatuses \cup {"AWAITING_DOCUMENTS"}
    PROVE  Active(purchase)
  BY DEF Settled, Active, OpenStatuses, Refusals

LEMMA ItemsLists ==
    \A a : LET w == ReplaceItems(a)
           IN  /\ Len(w) = 2 /\ OnItems(w[1]) /\ OnItems(w[2])
               /\ \A i \in 1..Len(w) : OnItems(w[i])
<1>1. \A a : /\ Len(ReplaceItems(a)) = 2
             /\ ReplaceItems(a)[1] = DeleteItems
             /\ ReplaceItems(a)[2] = CreateItems(a)
  BY DEF ReplaceItems
<1>2. \A a : OnItems(DeleteItems) /\ OnItems(CreateItems(a))
  BY DEF OnItems, DeleteItems, CreateItems
<1>3. QED
  BY <1>1, <1>2

\* A joined list, element by element; and short lists joined.
LEMMA Joined ==
    ASSUME NEW S, NEW u \in Seq(S), NEW v \in Seq(S), NEW w \in Seq(S),
           Len(w) = Len(u) + Len(v),
           \A i \in 1..Len(w) : w[i] = IF i <= Len(u) THEN u[i] ELSE v[i - Len(u)]
    PROVE  u \o v = w
<1>1. /\ u \o v \in Seq(S) /\ Len(u \o v) = Len(u) + Len(v)
      /\ \A i \in 1..(Len(u) + Len(v)) :
            (u \o v)[i] = IF i <= Len(u) THEN u[i] ELSE v[i - Len(u)]
  BY ConcatProperties
<1>2. Len(w) = Len(u \o v) /\ \A i \in 1..Len(u \o v) : (u \o v)[i] = w[i]
  BY <1>1
<1>3. QED
  BY <1>1, <1>2, SeqEqual

LEMMA JoinedLists ==
    /\ \A a : << a >> \o << >> = << a >>
    /\ \A a, b : << >> \o << a, b >> = << a, b >>
    /\ \A a, b : << a >> \o << b >> = << a, b >>
    /\ \A a, b, c : << a >> \o << b, c >> = << a, b, c >>
    /\ \A a, b, c, d : << a, b >> \o << c, d >> = << a, b, c, d >>
    /\ \A a, b, c, d : << a, b, c >> \o << d >> = << a, b, c, d >>
    /\ \A a, b, c, d, e : << a, b, c >> \o << d, e >> = << a, b, c, d, e >>
<1>1. ASSUME NEW a, NEW b
      PROVE  << a >> \o << >> = << a >> /\ << >> \o << a, b >> = << a, b >>
  <2>1. << a >> \in Seq({a, b}) /\ << a, b >> \in Seq({a, b})
    OBVIOUS
  <2>2. QED
    BY <2>1, ConcatEmptySeq
<1>2. ASSUME NEW a, NEW b
      PROVE  << a >> \o << b >> = << a, b >>
  <2> DEFINE S == {a, b}
             u == << a >>
             v == << b >>
             w == << a, b >>
  <2>1. u \in Seq(S) /\ v \in Seq(S) /\ w \in Seq(S)
    OBVIOUS
  <2>2. /\ Len(u) = 1 /\ Len(v) = 1 /\ Len(w) = 2
        /\ w[1] = u[1]
        /\ w[2] = v[1]
    OBVIOUS
  <2> HIDE DEF S, u, v, w
  <2>3. Len(w) = Len(u) + Len(v)
    BY <2>2
  <2>4. \A i \in 1..2 : i = 1 \/ i = 2
    OBVIOUS
  <2>5. \A i \in 1..2 : w[i] = IF i <= 1 THEN u[i] ELSE v[i - 1]
    BY <2>2, <2>4
  <2>6. \A i \in 1..Len(w) : w[i] = IF i <= Len(u) THEN u[i] ELSE v[i - Len(u)]
    BY <2>2, <2>5
  <2>7. u \o v = w
    BY <2>1, <2>3, <2>6, Joined
  <2>8. QED
    BY <2>7 DEF u, v, w
<1>3. ASSUME NEW a, NEW b, NEW c
      PROVE  << a >> \o << b, c >> = << a, b, c >>
  <2> DEFINE S == {a, b, c}
             u == << a >>
             v == << b, c >>
             w == << a, b, c >>
  <2>1. u \in Seq(S) /\ v \in Seq(S) /\ w \in Seq(S)
    OBVIOUS
  <2>2. /\ Len(u) = 1 /\ Len(v) = 2 /\ Len(w) = 3
        /\ w[1] = u[1]
        /\ w[2] = v[1] /\ w[3] = v[2]
    OBVIOUS
  <2> HIDE DEF S, u, v, w
  <2>3. Len(w) = Len(u) + Len(v)
    BY <2>2
  <2>4. \A i \in 1..3 : i = 1 \/ i = 2 \/ i = 3
    OBVIOUS
  <2>5. \A i \in 1..3 : w[i] = IF i <= 1 THEN u[i] ELSE v[i - 1]
    BY <2>2, <2>4
  <2>6. \A i \in 1..Len(w) : w[i] = IF i <= Len(u) THEN u[i] ELSE v[i - Len(u)]
    BY <2>2, <2>5
  <2>7. u \o v = w
    BY <2>1, <2>3, <2>6, Joined
  <2>8. QED
    BY <2>7 DEF u, v, w
<1>4. ASSUME NEW a, NEW b, NEW c, NEW d
      PROVE  << a, b >> \o << c, d >> = << a, b, c, d >>
  <2> DEFINE S == {a, b, c, d}
             u == << a, b >>
             v == << c, d >>
             w == << a, b, c, d >>
  <2>1. u \in Seq(S) /\ v \in Seq(S) /\ w \in Seq(S)
    OBVIOUS
  <2>2. /\ Len(u) = 2 /\ Len(v) = 2 /\ Len(w) = 4
        /\ w[1] = u[1] /\ w[2] = u[2]
        /\ w[3] = v[1] /\ w[4] = v[2]
    OBVIOUS
  <2> HIDE DEF S, u, v, w
  <2>3. Len(w) = Len(u) + Len(v)
    BY <2>2
  <2>4. \A i \in 1..4 : i = 1 \/ i = 2 \/ i = 3 \/ i = 4
    OBVIOUS
  <2>5. \A i \in 1..4 : w[i] = IF i <= 2 THEN u[i] ELSE v[i - 2]
    BY <2>2, <2>4
  <2>6. \A i \in 1..Len(w) : w[i] = IF i <= Len(u) THEN u[i] ELSE v[i - Len(u)]
    BY <2>2, <2>5
  <2>7. u \o v = w
    BY <2>1, <2>3, <2>6, Joined
  <2>8. QED
    BY <2>7 DEF u, v, w
<1>5. ASSUME NEW a, NEW b, NEW c, NEW d
      PROVE  << a, b, c >> \o << d >> = << a, b, c, d >>
  <2> DEFINE S == {a, b, c, d}
             u == << a, b, c >>
             v == << d >>
             w == << a, b, c, d >>
  <2>1. u \in Seq(S) /\ v \in Seq(S) /\ w \in Seq(S)
    OBVIOUS
  <2>2. /\ Len(u) = 3 /\ Len(v) = 1 /\ Len(w) = 4
        /\ w[1] = u[1] /\ w[2] = u[2] /\ w[3] = u[3]
        /\ w[4] = v[1]
    OBVIOUS
  <2> HIDE DEF S, u, v, w
  <2>3. Len(w) = Len(u) + Len(v)
    BY <2>2
  <2>4. \A i \in 1..4 : i = 1 \/ i = 2 \/ i = 3 \/ i = 4
    OBVIOUS
  <2>5. \A i \in 1..4 : w[i] = IF i <= 3 THEN u[i] ELSE v[i - 3]
    BY <2>2, <2>4
  <2>6. \A i \in 1..Len(w) : w[i] = IF i <= Len(u) THEN u[i] ELSE v[i - Len(u)]
    BY <2>2, <2>5
  <2>7. u \o v = w
    BY <2>1, <2>3, <2>6, Joined
  <2>8. QED
    BY <2>7 DEF u, v, w
<1>6. ASSUME NEW a, NEW b, NEW c, NEW d, NEW e
      PROVE  << a, b, c >> \o << d, e >> = << a, b, c, d, e >>
  <2> DEFINE S == {a, b, c, d, e}
             u == << a, b, c >>
             v == << d, e >>
             w == << a, b, c, d, e >>
  <2>1. u \in Seq(S) /\ v \in Seq(S) /\ w \in Seq(S)
    OBVIOUS
  <2>2. /\ Len(u) = 3 /\ Len(v) = 2 /\ Len(w) = 5
        /\ w[1] = u[1] /\ w[2] = u[2] /\ w[3] = u[3]
        /\ w[4] = v[1] /\ w[5] = v[2]
    OBVIOUS
  <2> HIDE DEF S, u, v, w
  <2>3. Len(w) = Len(u) + Len(v)
    BY <2>2
  <2>4. \A i \in 1..5 : i = 1 \/ i = 2 \/ i = 3 \/ i = 4 \/ i = 5
    OBVIOUS
  <2>5. \A i \in 1..5 : w[i] = IF i <= 3 THEN u[i] ELSE v[i - 3]
    BY <2>2, <2>4
  <2>6. \A i \in 1..Len(w) : w[i] = IF i <= Len(u) THEN u[i] ELSE v[i - Len(u)]
    BY <2>2, <2>5
  <2>7. u \o v = w
    BY <2>1, <2>3, <2>6, Joined
  <2>8. QED
    BY <2>7 DEF u, v, w
<1>7. QED
  BY <1>1, <1>2, <1>3, <1>4, <1>5, <1>6

\* The lists that publish and revise, write by write.
LEMMA PublicationLists ==
    ASSUME purchase.currentStep \in FlowSteps, Editable
    PROVE  LET w == PublicationWrites
               n == Len(w)
           IN  /\ n = IF purchase.status = "CHANGE_REQUESTED" THEN 4 ELSE 2
               /\ SetsStatus(w[n], "PUBLISHED")
               /\ OpensFlow(w[n - 1], "DA")
               /\ n = 4 => Reopens(w[2]) /\ DropsFlows(w[1])
<1> DEFINE create == CreateFlow("DA",
                         RequireValidators(purchase.currentStep,
                                           purchase.operationType,
                                           purchase.amount),
                         TRUE)
           status == SetStatus("PUBLISHED")
           drop == DeleteFlows(FlowSteps)
           reopen == Update(Keep, Keep, "clear", Keep)
<1>1. purchase.currentStep \in ConfiguredSteps
  BY DEF FlowSteps, ConfiguredSteps
<1>2. /\ SetsStatus(status, "PUBLISHED") /\ OpensFlow(create, "DA")
      /\ Reopens(reopen) /\ DropsFlows(drop)
  BY DEF SetsStatus, SetStatus, Update, OpensFlow, CreateFlow, Reopens,
         DropsFlows, DeleteFlows, Keep
<1>3. PublicationWrites =
        (IF purchase.status = "CHANGE_REQUESTED" THEN << drop, reopen >> ELSE << >>)
            \o << create, status >>
  BY <1>1 DEF PublicationWrites
<1> HIDE DEF create, status, drop, reopen
<1>4. /\ << drop, reopen >> \o << create, status >> = << drop, reopen, create, status >>
      /\ << >> \o << create, status >> = << create, status >>
  BY JoinedLists
<1>5. CASE purchase.status = "CHANGE_REQUESTED"
  <2>1. PublicationWrites = << drop, reopen, create, status >>
    BY <1>3, <1>4, <1>5
  <2>2. QED
    BY <1>2, <1>5, <2>1
<1>6. CASE purchase.status # "CHANGE_REQUESTED"
  <2>1. PublicationWrites = << create, status >>
    BY <1>3, <1>4, <1>6
  <2>2. QED
    BY <1>2, <1>6, <2>1
<1>7. QED
  BY <1>5, <1>6

LEMMA RevisionLists ==
    ASSUME NEW op, NEW items, items = << >> \/ \E a : items = ReplaceItems(a)
    PROVE  LET w == RevisionWrites(op, items)
               n == Len(w)
           IN  /\ n \in {2, 4} /\ ToDraft(w[1]) /\ DropsFlows(w[n])
               /\ \A i \in 2..(n - 1) : OnItems(w[i])
<1> DEFINE draft == Update(Keep, "DRAFT", "clear", op)
           drop == DeleteFlows(FlowSteps)
<1>1. ToDraft(draft) /\ DropsFlows(drop)
  BY DEF ToDraft, Update, DropsFlows, DeleteFlows, Keep
<1>2. RevisionWrites(op, items) = (<< draft >> \o items) \o << drop >>
  BY DEF RevisionWrites
<1> HIDE DEF draft, drop
<1>3. CASE items = << >>
  <2>1. (<< draft >> \o << >>) \o << drop >> = << draft, drop >>
    BY JoinedLists
  <2>2. QED
    BY <1>1, <1>2, <1>3, <2>1
<1>4. CASE \E a : items = ReplaceItems(a)
  <2>1. PICK a : items = << DeleteItems, CreateItems(a) >>
    BY <1>4 DEF ReplaceItems
  <2> DEFINE v1 == DeleteItems
             v2 == CreateItems(a)
  <2>2. OnItems(v1) /\ OnItems(v2)
    BY DEF OnItems, DeleteItems, CreateItems
  <2> HIDE DEF v1, v2
  <2>3. (<< draft >> \o << v1, v2 >>) \o << drop >> = << draft, v1, v2, drop >>
    <3>1. << draft >> \o << v1, v2 >> = << draft, v1, v2 >>
      BY JoinedLists
    <3>2. << draft, v1, v2 >> \o << drop >> = << draft, v1, v2, drop >>
      BY JoinedLists
    <3>3. QED
      BY <3>1, <3>2
  <2>4. RevisionWrites(op, items) = << draft, v1, v2, drop >>
    BY <1>2, <2>1, <2>3 DEF v1, v2
  <2>5. QED
    BY <1>1, <2>2, <2>4
<1>5. QED
  BY <1>3, <1>4

LEMMA AuthoringOrderly ==
    ASSUME OneRequest, TypeOK, AllOrderly, NEW r \in Requests, AuthoringNext(r)
    PROVE  AllOrderly'
<1>1. Settled(purchase, flows) /\ purchase.exists
  BY IdleSettled DEF AuthoringNext, AddPurchaseItems, UpdatePurchaseFields,
     PublishPurchaseForValidation, UpdateAndRepublishPurchase,
     DeleteDraftPurchase, StartsFlow, Starts
<1>2. {"addPurchaseItems", "updatePurchase", "publish", "updateAndRepublish",
       "deleteDraft"} \subseteq Endpoints \ ApprovalOps
  BY DEF Endpoints, ApprovalOps
<1>3. "DONE" \notin FlowSteps
  BY DEF FlowSteps
<1>4. CASE AddPurchaseItems(r)
  <2>1. PICK amount \in ItemLists : Runs(r, "addPurchaseItems", ReplaceItems(amount))
    BY <1>4 DEF AddPurchaseItems
  <2>2. purchase.status # "REJECTED"
    BY <1>4 DEF AddPurchaseItems, Editable
  <2> DEFINE w == ReplaceItems(amount)
  <2>3. \A i \in 1..Len(w) : OnItems(w[i])
    BY ItemsLists
  <2>4. Runs(r, "addPurchaseItems", w)
    BY <2>1
  <2> HIDE DEF w
  <2>5. QED
    BY <1>1, <1>2, <2>2, <2>3, <2>4, RunsAside
<1>5. CASE UpdatePurchaseFields(r)
  <2>1. PICK op \in OperationTypes :
            Runs(r, "updatePurchase", << Update(Keep, Keep, Keep, op) >>)
    BY <1>5 DEF UpdatePurchaseFields
  <2>2. purchase.status # "REJECTED"
    BY <1>5 DEF UpdatePurchaseFields, Editable
  <2> DEFINE v == Update(Keep, Keep, Keep, op)
             w == << v >>
  <2>3. OnFields(v)
    BY DEF OnFields, Update
  <2>4. Runs(r, "updatePurchase", w)
    BY <2>1
  <2> HIDE DEF v
  <2>5. \A i \in 1..Len(w) : OnFields(w[i])
    BY <2>3
  <2> HIDE DEF w
  <2>6. QED
    BY <1>1, <1>2, <2>2, <2>4, <2>5, RunsAside
<1>6. CASE PublishPurchaseForValidation(r)
  <2> DEFINE w == PublicationWrites
             n == Len(w)
  <2>1. Runs(r, "publish", w) /\ purchase.status \in {"DRAFT", "CHANGE_REQUESTED"}
    BY <1>6 DEF PublishPurchaseForValidation, Editable
  <2>2. purchase.currentStep \in FlowSteps
    BY <1>1, <2>1 DEF Settled, Refusals
  <2>3. /\ n = IF purchase.status = "CHANGE_REQUESTED" THEN 4 ELSE 2
        /\ SetsStatus(w[n], "PUBLISHED")
        /\ OpensFlow(w[n - 1], "DA")
        /\ n = 4 => Reopens(w[2]) /\ DropsFlows(w[1])
    BY <2>1, <2>2, PublicationLists DEF Editable
  <2>4. n = 2 => purchase.status = "DRAFT" /\ ~purchase.closed /\ ~Has(flows, "DA")
    BY <1>1, <1>3, <2>1, <2>2, <2>3 DEF Settled, Refusals
  <2>5. n = 4 => purchase.status = "CHANGE_REQUESTED"
    BY <2>3
  <2> HIDE DEF w, n
  <2>6. ASSUME NEW y, y.op = "publish", y.todo = w
        PROVE  Publishing(y, purchase, flows)
    <3>1. n = 2 \/ n = 4
      BY <2>3
    <3>2. CASE n = 2
      <4>1. /\ n \in 1..4 /\ n \notin 3..3 /\ ~(n >= 3) /\ n # 4
        BY <3>2
      <4>2. QED
        BY <1>1, <2>2, <2>3, <2>4, <2>6, <3>2, <4>1 DEF Publishing, n
    <3>3. CASE n = 4
      <4>1. /\ n \in 1..4 /\ n \notin 2..3 /\ ~(n <= 2) /\ n - 2 = 2
        BY <3>3
      <4>2. QED
        BY <1>1, <2>2, <2>3, <2>5, <2>6, <3>3, <4>1 DEF Publishing, n
    <3>4. QED
      BY <3>1, <3>2, <3>3
  <2>7. QED
    BY <1>2, <2>1, <2>6, RunsOrderly
<1>7. CASE UpdateAndRepublishPurchase(r)
  <2>1. PICK op \in OperationTypes,
             items \in { << >> } \cup { ReplaceItems(a) : a \in ItemLists } :
            Runs(r, "updateAndRepublish", RevisionWrites(op, items))
    BY <1>7 DEF UpdateAndRepublishPurchase
  <2> DEFINE w == RevisionWrites(op, items)
             n == Len(w)
  <2>2. /\ n \in {2, 4} /\ ToDraft(w[1]) /\ DropsFlows(w[n])
        /\ \A i \in 2..(n - 1) : OnItems(w[i])
    BY RevisionLists
  <2>3. Runs(r, "updateAndRepublish", w)
    BY <2>1
  <2>4. purchase.status = "CHANGE_REQUESTED" /\ purchase.currentStep \in FlowSteps
    BY <1>1, <1>7 DEF Settled, UpdateAndRepublishPurchase, Refusals
  <2> HIDE DEF w
  <2>5. n >= 2 /\ n >= 1
    <3> HIDE DEF n
    <3>1. QED
      BY <2>2
  <2>6. \A y : y.op = "updateAndRepublish" /\ y.todo = w => Revising(y, purchase)
    BY <1>1, <2>2, <2>4, <2>5 DEF Revising
  <2>7. QED
    BY <1>2, <2>3, <2>6, RunsOrderly
<1>8. CASE DeleteDraftPurchase(r)
  <2> DEFINE w == << DeletePurchase >>
  <2>1. Runs(r, "deleteDraft", w) /\ purchase.status = "DRAFT"
    BY <1>8 DEF DeleteDraftPurchase
  <2>2. Len(w) = 1 /\ w[1].do = "deletePurchase"
    BY DEF DeletePurchase
  <2> HIDE DEF w
  <2>3. \A y : y.op = "deleteDraft" /\ y.todo = w => Deleting(y, purchase, flows)
    BY <1>1, <2>1, <2>2 DEF Deleting
  <2>4. QED
    BY <1>2, <2>1, <2>3, RunsOrderly
<1>9. QED
  BY <1>4, <1>5, <1>6, <1>7, <1>8 DEF AuthoringNext

\* Short lists by their elements.
LEMMA PaperList ==
    /\ \A a : OnPapers(a) => \A i \in 1..Len(<< a >>) : OnPapers(<< a >>[i])
    /\ \A a, b : OnPapers(a) /\ OnPapers(b)
            => \A i \in 1..Len(<< a, b >>) : OnPapers(<< a, b >>[i])
<1>1. ASSUME NEW a, OnPapers(a)
      PROVE  \A i \in 1..Len(<< a >>) : OnPapers(<< a >>[i])
  <2> DEFINE w == << a >>
  <2>1. Len(w) = 1 /\ w[1] = a
    OBVIOUS
  <2> HIDE DEF w
  <2>2. \A i \in 1..Len(w) : OnPapers(w[i])
    BY <1>1, <2>1
  <2>3. QED
    BY <2>2 DEF w
<1>2. ASSUME NEW a, NEW b, OnPapers(a), OnPapers(b)
      PROVE  \A i \in 1..Len(<< a, b >>) : OnPapers(<< a, b >>[i])
  <2> DEFINE w == << a, b >>
  <2>1. Len(w) = 2 /\ w[1] = a /\ w[2] = b
    OBVIOUS
  <2> HIDE DEF w
  <2>2. \A i \in 1..Len(w) : OnPapers(w[i])
    BY <1>2, <2>1
  <2>3. QED
    BY <2>2 DEF w
<1>3. QED
  BY <1>1, <1>2

LEMMA PaperKinds ==
    /\ OnPapers(DropQuote)
    /\ \A x : /\ OnPapers(AddQuotes(x)) /\ OnPapers(AddDoc(x))
              /\ OnPapers(DropDocs(x)) /\ OnPapers(CreatePv(x))
              /\ OnPapers(SavePv(x)) /\ OnPapers(CreateDerogation(x))
              /\ OnPapers(SetDerogation(x)) /\ OnPapers(Require(x))
  BY DEF OnPapers, PaperWrites, DropQuote, AddQuotes, AddDoc, DropDocs,
         CreatePv, SavePv, CreateDerogation, SetDerogation, Require

LEMMA CalmKinds ==
    /\ \A w : OnPapers(w) => Calm(w)
    /\ \A steps : Calm(DeleteFlows(steps))
    /\ \A step, roles, signed : Calm(CreateFlow(step, roles, signed))
    /\ \A status \in OpenStatuses \cup {"AWAITING_DOCUMENTS"} : Calm(SetStatus(status))
<1>1. \A w : OnPapers(w) => Calm(w)
  BY DEF OnPapers, PaperWrites, Calm
<1>2. /\ \A steps : Calm(DeleteFlows(steps))
      /\ \A step, roles, signed : Calm(CreateFlow(step, roles, signed))
  BY DEF Calm, DeleteFlows, CreateFlow
<1>3. \A status \in OpenStatuses \cup {"AWAITING_DOCUMENTS"} : Calm(SetStatus(status))
  BY DEF Calm, SetStatus, Update, OpenStatuses, Refusals, Keep
<1>4. QED
  BY <1>1, <1>2, <1>3

LEMMA SourcingOrderly ==
    ASSUME OneRequest, TypeOK, AllOrderly, Operations \cap Careless = {},
           NEW r \in Requests, SourcingNext(r)
    PROVE  AllOrderly'
<1>1. Settled(purchase, flows)
  BY IdleSettled DEF SourcingNext, UploadQuotes, DeleteQuote,
     SubmitQuotesForValidation, ValidateQuotesAndProceed,
     RequestQuoteDerogation, ValidateDerogation, CreatePV, UpdatePV,
     StartsFlow, Starts
<1>2. {"deleteQuote", "submitQuotes", "createPV", "updatePV"}
            \subseteq Endpoints \ ApprovalOps
  BY DEF Endpoints, ApprovalOps
<1>3. ~(\/ UploadQuotes(r) \/ ValidateQuotesAndProceed(r)
        \/ RequestQuoteDerogation(r) \/ ValidateDerogation(r))
  BY DEF UploadQuotes, ValidateQuotesAndProceed, RequestQuoteDerogation,
         ValidateDerogation, Starts, Careless
<1>4. CASE DeleteQuote(r)
  <2>1. PICK v : OnPapers(v) /\ Runs(r, "deleteQuote", << v >>)
    BY <1>4, PaperKinds DEF DeleteQuote, RemoveAttachmentWrites
  <2> DEFINE w == << v >>
  <2>2. \A i \in 1..Len(w) : OnPapers(w[i])
    BY <2>1, PaperList
  <2>3. Runs(r, "deleteQuote", w)
    BY <2>1
  <2> HIDE DEF w
  <2>4. QED
    BY <1>1, <1>2, <2>2, <2>3, RunsAside
<1>5. CASE SubmitQuotesForValidation(r)
  <2> DEFINE create == CreateFlow("QR",
                         RequireValidators("QR", purchase.operationType,
                                           purchase.amount),
                         FALSE)
  <2>1. PICK short \in BOOLEAN :
            Runs(r, "submitQuotes",
                (IF short THEN << CreateDerogation("VALIDATED") >> ELSE << >>)
                \o << create,
                      SetStatus(IF short THEN "IN_DEROGATION"
                                         ELSE "PENDING_APPROVAL") >>)
    BY <1>5 DEF SubmitQuotesForValidation
  <2> DEFINE status == SetStatus(IF short THEN "IN_DEROGATION" ELSE "PENDING_APPROVAL")
             derog == CreateDerogation("VALIDATED")
             w == IF short THEN << derog, create, status >> ELSE << create, status >>
  <2>2. Calm(create) /\ Calm(status) /\ Calm(derog)
    BY CalmKinds, PaperKinds DEF OpenStatuses
  <2>3. Active(purchase)
    BY <1>1, <1>5, OpenActive DEF SubmitQuotesForValidation, AtStep, StatusIn, OpenStatuses
  <2> HIDE DEF create, status, derog
  <2>4. Runs(r, "submitQuotes", w)
    <3>1. /\ << derog >> \o << create, status >> = << derog, create, status >>
          /\ << >> \o << create, status >> = << create, status >>
      BY JoinedLists
    <3>2. Runs(r, "submitQuotes",
               (IF short THEN << derog >> ELSE << >>) \o << create, status >>)
      BY <2>1 DEF status, derog
    <3>3. CASE short
      BY <3>1, <3>2, <3>3
    <3>4. CASE ~short
      BY <3>1, <3>2, <3>4
    <3>5. QED
      BY <3>3, <3>4
  <2>5. \A i \in 1..Len(w) : Calm(w[i])
    <3>1. CASE short
      <4>1. /\ Len(w) = 3
            /\ w[1] = derog /\ w[2] = create /\ w[3] = status
        BY <3>1
      <4> HIDE DEF w
      <4>2. QED
        BY <2>2, <4>1
    <3>2. CASE ~short
      <4>1. Len(w) = 2 /\ w[1] = create /\ w[2] = status
        BY <3>2
      <4> HIDE DEF w
      <4>2. QED
        BY <2>2, <4>1
    <3>3. QED
      BY <3>1, <3>2
  <2> HIDE DEF w
  <2>6. QED
    BY <1>2, <2>3, <2>4, <2>5, RunsCalm
<1>6. CASE CreatePV(r)
  <2>1. PICK v : OnPapers(v) /\ Runs(r, "createPV", << v >>)
    BY <1>6, PaperKinds DEF CreatePV
  <2> DEFINE w == << v >>
  <2>2. \A i \in 1..Len(w) : OnPapers(w[i])
    BY <2>1, PaperList
  <2>3. Runs(r, "createPV", w)
    BY <2>1
  <2> HIDE DEF w
  <2>4. QED
    BY <1>1, <1>2, <2>2, <2>3, RunsAside
<1>7. CASE UpdatePV(r)
  <2>1. PICK suppliers \in SupplierLists :
            Runs(r, "updatePV", << SavePv("empty") >>
                 \o IF suppliers = "filled" THEN << SavePv("filled") >> ELSE << >>)
    BY <1>7 DEF UpdatePV
  <2> DEFINE a == SavePv("empty")
             b == SavePv("filled")
             w == IF suppliers = "filled" THEN << a, b >> ELSE << a >>
  <2>2. OnPapers(a) /\ OnPapers(b)
    BY PaperKinds
  <2> HIDE DEF a, b
  <2>3. Runs(r, "updatePV", w)
    <3>1. << a >> \o << b >> = << a, b >> /\ << a >> \o << >> = << a >>
      BY JoinedLists
    <3>2. Runs(r, "updatePV", << a >> \o IF suppliers = "filled" THEN << b >> ELSE << >>)
      BY <2>1 DEF a, b
    <3>3. QED
      BY <3>1, <3>2
  <2>4. \A i \in 1..Len(w) : OnPapers(w[i])
    BY <2>2, PaperList
  <2> HIDE DEF w
  <2>5. QED
    BY <1>1, <1>2, <2>3, <2>4, RunsAside
<1>8. QED
  BY <1>3, <1>4, <1>5, <1>6, <1>7 DEF SourcingNext

LEMMA AskingIsCalm ==
    ASSUME NEW step
    PROVE  LET w == AskApproval(step)
           IN  /\ w = << w[1], w[2] >>
               /\ OpensFlow(w[1], step) /\ SetsStatus(w[2], "PENDING_APPROVAL")
               /\ Calm(w[1]) /\ Calm(w[2])
<1> DEFINE chain == ChainFor(step)
           status == SetStatus("PENDING_APPROVAL")
<1>1. OpensFlow(chain, step) /\ SetsStatus(status, "PENDING_APPROVAL")
  BY DEF ChainFor, OpensFlow, CreateFlow, SetsStatus, SetStatus, Update
<1>2. Calm(chain) /\ Calm(status)
  BY CalmKinds DEF ChainFor, OpenStatuses
<1>3. AskApproval(step) = << chain, status >>
  BY DEF AskApproval
<1> HIDE DEF chain, status
<1>4. << chain, status >>[1] = chain /\ << chain, status >>[2] = status
  OBVIOUS
<1>5. QED
  BY <1>1, <1>2, <1>3, <1>4

LEMMA EnteringIsCalm ==
    ASSUME NEW step \in {"BR", "INVOICE", "PROOF_OF_PAYMENT"}
    PROVE  \E move : Calm(move) /\ EnterNext(step) = << move >>
<1> DEFINE next == NextDocumentStep[step]
           move == IF next = "DONE" THEN Update("DONE", "VALIDATED", "set", Keep)
                                    ELSE MoveTo(next, "AWAITING_DOCUMENTS")
<1>1. EnterNext(step) = << move >>
  BY DEF EnterNext
<1> HIDE DEF next
<1>2. Calm(move)
  BY DEF Calm, Update, MoveTo, Refusals, Keep
<1>3. QED
  BY <1>1, <1>2

LEMMA DocumentsOrderly ==
    ASSUME OneRequest, TypeOK, AllOrderly, NEW r \in Requests, DocumentsNext(r)
    PROVE  AllOrderly'
<1>1. Settled(purchase, flows)
  BY IdleSettled DEF DocumentsNext, UploadBC, UploadDocument, SubmitDocument,
     SubmitForValidation, CreateAttachment, DeleteAttachment, StartsFlow, Starts
<1>2. {"uploadBC", "uploadDocument", "submitDocument", "submitForValidation",
       "createAttachment", "deleteAttachment"} \subseteq Endpoints \ ApprovalOps
  BY DEF Endpoints, ApprovalOps
<1>3. DOMAIN DocTypeOf = {"BR", "INVOICE", "DAP", "PROOF_OF_PAYMENT"}
  BY DEF DocTypeOf
<1>4. CASE UploadBC(r)
  <2> DEFINE a == DropDocs("PURCHASE_ORDER")
             b == AddDoc("PURCHASE_ORDER")
             c == DeleteFlows({"BC"})
             d == AskApproval("BC")[1]
             e == AskApproval("BC")[2]
             w == << a, b, c, d, e >>
  <2>1. AskApproval("BC") = << d, e >> /\ Calm(d) /\ Calm(e)
    BY AskingIsCalm
  <2>2. Calm(a) /\ Calm(b) /\ Calm(c)
    BY CalmKinds, PaperKinds
  <2>3. Active(purchase)
    BY <1>1, <1>4, OpenActive DEF UploadBC, OpenStatuses
  <2>4. Runs(r, "uploadBC", << a, b, c >> \o AskApproval("BC"))
    BY <1>4 DEF UploadBC
  <2> HIDE DEF a, b, c, d, e
  <2>5. Runs(r, "uploadBC", w)
    <3>1. << a, b, c >> \o << d, e >> = << a, b, c, d, e >>
      BY JoinedLists
    <3>2. QED
      BY <2>1, <2>4, <3>1
  <2>6. /\ Len(w) = 5 /\ w[1] = a /\ w[2] = b /\ w[3] = c
        /\ w[4] = d /\ w[5] = e
    OBVIOUS
  <2> HIDE DEF w
  <2>7. \A i \in 1..Len(w) : Calm(w[i])
    BY <2>1, <2>2, <2>6
  <2>8. QED
    BY <1>2, <2>3, <2>5, <2>7, RunsCalm
<1>5. CASE UploadDocument(r)
  <2> DEFINE type == DocTypeOf[purchase.currentStep]
             a == DropDocs(type)
             b == AddDoc(type)
             c == SetStatus("AWAITING_DOCUMENTS")
             w == << a, b, c >>
  <2>1. Calm(a) /\ Calm(b) /\ Calm(c)
    BY CalmKinds, PaperKinds
  <2>2. Active(purchase)
    BY <1>1, <1>3, <1>5, OpenActive DEF UploadDocument, OpenStatuses
  <2>3. Runs(r, "uploadDocument", w)
    BY <1>5 DEF UploadDocument
  <2> HIDE DEF a, b, c
  <2>4. Len(w) = 3 /\ w[1] = a /\ w[2] = b /\ w[3] = c
    OBVIOUS
  <2> HIDE DEF w
  <2>5. \A i \in 1..Len(w) : Calm(w[i])
    BY <2>1, <2>4
  <2>6. QED
    BY <1>2, <2>2, <2>3, <2>5, RunsCalm
<1>6. CASE SubmitDocument(r)
  <2> DEFINE step == purchase.currentStep
             a == Require(DocTypeOf[step])
  <2>1. Active(purchase) /\ step \in {"BR", "INVOICE", "DAP", "PROOF_OF_PAYMENT"}
    BY <1>1, <1>3, <1>6, OpenActive DEF SubmitDocument, OpenStatuses
  <2>2. Calm(a)
    BY CalmKinds, PaperKinds
  <2>3. Runs(r, "submitDocument",
             << a >> \o IF step = "DAP"
                        THEN << DeleteFlows({"DAP"}) >> \o AskApproval("DAP")
                        ELSE EnterNext(step))
    BY <1>6 DEF SubmitDocument
  <2> HIDE DEF a
  <2>4. CASE step = "DAP"
    <3> DEFINE b == DeleteFlows({"DAP"})
               c == AskApproval("DAP")[1]
               d == AskApproval("DAP")[2]
               w == << a, b, c, d >>
    <3>1. AskApproval("DAP") = << c, d >> /\ Calm(c) /\ Calm(d) /\ Calm(b)
      BY AskingIsCalm, CalmKinds
    <3>2. Runs(r, "submitDocument", << a >> \o (<< b >> \o AskApproval("DAP")))
      BY <2>3, <2>4
    <3> HIDE DEF b, c, d
    <3>3. Runs(r, "submitDocument", << a >> \o << b, c, d >>)
      <4>1. << b >> \o << c, d >> = << b, c, d >>
        BY JoinedLists
      <4>2. QED
        BY <3>1, <3>2, <4>1
    <3>4. << a >> \o << b, c, d >> = w
      <4>1. << a >> \o << b, c, d >> = << a >> \o (<< b, c >> \o << d >>)
        BY JoinedLists
      <4>2. << a >> \o (<< b, c >> \o << d >>) = (<< a >> \o << b, c >>) \o << d >>
        <5>1. /\ << a >> \in Seq({a, b, c, d}) /\ << b, c >> \in Seq({a, b, c, d})
              /\ << d >> \in Seq({a, b, c, d})
          OBVIOUS
        <5>2. QED
          BY <5>1, ConcatAssociative
      <4>3. << a >> \o << b, c >> = << a, b, c >>
        BY JoinedLists
      <4>4. << a, b, c >> \o << d >> = w
        BY JoinedLists
      <4>5. QED
        BY <4>1, <4>2, <4>3, <4>4
    <3>5. Len(w) = 4 /\ w[1] = a /\ w[2] = b /\ w[3] = c /\ w[4] = d
      OBVIOUS
    <3> HIDE DEF w
    <3>6. \A i \in 1..Len(w) : Calm(w[i])
      BY <2>2, <3>1, <3>5
    <3>7. QED
      BY <1>2, <2>1, <3>3, <3>4, <3>6, RunsCalm
  <2>5. CASE step # "DAP"
    <3>1. PICK move : Calm(move) /\ EnterNext(step) = << move >>
      BY <2>1, <2>5, EnteringIsCalm
    <3> DEFINE w == << a, move >>
    <3>2. << a >> \o << move >> = w
      BY JoinedLists
    <3>3. Runs(r, "submitDocument", w)
      BY <2>3, <2>5, <3>1, <3>2
    <3>4. Len(w) = 2 /\ w[1] = a /\ w[2] = move
      OBVIOUS
    <3> HIDE DEF w
    <3>5. \A i \in 1..Len(w) : Calm(w[i])
      BY <2>2, <3>1, <3>4
    <3>6. QED
      BY <1>2, <2>1, <3>3, <3>5, RunsCalm
  <2>6. QED
    BY <2>4, <2>5
<1>7. CASE SubmitForValidation(r)
  <2> DEFINE step == purchase.currentStep
  <2>1. PICK w \in SubmitWrites : Runs(r, "submitForValidation", w)
    BY <1>7 DEF SubmitForValidation
  <2>2. \/ step = "PV" /\ w = << Require("PV") >> \o AskApproval("PV")
        \/ step \in {"BC", "DAP"} /\ w = AskApproval(step)
        \/ step \in {"BR", "INVOICE", "PROOF_OF_PAYMENT"} /\ w = EnterNext(step)
    BY <2>1 DEF SubmitWrites
  <2>3. ASSUME step \in {"PV", "BC", "DAP"}, Len(w) \in 2..3,
               SetsStatus(w[Len(w)], "PENDING_APPROVAL"),
               OpensFlow(w[Len(w) - 1], step),
               Len(w) = 3 => OnPapers(w[1])
        PROVE  AllOrderly'
    <3>1. \A y : y.op = "submitForValidation" /\ y.todo = w
                    => Submitting(y, purchase, flows)
      <4>1. PICK n \in 2..3 : n = Len(w)
        BY <2>3
      <4>2. n \in 1..3 /\ n # 1
        OBVIOUS
      <4>3. QED
        BY <1>1, <2>3, <4>1, <4>2 DEF Submitting
    <3>2. QED
      BY <1>2, <2>1, <3>1, RunsOrderly
  <2>4. CASE step = "PV" /\ w = << Require("PV") >> \o AskApproval("PV")
    <3> DEFINE a == Require("PV")
               b == AskApproval("PV")[1]
               c == AskApproval("PV")[2]
    <3>1. /\ AskApproval("PV") = << b, c >>
          /\ OpensFlow(b, "PV") /\ SetsStatus(c, "PENDING_APPROVAL")
      BY AskingIsCalm
    <3>2. OnPapers(a) /\ w = << a >> \o << b, c >>
      BY <2>4, <3>1, PaperKinds
    <3> HIDE DEF a, b, c
    <3>3. w = << a, b, c >>
      BY <3>2, JoinedLists
    <3>4. Len(w) = 3 /\ w[1] = a /\ w[2] = b /\ w[3] = c
      BY <3>3
    <3>5. QED
      BY <2>3, <2>4, <3>1, <3>2, <3>4
  <2>5. CASE step \in {"BC", "DAP"} /\ w = AskApproval(step)
    <3>1. /\ w = << w[1], w[2] >>
          /\ OpensFlow(w[1], step) /\ SetsStatus(w[2], "PENDING_APPROVAL")
      BY <2>5, AskingIsCalm
    <3>2. Len(w) = 2
      BY <3>1
    <3>3. QED
      BY <2>3, <2>5, <3>1, <3>2
  <2>6. CASE step \in {"BR", "INVOICE", "PROOF_OF_PAYMENT"} /\ w = EnterNext(step)
    <3>1. PICK move : Calm(move) /\ w = << move >>
      BY <2>6, EnteringIsCalm
    <3>2. Active(purchase)
      BY <1>1, <2>6 DEF Settled, Active, FlowSteps
    <3>3. Len(w) = 1 /\ w[1] = move
      BY <3>1
    <3>4. \A i \in 1..Len(w) : Calm(w[i])
      BY <3>1, <3>3
    <3>5. QED
      BY <1>2, <2>1, <3>2, <3>4, RunsCalm
  <2>7. QED
    BY <2>2, <2>4, <2>5, <2>6
<1>8. CASE CreateAttachment(r)
  <2>1. PICK v : OnPapers(v) /\ Runs(r, "createAttachment", << v >>)
    BY <1>8, PaperKinds DEF CreateAttachment
  <2> DEFINE w == << v >>
  <2>2. \A i \in 1..Len(w) : OnPapers(w[i])
    BY <2>1, PaperList
  <2>3. Runs(r, "createAttachment", w)
    BY <2>1
  <2> HIDE DEF w
  <2>4. QED
    BY <1>1, <1>2, <2>2, <2>3, RunsAside
<1>9. CASE DeleteAttachment(r)
  <2>1. PICK v : OnPapers(v) /\ Runs(r, "deleteAttachment", << v >>)
    BY <1>9, PaperKinds DEF DeleteAttachment
  <2> DEFINE w == << v >>
  <2>2. \A i \in 1..Len(w) : OnPapers(w[i])
    BY <2>1, PaperList
  <2>3. Runs(r, "deleteAttachment", w)
    BY <2>1
  <2> HIDE DEF w
  <2>4. QED
    BY <1>1, <1>2, <2>2, <2>3, RunsAside
<1>10. QED
  BY <1>4, <1>5, <1>6, <1>7, <1>8, <1>9 DEF DocumentsNext

\* What a validation goes on to write.
ValidationParts(turn, seen) ==
    LET next == NextStepMap[seen.step]
    IN  OwnWrites(turn, seen)
        \cup {SetStatus(ValidatedStatus(turn, seen)), MoveTo(next, StatusOnEntry(next))}

LEMMA ValidationInParts ==
    ASSUME NEW turn, NEW seen, NEW w \in ValidationWrites(turn, seen)
    PROVE  w \in Seq(ValidationParts(turn, seen))
<1> DEFINE mark == MarkOf(turn)
           read == ReadFlow(seen.step, seen.id)
           write == AdvanceFlow(seen.step, seen.id)
           status == SetStatus(ValidatedStatus(turn, seen))
           next == NextStepMap[seen.step]
           move == MoveTo(next, StatusOnEntry(next))
           S == ValidationParts(turn, seen)
<1>1. mark \in S /\ read \in S /\ write \in S /\ status \in S /\ move \in S
  BY DEF ValidationParts, OwnWrites
<1>2. PICK p \in ParallelWrites(turn, seen) :
        w = (p \o << status >>) \o CompletionWrites(turn, seen)
  BY DEF ValidationWrites
<1>3. p \in { << mark, read, write >>, << read, mark, write >>, << read, write, mark >> }
  BY <1>2 DEF ParallelWrites, MarkOf
<1>4. CompletionWrites(turn, seen) \in { << >>, << move >> }
  BY DEF CompletionWrites
<1> HIDE DEF mark, read, write, status, move, next, S
<1>5. /\ << mark, read, write >> \in Seq(S)
      /\ << read, mark, write >> \in Seq(S)
      /\ << read, write, mark >> \in Seq(S)
      /\ << status >> \in Seq(S) /\ << move >> \in Seq(S) /\ << >> \in Seq(S)
  BY <1>1
<1>6. /\ p \in Seq(S) /\ << status >> \in Seq(S)
      /\ CompletionWrites(turn, seen) \in Seq(S)
  BY <1>3, <1>4, <1>5
<1>7. w \in Seq(S)
  BY <1>2, <1>6, ConcatProperties
<1>8. QED
  BY <1>7 DEF S

\* It leaves the purchase in hand, or done.
LEMMA ValidationIsCalm ==
    ASSUME NEW turn, NEW seen \in Snapshot, seen.status \in OpenStatuses,
           NEW w \in ValidationWrites(turn, seen)
    PROVE  \A i \in 1..Len(w) : Calm(w[i])
<1> DEFINE status == SetStatus(ValidatedStatus(turn, seen))
           next == NextStepMap[seen.step]
           move == MoveTo(next, StatusOnEntry(next))
<1>1. \A v \in OwnWrites(turn, seen) : Calm(v)
  BY DEF Calm, OwnWrites, MarkOf, Mark, ReadFlow, AdvanceFlow
<1>2. Calm(status)
  <2>1. ValidatedStatus(turn, seen) \in OpenStatuses
    BY DEF ValidatedStatus, OpenStatuses
  <2>2. QED
    BY <2>1, CalmKinds
<1>3. Calm(move)
  <2>1. next # "DONE" /\ next # Keep
    <3>1. seen.step \in FlowSteps
      BY DEF Snapshot
    <3>2. QED
      BY <3>1 DEF FlowSteps, NextStepMap, Steps, Keep
  <2>2. StatusOnEntry(next) \in {"AWAITING_DOCUMENTS", "PUBLISHED"}
    BY DEF StatusOnEntry
  <2> HIDE DEF next
  <2>3. QED
    BY <2>1, <2>2 DEF Calm, MoveTo, Update, Refusals
<1>4. \A v \in ValidationParts(turn, seen) : Calm(v)
  BY <1>1, <1>2, <1>3 DEF ValidationParts
<1>5. QED
  BY <1>4, ValidationInParts, ElementOfSeq

LEMMA ApprovalOrderly ==
    ASSUME OneRequest, TypeOK, AllOrderly, NEW r \in Requests, ApprovalNext(r)
    PROVE  AllOrderly' /\ purchase' = purchase /\ flows' = flows
<1>1. /\ req \in [Requests -> Request] /\ req[r] \in Request
      /\ req[r].turn \in Turn /\ req[r].seen \in Snapshot
  BY DEF TypeOK, Request
<1>2. purchase' = purchase /\ flows' = flows
  BY DEF ApprovalNext, ValidateAuthFirst, ValidateLoadFirst, ValidateLoad,
         ValidateAuth, RefuseAuth, RefuseLoad, RefuseTurn
<1>3. SUFFICES AllOrderly'
  BY <1>2
<1>4. Settled(purchase, flows) /\ req[r].todo = << >>
  <2>1. req[r].todo = << >>
    <3>1. Idle.todo = << >>
      BY DEF Idle
    <3>2. req[r] = Idle \/ req[r].todo = << >>
      BY DEF ApprovalNext, ValidateAuthFirst, ValidateLoadFirst, ValidateLoad,
             ValidateAuth, RefuseAuth, RefuseLoad, RefuseTurn, Starts
    <3>3. QED
      BY <3>1, <3>2
  <2>2. QED
    BY <2>1, NothingToDo
<1>5. ASSUME NEW y, Orderly(y, purchase, flows), req' = [req EXCEPT ![r] = y]
      PROVE  AllOrderly'
  BY <1>2, <1>5, OnlyOneOrderly
<1>6. CASE Throw(r)
  BY <1>2, <1>4, <1>6, OverOrderly DEF Throw, Over
<1>7. ASSUME AwaitsValidation
      PROVE  /\ LoadedSnapshot \in Snapshot
             /\ LoadedSnapshot.step = purchase.currentStep
             /\ LoadedSnapshot.status \in OpenStatuses
             /\ Has(flows, purchase.currentStep)
             /\ Active(purchase)
  <2>1. /\ LoadedSnapshot.step = purchase.currentStep
        /\ LoadedSnapshot.status = purchase.status
    BY DEF LoadedSnapshot
  <2>2. purchase.currentStep # "DONE"
    BY <1>7 DEF AwaitsValidation, FlowSteps
  <2>3. QED
    BY <1>4, <1>7, <2>1, <2>2, SnapshotType, OpenActive
       DEF AwaitsValidation, Has, Exists
<1>8. ASSUME NEW turn, NEW seen \in Snapshot, seen.status \in OpenStatuses,
             Active(purchase), NEW w \in ValidationWrites(turn, seen),
             req' = [req EXCEPT ![r] = Validating(seen, w)]
      PROVE  AllOrderly'
  <2> DEFINE y == Validating(seen, w)
  <2>1. y.op = "validate" /\ y.seen = seen /\ y.todo = w
    BY DEF Validating, Planned, Idle
  <2>2. \A i \in 1..Len(w) : Calm(w[i])
    BY <1>8, ValidationIsCalm
  <2> HIDE DEF y
  <2>3. Orderly(y, purchase, flows)
    BY <1>8, <2>1, <2>2 DEF Orderly, Proceeding
  <2>4. QED
    BY <1>5, <1>8, <2>3 DEF y
<1>9. CASE ValidateAuthFirst(r)
  <2>1. PICK turn \in AuthorisedTurns :
            req' = [req EXCEPT ![r].op = "validate", ![r].turn = turn]
    BY <1>9 DEF ValidateAuthFirst
  <2> DEFINE y == [req[r] EXCEPT !.op = "validate", !.turn = turn]
  <2>2. req' = [req EXCEPT ![r] = y]
    BY <1>1, <2>1
  <2>3. y.turn = turn /\ y.todo = << >> /\ y.op = "validate"
    BY <1>1, <1>4 DEF Request
  <2>4. turn # NoTurn
    <3>1. turn.id # 0
      BY DEF AuthorisedTurns, TurnOf, IsLatest, Exists
    <3>2. QED
      BY <3>1 DEF NoTurn
  <2> HIDE DEF y
  <2>5. Orderly(y, purchase, flows)
    BY <1>4, <2>3, <2>4 DEF Orderly, Looking
  <2>6. QED
    BY <1>5, <2>2, <2>5
<1>10. CASE ValidateLoadFirst(r)
  <2> DEFINE y == [req[r] EXCEPT !.op = "validate", !.seen = LoadedSnapshot]
  <2>1. req' = [req EXCEPT ![r] = y] /\ AwaitsValidation
    BY <1>1, <1>10 DEF ValidateLoadFirst
  <2>2. y.seen = LoadedSnapshot /\ y.todo = << >> /\ y.op = "validate"
    BY <1>1, <1>4 DEF Request
  <2> HIDE DEF y
  <2>3. Orderly(y, purchase, flows)
    BY <1>4, <1>7, <2>1, <2>2 DEF Orderly, Looking
  <2>4. QED
    BY <1>5, <2>1, <2>3
<1>11. CASE ValidateLoad(r) /\ ~Throw(r)
  <2>1. PICK w \in ValidationWrites(req[r].turn, LoadedSnapshot) :
            /\ AwaitsValidation
            /\ req' = [req EXCEPT ![r] = Validating(LoadedSnapshot, w)]
    BY <1>11 DEF ValidateLoad
  <2>2. QED
    BY <1>7, <1>8, <2>1
<1>12. CASE ValidateAuth(r) /\ ~Throw(r)
  <2>1. PICK turn \in AuthorisedTurns :
            \E w \in ValidationWrites(turn, req[r].seen) :
                req' = [req EXCEPT ![r] = Validating(req[r].seen, w)]
    BY <1>12 DEF ValidateAuth
  <2>2. Active(purchase) /\ req[r].seen.status \in OpenStatuses
    BY <1>4, <1>12, NothingToDo DEF ValidateAuth
  <2>3. QED
    BY <1>1, <1>8, <2>1, <2>2
<1>13. CASE RefuseAuth(r)
  <2>1. PICK op \in {"reject", "requestChanges"}, turn \in AuthorisedTurns :
            /\ req[r] = Idle
            /\ req' = [req EXCEPT ![r].op = op, ![r].turn.role = turn.role]
    BY <1>13 DEF RefuseAuth, Starts
  <2> DEFINE y == [req[r] EXCEPT !.op = op, !.turn.role = turn.role]
  <2>2. req' = [req EXCEPT ![r] = y]
    BY <1>1, <2>1
  <2>3. y.todo = << >> /\ y.op = op /\ y.seen = NotLoaded
    BY <1>1, <2>1 DEF Request, Idle
  <2> HIDE DEF y
  <2>4. Orderly(y, purchase, flows)
    BY <1>4, <2>1, <2>3 DEF Orderly, Looking
  <2>5. QED
    BY <1>5, <2>2, <2>4
<1>14. CASE RefuseLoad(r) /\ ~Throw(r)
  <2> DEFINE y == [req[r] EXCEPT !.seen = LoadedSnapshot]
  <2>1. /\ req' = [req EXCEPT ![r] = y] /\ AwaitsValidation
        /\ req[r].op \in {"reject", "requestChanges"}
    BY <1>1, <1>14 DEF RefuseLoad
  <2>2. y.todo = << >> /\ y.op = req[r].op /\ y.seen = LoadedSnapshot
    BY <1>1, <1>4 DEF Request
  <2> HIDE DEF y
  <2>3. Orderly(y, purchase, flows)
    BY <1>4, <1>7, <2>1, <2>2 DEF Orderly, Looking
  <2>4. QED
    BY <1>5, <2>1, <2>3
<1>15. CASE RefuseTurn(r) /\ ~Throw(r)
  <2> DEFINE s == req[r].seen.step
             decision == DecisionOf(req[r].op)
             mark(i) == Mark(s, flows[s].id, i, decision)
             close == Close(decision)
  <2>1. PICK i \in 1..Len(flows[s].validators) :
            req' = [req EXCEPT ![r] = Planned(req[r].op, << mark(i), close >>)]
    BY <1>15 DEF RefuseTurn
  <2>2. req[r].op \in {"reject", "requestChanges"} /\ req[r].seen # NotLoaded
    BY <1>15 DEF RefuseTurn
  <2>3. Looking(req[r], purchase, flows)
    BY <1>4, <2>2, NothingToDo
  <2>4. /\ Active(purchase) /\ s = purchase.currentStep
        /\ Has(flows, purchase.currentStep) /\ s \in FlowSteps
    BY <1>1, <2>2, <2>3 DEF Looking, Snapshot
  <2>5. mark(i).do = "mark" /\ Refuses(close)
    <3>1. decision \in Refusals
      BY <2>2 DEF DecisionOf, Refusals
    <3> HIDE DEF decision
    <3>2. QED
      BY <3>1 DEF Mark, Close, Update, Refuses
  <2> DEFINE m == mark(i)
             y == Planned(req[r].op, << m, close >>)
  <2>6. y.todo = << m, close >> /\ y.op = req[r].op
    BY DEF Planned, Idle
  <2>7. m.do = "mark"
    BY <2>5
  <2>8. req' = [req EXCEPT ![r] = y]
    BY <2>1
  <2> HIDE DEF y, m, mark, close, decision
  <2>9. Len(y.todo) = 2 /\ y.todo[1] = m /\ y.todo[2] = close
    BY <2>6
  <2>10. Refusing(y, purchase, flows)
    BY <2>4, <2>5, <2>7, <2>9 DEF Refusing
  <2>11. Orderly(y, purchase, flows)
    BY <2>2, <2>6, <2>10 DEF Orderly
  <2>12. QED
    BY <1>5, <2>8, <2>11
<1>16. QED
  BY <1>6, <1>9, <1>10, <1>11, <1>12, <1>13, <1>14, <1>15 DEF ApprovalNext

-----------------------------------------------------------------------------
(* The three properties.                                                   *)

LEMMA InitOrderly == Init => AllOrderly
<1>1. SUFFICES ASSUME NEW start \in StartSteps, NEW op \in StartTypes,
                      NEW amount \in Amounts, InitAt(start, op, amount),
                      req = [r \in Requests |-> Idle]
               PROVE  AllOrderly
  BY DEF Init
<1>2. start \in FlowSteps
  BY StartAssumption DEF FlowSteps
<1>3. /\ purchase.status = IF start = "DA" THEN "DRAFT" ELSE StatusOnEntry(start)
      /\ purchase.currentStep = start /\ ~purchase.closed
  BY <1>1 DEF InitAt
<1>4. Settled(purchase, flows)
  <2>1. CASE start = "DA"
    <3>1. ~StepBefore("DA", "DA")
      BY SuccessorsType DEF StepBefore, Steps
    <3>2. flows["DA"] = NoFlow
      BY <1>1, <2>1, <3>1 DEF InitAt, FlowSteps
    <3>3. QED
      BY <1>2, <1>3, <2>1, <3>2 DEF Settled, Has, NoFlow, Refusals
  <2>2. CASE start # "DA"
    <3>1. purchase.status \in {"AWAITING_DOCUMENTS", "PUBLISHED"}
      BY <1>3, <2>2 DEF StatusOnEntry
    <3>2. Active(purchase)
      BY <1>2, <1>3, <3>1 DEF Active, FlowSteps, Refusals
    <3>3. QED
      BY <3>2, ActiveSettled
  <2>3. QED
    BY <2>1, <2>2
<1>5. Idle.todo = << >> /\ Idle.op = "idle"
  BY DEF Idle
<1>6. Orderly(Idle, purchase, flows)
  BY <1>4, <1>5 DEF Orderly, Looking
<1>7. QED
  BY <1>1, <1>6 DEF AllOrderly

LEMMA ContinueOrderly ==
    ASSUME OneRequest, TypeOK, StepsOrdered, AllOrderly,
           NEW r \in Requests, Continue(r)
    PROVE  /\ AllOrderly'
           /\ purchase.status = "REJECTED" => purchase' = purchase /\ flows' = flows
<1> DEFINE x == req[r]
<1>1. /\ Orderly(x, purchase, flows) /\ x.todo # << >>
  BY WriteEffects DEF AllOrderly
<1>2. CASE Proceeding(x, purchase)
  BY <1>2, ProceedingContinues DEF Proceeding, Active, Refusals
<1>3. CASE Refusing(x, purchase, flows)
  BY <1>3, RefusingContinues DEF Refusing, Active, Refusals
<1>4. CASE Adjusting(x, purchase, flows)
  BY <1>4, AdjustingContinues
<1>5. CASE Publishing(x, purchase, flows)
  <2>1. purchase.status # "REJECTED"
    <3>1. PICK n \in 1..4 : n = Len(x.todo)
      BY <1>5 DEF Publishing
    <3>2. n >= 3 \/ n <= 2
      OBVIOUS
    <3>3. QED
      BY <1>5, <3>1, <3>2 DEF Publishing
  <2>2. QED
    BY <1>5, <2>1, PublishingContinues
<1>6. CASE Revising(x, purchase)
  BY <1>6, RevisingContinues DEF Revising
<1>7. CASE Deleting(x, purchase, flows)
  BY <1>7, DeletingContinues DEF Deleting
<1>8. CASE Submitting(x, purchase, flows)
  BY <1>8, SubmittingContinues
<1>9. QED
  BY <1>1, <1>2, <1>3, <1>4, <1>5, <1>6, <1>7, <1>8 DEF Orderly, Looking

LEMMA StepOrderly ==
    ASSUME OneRequest, ~CanFail, Operations \cap Careless = {},
           TypeOK, StepsOrdered, AllOrderly, [Next]_vars
    PROVE  /\ AllOrderly'
           /\ purchase.status = "REJECTED" => purchase' = purchase /\ flows' = flows
<1>1. CASE UNCHANGED vars
  BY <1>1 DEF vars, AllOrderly
<1>2. CASE \E r \in Requests : ApprovalNext(r)
  BY <1>2, ApprovalOrderly
<1>3. ASSUME NEW r \in Requests, AuthoringNext(r) \/ SourcingNext(r) \/ DocumentsNext(r)
      PROVE  /\ AllOrderly'
             /\ purchase' = purchase /\ flows' = flows
  <2>1. AllOrderly'
    BY <1>3, AuthoringOrderly, SourcingOrderly, DocumentsOrderly
  <2>2. RunsStill(r) \/ RunsAndMoves(r)
    BY <1>3, InertIsStill, AuthoringRuns,
     SourcingRuns, DocumentsRuns
  <2>3. QED
    BY <2>1, <2>2 DEF RunsStill, RunsAndMoves, Runs
<1>4. CASE \E r \in Requests : Continue(r)
  BY <1>4, ContinueOrderly
<1>5. CASE \E r \in Requests : Fail(r)
  BY <1>5 DEF Fail
<1>6. QED
  BY <1>1, <1>2, <1>3, <1>4, <1>5 DEF Next

LEMMA AlwaysOrderly ==
    ASSUME OneRequest, ~CanFail, Operations \cap Careless = {}
    PROVE  Spec => [](TypeOK /\ StepsOrdered /\ AllOrderly)
<1>1. Init => TypeOK /\ StepsOrdered /\ AllOrderly
  BY InitType, InitOrderly, IdleOrdered DEF Init, StepsOrdered
<1>2. TypeOK /\ StepsOrdered /\ AllOrderly /\ [Next]_vars
        => TypeOK' /\ StepsOrdered' /\ AllOrderly'
  BY StepType, StepOrdered, StepOrderly
<1>3. QED
  BY <1>1, <1>2, PTL DEF Spec

\* With nobody at work the purchase is settled, provided there is a request
\* that could have told.
LEMMA QuietSettled ==
    ASSUME TypeOK, AllOrderly, Quiet, Requests # {}
    PROVE  Settled(purchase, flows)
  BY IdleSettled DEF Quiet

\* Between requests closedAt says what the status says: no handler closes a
\* purchase without refusing it or opens it again without reopening it.
THEOREM ClosedIsRefused ==
    ASSUME OneRequest, Requests # {}, ~CanFail, Operations \cap Careless = {}
    PROVE  Spec => []ClosedMatchesStatus
<1>1. TypeOK /\ AllOrderly => ClosedMatchesStatus
  BY QuietSettled DEF ClosedMatchesStatus, Settled, Refusals
<1>2. QED
  BY <1>1, AlwaysOrderly, PTL

\* Between requests the workflow that the publication of a draft will create
\* is not there: its creation cannot fail on the unique key.
THEOREM DraftsArePublishable ==
    ASSUME OneRequest, Requests # {}, ~CanFail, Operations \cap Careless = {}
    PROVE  Spec => []DraftHasNoChain
<1>1. TypeOK /\ AllOrderly => DraftHasNoChain
  BY QuietSettled DEF DraftHasNoChain, Settled, Has, Exists
<1>2. QED
  BY <1>1, AlwaysOrderly, PTL

\* A rejected purchase is worked on no more: whatever the users call, its row
\* and its workflows stay as the rejection left them.
THEOREM RejectedForGood ==
    ASSUME OneRequest, ~CanFail, Operations \cap Careless = {}
    PROVE  Spec => RejectionIsFinal
<1> DEFINE Untouched ==
        purchase.status = "REJECTED" => purchase' = purchase /\ flows' = flows
<1>1. TypeOK /\ StepsOrdered /\ AllOrderly /\ [Next]_vars => [Untouched]_vars
  BY StepOrderly
<1>2. QED
  BY <1>1, AlwaysOrderly, PTL DEF Spec, RejectionIsFinal

-----------------------------------------------------------------------------
(* The papers of the steps behind.                                         *)
(*                                                                         *)
(* A paper is looked for when its step is left, or asked for, and not      *)
(* again; an upload throws the old one away before it files the new.       *)

\* The steps that leave a paper behind, and which.
PaperSteps == {"BC", "BR", "INVOICE", "PROOF_OF_PAYMENT"}

PaperOf == [s \in PaperSteps |->
                IF s = "BC" THEN "PURCHASE_ORDER" ELSE DocTypeOf[s]]

Drops(w, type) == w.do = "dropDocs" /\ w.type = type
Files(w, type) == w.do = "addDoc" /\ w.type = type
AsksFor(w, type) == w.do = "require" /\ w.what = type

Spares(x, type) == \A i \in 1..Len(x.todo) : ~Drops(x.todo[i], type)

\* The paper is there to stay.
Stays(x, type, d) == type \in d /\ Spares(x, type)

\* Nothing goes by the paper yet, neither a workflow nor the request.
Uncalled(x, step, f) ==
    /\ step = "BC" => ~Has(f, "BC")
    /\ \A i \in 1..Len(x.todo) : ~MovesStep(x.todo[i]) /\ ~OpensBC(x.todo[i])

\* The request is about to look for it; to replace it, with the new one filed
\* next; or to file it.
Checking(x, type) ==
    /\ Len(x.todo) >= 1 /\ AsksFor(x.todo[1], type)
    /\ Spares(x, type)

Replacing(x, type) ==
    /\ Len(x.todo) >= 2 /\ Drops(x.todo[1], type) /\ Files(x.todo[2], type)
    /\ \A i \in 2..Len(x.todo) : ~Drops(x.todo[i], type)

Filing(x, type) ==
    /\ Len(x.todo) >= 1 /\ Files(x.todo[1], type)
    /\ Spares(x, type)

\* The paper of the present step.
PaperInHand(x, step, f, d) ==
    LET type == PaperOf[step]
    IN  \/ Stays(x, type, d)
        \/ Uncalled(x, step, f)
        \/ step # "BC" /\ Checking(x, type)
        \/ Replacing(x, type)
        \/ Filing(x, type)

\* The papers of the steps behind are there to stay.  Before BC there is no
\* workflow of BC, and none on the way; a validation of BC has its paper.
Filed(x, step, f, d) ==
    /\ \A s \in PaperSteps : StepBefore(s, step) => Stays(x, PaperOf[s], d)
    /\ StepBefore(step, "BC") =>
            ~Has(f, "BC") /\ \A i \in 1..Len(x.todo) : ~OpensBC(x.todo[i])
    /\ step \in PaperSteps =>
            /\ PaperInHand(x, step, f, d)
            /\ x.op = "validate" /\ x.turn = NoTurn => Stays(x, PaperOf[step], d)

AllFiled ==
    purchase.exists =>
        \A r \in Requests : Filed(req[r], purchase.currentStep, flows, papers.docs)

LEMMA OnlyOneFiled ==
    ASSUME OneRequest, TypeOK, NEW r \in Requests, NEW y,
           req' = [req EXCEPT ![r] = y],
           Filed(y, purchase'.currentStep, flows', papers'.docs)
    PROVE  AllFiled'
<1>1. \A q \in Requests : q = r
  BY DEF OneRequest
<1>2. req'[r] = y
  BY DEF TypeOK
<1>3. QED
  BY <1>1, <1>2 DEF AllFiled

\* What one write does to the papers and to what goes by them.
LEMMA PaperEffects ==
    ASSUME TypeOK, NEW r \in Requests, Continue(r), purchase'.exists
    PROVE  LET w == Head(req[r].todo)
               d == papers.docs
           IN  /\ purchase.exists
               /\ w.do = "dropDocs" => GoesOn(r) /\ papers'.docs = d \ {w.type}
               /\ w.do = "addDoc" => papers'.docs = d \cup {w.type}
               /\ w.do \notin {"dropDocs", "addDoc"} => papers'.docs = d
               /\ \A type \in DocTypes :
                    AsksFor(w, type) => Over(r) \/ type \in d
               /\ Has(flows', "BC") => Has(flows, "BC") \/ OpensBC(w)
               /\ purchase'.currentStep # purchase.currentStep =>
                    MovesStep(w) /\ GoesOn(r) /\ flows' = flows
<1> DEFINE w == Head(req[r].todo)
           d == papers.docs
<1>1. /\ flows \in FlowTable /\ purchase \in Purchase /\ papers \in Papers
      /\ req[r].todo # << >> /\ w \in Write
  <2>1. req[r].todo # << >>
    BY WriteEffects
  <2>2. QED
    BY <2>1 DEF TypeOK, FlowTable, Request
<1>2. Done(r) => GoesOn(r)
  BY <1>1, DoneGoesOn
<1>3. Throw(r) => Over(r)
  BY DEF Throw, Over
<1>4. "BC" \in FlowSteps
  BY DEF FlowSteps
<1>5. CASE CheckPapers(r)
  <2>1. w.do = "require" /\ UNCHANGED << purchase, flows, papers >>
    BY <1>5 DEF CheckPapers, Awaits
  <2>2. ASSUME NEW type \in DocTypes, AsksFor(w, type)
        PROVE  Over(r) \/ type \in d
    <3>1. w.what = type /\ type # "PV"
      BY <2>2 DEF AsksFor, DocTypes
    <3>2. type \in d \/ Throw(r)
      BY <1>5, <3>1 DEF CheckPapers
    <3>3. QED
      BY <1>3, <3>2
  <2>3. QED
    BY <1>5, <2>1, <2>2
<1>6. CASE UpdatePurchase(r)
  <2>1. w.do = "update" /\ UNCHANGED << flows, papers >>
    BY <1>6 DEF UpdatePurchase, Awaits
  <2>2. /\ purchase.exists
        /\ purchase'.currentStep # purchase.currentStep => w.step # Keep /\ Done(r)
    BY <1>1, <1>6 DEF UpdatePurchase, Patch, Purchase
  <2>3. QED
    BY <1>2, <2>1, <2>2 DEF MovesStep, AsksFor
<1>7. CASE RemovePurchase(r)
  <2>1. w.do = "deletePurchase" /\ ~purchase'.exists
    BY <1>1, <1>7 DEF RemovePurchase, Awaits, Purchase
  <2>2. QED
    BY <2>1
<1>8. CASE RemoveItems(r) \/ InsertItems(r)
  <2>1. w.do \in {"deleteItems", "createItems"} /\ UNCHANGED << flows, papers >>
    BY <1>8 DEF RemoveItems, InsertItems, Awaits
  <2>2. purchase.exists /\ purchase'.currentStep = purchase.currentStep
    BY <1>1, <1>8 DEF RemoveItems, InsertItems, Purchase
  <2>3. QED
    BY <2>1, <2>2 DEF AsksFor
<1>9. CASE RemoveFlows(r)
  <2>1. w.do = "deleteFlows" /\ UNCHANGED << purchase, papers >>
    BY <1>9 DEF RemoveFlows, Awaits
  <2>2. Has(flows', "BC") => Has(flows, "BC")
    BY <1>4, <1>9 DEF RemoveFlows, Has, NoFlow
  <2>3. QED
    BY <2>1, <2>2 DEF AsksFor
<1>10. CASE InsertFlow(r)
  <2>1. w.do = "createFlow" /\ UNCHANGED << purchase, papers >>
    BY <1>10 DEF InsertFlow, Awaits
  <2>2. Has(flows', "BC") => Has(flows, "BC") \/ w.step = "BC"
    <3>1. UNCHANGED flows
            \/ flows' = [flows EXCEPT ![w.step] = NewFlow(nextFlow, w.roles, w.signed)]
      BY <1>10 DEF InsertFlow
    <3>2. QED
      BY <1>1, <1>4, <3>1 DEF Has, FlowTable
  <2>3. QED
    BY <2>1, <2>2 DEF AsksFor, OpensBC
<1>11. CASE MarkValidator(r) \/ WriteFlowAdvance(r) \/ ReadFlowToAdvance(r)
  <2>1. /\ w.do \in {"mark", "advanceFlow", "readFlow"}
        /\ UNCHANGED << purchase, papers >>
    BY <1>11 DEF MarkValidator, WriteFlowAdvance, ReadFlowToAdvance, Awaits
  <2>2. SameFlows(flows, flows')
    BY <2>1, WriteEffects
  <2>3. QED
    BY <1>4, <2>1, <2>2 DEF AsksFor, SameFlows, Has
<1>12. CASE WritePapers(r)
  <2>1. w.do \in PaperWrites /\ UNCHANGED << purchase, flows >> /\ purchase.exists
    BY <1>12 DEF WritePapers, Awaits
  <2>2. ASSUME w.do \in {"dropDocs", "addDoc"}
        PROVE  /\ Done(r)
               /\ w.do = "dropDocs" => papers'.docs = d \ {w.type}
               /\ w.do = "addDoc" => papers'.docs = d \cup {w.type}
    <3>1. Done(r) /\ papers' = PapersAfter(w)
      BY <1>12, <2>1, <2>2 DEF WritePapers
    <3>2. CASE w.do = "dropDocs"
      <4>1. PapersAfter(w) = [papers EXCEPT !.docs = d \ {w.type}]
        BY <3>2 DEF PapersAfter
      <4>2. QED
        BY <1>1, <3>1, <3>2, <4>1 DEF Papers
    <3>3. CASE w.do = "addDoc"
      <4>1. PapersAfter(w) = [papers EXCEPT !.docs = d \cup {w.type}]
        BY <3>3 DEF PapersAfter
      <4>2. QED
        BY <1>1, <3>1, <3>3, <4>1 DEF Papers
    <3>4. QED
      BY <2>2, <3>1, <3>2, <3>3
  <2>3. w.do \notin {"dropDocs", "addDoc"} => papers'.docs = d
    <3>1. UNCHANGED papers \/ papers' = PapersAfter(w)
      BY <1>12 DEF WritePapers
    <3>2. w.do \in {"addQuotes", "dropQuote", "createDerogation", "setDerogation",
                    "createPv", "savePv"} => PapersAfter(w).docs = d
      BY <1>1 DEF PapersAfter, Papers
    <3>3. QED
      BY <2>1, <3>1, <3>2 DEF PaperWrites
  <2>4. QED
    BY <1>2, <2>1, <2>2, <2>3 DEF AsksFor, PaperWrites
<1>13. QED
  BY <1>5, <1>6, <1>7, <1>8, <1>9, <1>10, <1>11, <1>12 DEF Continue

\* What is left of a request after one write.
LEMMA LeftAfter ==
    ASSUME TypeOK, NEW r \in Requests, Continue(r)
    PROVE  LET x == req[r]
               y == req'[r]
               n == Len(x.todo)
           IN  /\ req' = [req EXCEPT ![r] = y]
               /\ n \in Nat /\ n >= 1 /\ Head(x.todo) = x.todo[1]
               /\ Over(r) => y = Idle
               /\ y = Idle \/ Goes(x, y)
               /\ GoesOn(r) /\ n >= 2 => Goes(x, y)
               /\ GoesOn(r) /\ n = 1 => y = Idle
               /\ y = Idle => Len(y.todo) = 0
               /\ Goes(x, y) => Len(y.todo) = n - 1
               /\ \A i \in 1..Len(y.todo) : /\ y.todo[i] = x.todo[i + 1]
                                            /\ i + 1 \in 2..n
<1> DEFINE x == req[r]
           y == req'[r]
           n == Len(x.todo)
<1>1. /\ req \in [Requests -> Request] /\ x \in Request
      /\ x.todo # << >>
      /\ Over(r) \/ HasLess(r)
  BY WriteEffects DEF TypeOK
<1>2. /\ n \in Nat /\ n >= 1 /\ Head(x.todo) = x.todo[1]
      /\ \A z : Goes(x, z) =>
            /\ Len(z.todo) = n - 1
            /\ \A i \in 1..Len(z.todo) : z.todo[i] = x.todo[i + 1]
  BY <1>1, LessToDo
<1>3. Over(r) => y = Idle /\ req' = [req EXCEPT ![r] = y]
  BY <1>1 DEF Over
<1>4. HasLess(r) => Goes(x, y) /\ req' = [req EXCEPT ![r] = y]
  <2>1. SUFFICES ASSUME HasLess(r)
                 PROVE  Goes(x, y) /\ req' = [req EXCEPT ![r] = y]
    OBVIOUS
  <2>2. PICK z : Goes(x, z) /\ req' = [req EXCEPT ![r] = z]
    BY <2>1 DEF HasLess
  <2>3. y = z
    BY <1>1, <2>2
  <2>4. QED
    BY <2>2, <2>3
<1>5. y = Idle => Len(y.todo) = 0
  BY DEF Idle
<1> HIDE DEF y, x
<1>6. GoesOn(r) => IF n = 1 THEN Over(r) ELSE HasLess(r)
  BY DEF GoesOn, x
<1>7. \A i \in 1..Len(y.todo) : y.todo[i] = x.todo[i + 1] /\ i + 1 \in 2..n
  <2>1. CASE y = Idle
    BY <1>5, <2>1
  <2>2. CASE Goes(x, y)
    BY <1>2, <2>2
  <2>3. QED
    BY <1>1, <1>3, <1>4, <2>1, <2>2
<1> HIDE DEF n
<1>8. /\ req' = [req EXCEPT ![r] = y]
      /\ n \in Nat /\ n >= 1 /\ Head(x.todo) = x.todo[1]
      /\ Over(r) => y = Idle
      /\ y = Idle \/ Goes(x, y)
      /\ GoesOn(r) /\ n >= 2 => Goes(x, y)
      /\ GoesOn(r) /\ n = 1 => y = Idle
      /\ y = Idle => Len(y.todo) = 0
      /\ Goes(x, y) => Len(y.todo) = n - 1
  <2>1. n # 1 => ~(n = 1)
    OBVIOUS
  <2>2. n >= 2 => n # 1
    BY <1>2
  <2>3. QED
    BY <1>1, <1>2, <1>3, <1>4, <1>5, <1>6, <2>2 DEF n
<1>9. QED
  BY <1>7, <1>8 DEF n, x, y

\* A paper that is there to stay stays.
LEMMA StaysOn ==
    ASSUME TypeOK, NEW r \in Requests, Continue(r), purchase'.exists,
           NEW type \in DocTypes, Stays(req[r], type, papers.docs)
    PROVE  Stays(req'[r], type, papers'.docs)
<1> DEFINE x == req[r]
           y == req'[r]
           n == Len(x.todo)
           w == Head(x.todo)
           d == papers.docs
<1>1. /\ n \in Nat /\ n >= 1 /\ w = x.todo[1]
      /\ \A i \in 1..Len(y.todo) : y.todo[i] = x.todo[i + 1] /\ i + 1 \in 2..n
  BY LeftAfter
<1>2. /\ w.do = "dropDocs" => papers'.docs = d \ {w.type}
      /\ w.do = "addDoc" => papers'.docs = d \cup {w.type}
      /\ w.do \notin {"dropDocs", "addDoc"} => papers'.docs = d
  BY PaperEffects
<1>3. type \in d /\ \A i \in 1..n : ~Drops(x.todo[i], type)
  BY DEF Stays, Spares
<1> HIDE DEF x, y, n, w, d
<1>4. 1 \in 1..n
  BY <1>1
<1>5. ~Drops(w, type)
  BY <1>1, <1>3, <1>4
<1>6. type \in papers'.docs
  BY <1>2, <1>3, <1>5 DEF Drops
<1>7. \A i \in 1..Len(y.todo) : ~Drops(y.todo[i], type)
  <2>1. \A i \in 2..n : i \in 1..n
    BY <1>1
  <2>2. QED
    BY <1>1, <1>3, <2>1
<1>8. QED
  BY <1>6, <1>7 DEF Stays, Spares, y

\* The paper of the step stays in hand, as long as the step is.
LEMMA InHandOn ==
    ASSUME TypeOK, NEW r \in Requests, Continue(r), purchase'.exists,
           NEW step \in PaperSteps, PaperInHand(req[r], step, flows, papers.docs)
    PROVE  PaperInHand(req'[r], step, flows', papers'.docs)
<1> DEFINE x == req[r]
           y == req'[r]
           n == Len(x.todo)
           w == Head(x.todo)
           d == papers.docs
           type == PaperOf[step]
<1>1. /\ n \in Nat /\ n >= 1 /\ w = x.todo[1]
      /\ Over(r) => y = Idle
      /\ y = Idle \/ Goes(x, y)
      /\ GoesOn(r) /\ n >= 2 => Goes(x, y)
      /\ y = Idle => Len(y.todo) = 0
      /\ Goes(x, y) => Len(y.todo) = n - 1
      /\ \A i \in 1..Len(y.todo) : y.todo[i] = x.todo[i + 1] /\ i + 1 \in 2..n
  BY LeftAfter
<1>2. /\ w.do = "dropDocs" => GoesOn(r) /\ papers'.docs = d \ {w.type}
      /\ w.do = "addDoc" => papers'.docs = d \cup {w.type}
      /\ w.do \notin {"dropDocs", "addDoc"} => papers'.docs = d
      /\ AsksFor(w, type) => Over(r) \/ type \in d
      /\ Has(flows', "BC") => Has(flows, "BC") \/ OpensBC(w)
  <2>1. type \in DocTypes
    BY DEF PaperOf, PaperSteps, DocTypeOf, DocTypes
  <2> HIDE DEF type
  <2>2. QED
    BY <2>1, PaperEffects
<1>3. 1 \in 1..n /\ \A i \in 2..n : i \in 1..n
  BY <1>1
<1>4. type \in DocTypes
  BY DEF PaperOf, PaperSteps, DocTypeOf, DocTypes
<1>5. CASE Stays(x, type, d)
  BY <1>4, <1>5, StaysOn DEF PaperInHand
<1> HIDE DEF type
<1>6. CASE Uncalled(x, step, flows)
  <2>1. /\ step = "BC" => ~Has(flows, "BC")
        /\ \A i \in 1..n : ~MovesStep(x.todo[i]) /\ ~OpensBC(x.todo[i])
    BY <1>6 DEF Uncalled
  <2> HIDE DEF x, y, n, w, d
  <2>2. ~OpensBC(w)
    BY <1>1, <1>3, <2>1
  <2>3. \A i \in 1..Len(y.todo) : ~MovesStep(y.todo[i]) /\ ~OpensBC(y.todo[i])
    BY <1>1, <1>3, <2>1
  <2>4. Uncalled(y, step, flows')
    BY <1>2, <2>1, <2>2, <2>3 DEF Uncalled
  <2>5. QED
    BY <2>4 DEF PaperInHand, y
<1>7. CASE step # "BC" /\ Checking(x, type)
  <2>1. AsksFor(w, type) /\ \A i \in 1..n : ~Drops(x.todo[i], type)
    BY <1>1, <1>7 DEF Checking, Spares
  <2>2. CASE y = Idle
    <3>1. Len(y.todo) = 0
      BY <1>1, <2>2
    <3>2. \A i \in 1..Len(y.todo) : FALSE
      BY <3>1
    <3> HIDE DEF y
    <3>3. Uncalled(y, step, flows')
      BY <1>7, <3>2 DEF Uncalled
    <3>4. QED
      BY <3>3 DEF PaperInHand, y
  <2>3. CASE y # Idle
    <3> HIDE DEF x, y, n, w, d
    <3>1. type \in papers'.docs
      BY <1>1, <1>2, <2>1, <2>3 DEF AsksFor
    <3>2. \A i \in 1..Len(y.todo) : ~Drops(y.todo[i], type)
      BY <1>1, <1>3, <2>1
    <3>3. Stays(y, type, papers'.docs)
      BY <3>1, <3>2 DEF Stays, Spares
    <3>4. QED
      BY <3>3 DEF PaperInHand, y, type
  <2>4. QED
    BY <2>2, <2>3
<1>8. CASE Replacing(x, type)
  <2>1. /\ n >= 2 /\ Drops(w, type) /\ Files(x.todo[2], type)
        /\ \A i \in 2..n : ~Drops(x.todo[i], type)
    BY <1>1, <1>8 DEF Replacing
  <2> HIDE DEF x, y, n, w, d
  <2>2. Goes(x, y)
    BY <1>1, <1>2, <2>1 DEF Drops
  <2>3. Len(y.todo) >= 1 /\ 1 \in 1..Len(y.todo)
    BY <1>1, <2>1, <2>2
  <2>4. y.todo[1] = x.todo[2]
    <3>1. y.todo[1] = x.todo[1 + 1]
      BY <1>1, <2>3
    <3>2. QED
      BY <3>1
  <2>5. Spares(y, type)
    BY <1>1, <2>1 DEF Spares
  <2>6. Filing(y, type)
    BY <2>1, <2>3, <2>4, <2>5 DEF Filing
  <2>7. QED
    BY <2>6 DEF PaperInHand, y, type
<1>9. CASE Filing(x, type)
  <2>1. Files(w, type) /\ \A i \in 1..n : ~Drops(x.todo[i], type)
    BY <1>1, <1>9 DEF Filing, Spares
  <2> HIDE DEF x, y, n, w, d
  <2>2. type \in papers'.docs
    BY <1>2, <2>1 DEF Files
  <2>3. Spares(y, type)
    BY <1>1, <1>3, <2>1 DEF Spares
  <2>4. Stays(y, type, papers'.docs)
    BY <2>2, <2>3 DEF Stays
  <2>5. QED
    BY <2>4 DEF PaperInHand, y, type
<1>10. PaperInHand(x, step, flows, d)
  OBVIOUS
<1>11. QED
  BY <1>5, <1>6, <1>7, <1>8, <1>9, <1>10 DEF PaperInHand, type

LEMMA PaperTypes ==
    /\ \A s \in PaperSteps : PaperOf[s] \in DocTypes /\ s \in Steps
    /\ \A s \in PaperSteps, t \in PaperSteps : PaperOf[s] = PaperOf[t] => s = t
  BY DEF PaperOf, PaperSteps, DocTypeOf, DocTypes, Steps

\* With one request there is nobody else who could take a paper away.
LEMMA FiledContinues ==
    ASSUME OneRequest, TypeOK, StepsOrdered, AllFiled,
           NEW r \in Requests, Continue(r)
    PROVE  AllFiled'
<1> DEFINE x == req[r]
           y == req'[r]
           n == Len(x.todo)
           w == Head(x.todo)
           d == papers.docs
           p == purchase.currentStep
           q == purchase'.currentStep
<1>1. CASE ~purchase'.exists
  BY <1>1 DEF AllFiled
<1>2. CASE purchase'.exists
  <2>1. Filed(x, p, flows, d) /\ p \in Steps
    BY <1>2, PaperEffects DEF AllFiled, TypeOK, Purchase
  <2>2. /\ req' = [req EXCEPT ![r] = y]
        /\ n \in Nat /\ n >= 1 /\ w = x.todo[1]
        /\ y = Idle \/ Goes(x, y)
        /\ GoesOn(r) /\ n = 1 => y = Idle
        /\ y = Idle => Len(y.todo) = 0
        /\ \A i \in 1..Len(y.todo) : y.todo[i] = x.todo[i + 1] /\ i + 1 \in 2..n
    BY LeftAfter
  <2>3. /\ Has(flows', "BC") => Has(flows, "BC") \/ OpensBC(w)
        /\ q # p => MovesStep(w) /\ GoesOn(r) /\ flows' = flows
    BY <1>2, PaperEffects
  <2>4. \A type \in DocTypes : Stays(x, type, d) => Stays(y, type, papers'.docs)
    BY <1>2, StaysOn
  <2>5. 1 \in 1..n /\ \A i \in 2..n : i \in 1..n
    BY <2>2
  <2>6. /\ \A s \in PaperSteps : StepBefore(s, p) => Stays(x, PaperOf[s], d)
        /\ StepBefore(p, "BC") =>
                ~Has(flows, "BC") /\ \A i \in 1..n : ~OpensBC(x.todo[i])
        /\ p \in PaperSteps =>
                /\ PaperInHand(x, p, flows, d)
                /\ x.op = "validate" /\ x.turn = NoTurn => Stays(x, PaperOf[p], d)
    BY <2>1 DEF Filed
  <2>7. y = Idle => ~(y.op = "validate")
    BY DEF Idle
  <2>8. Goes(x, y) => y.op = x.op /\ y.turn = x.turn
    BY DEF Goes
  <2>9. OrderedRequest(x, p)
    BY DEF StepsOrdered
  <2>10. q \in Steps
    BY ContinueType DEF TypeOK, Purchase
  <2>11. ASSUME Filed(y, q, flows', papers'.docs)
         PROVE  AllFiled'
    BY <2>2, <2>11, OnlyOneFiled
  <2>12. CASE q = p
    <3>1. \A s \in PaperSteps : StepBefore(s, q) => Stays(y, PaperOf[s], papers'.docs)
      BY <2>4, <2>6, <2>12, PaperTypes
    <3>2. StepBefore(q, "BC") =>
                ~Has(flows', "BC") /\ \A i \in 1..Len(y.todo) : ~OpensBC(y.todo[i])
      <4> HIDE DEF x, y, n, w, d, p, q
      <4>1. QED
        BY <2>2, <2>3, <2>5, <2>6, <2>12
    <3>3. q \in PaperSteps => PaperInHand(y, q, flows', papers'.docs)
      BY <1>2, <2>6, <2>12, InHandOn
    <3>4. q \in PaperSteps /\ y.op = "validate" /\ y.turn = NoTurn
            => Stays(y, PaperOf[q], papers'.docs)
      <4> HIDE DEF x, y, n, w, d, p, q
      <4>1. QED
        BY <2>2, <2>4, <2>6, <2>7, <2>8, <2>12, PaperTypes
    <3> HIDE DEF x, y, n, w, d, p, q
    <3>5. Filed(y, q, flows', papers'.docs)
      BY <3>1, <3>2, <3>3, <3>4 DEF Filed
    <3>6. QED
      BY <2>11, <3>5
  <2>13. CASE q # p
    <3>1. MovesStep(w) /\ n = 1 /\ StepNumber[w.step] = StepNumber[p] + 1
      BY <2>2, <2>3, <2>5, <2>9, <2>13 DEF OrderedRequest
    <3>2. y = Idle /\ Len(y.todo) = 0
      BY <2>2, <2>3, <2>13, <3>1
    <3>3. w.step = q
      <4>1. w.do = "update"
        BY <3>1 DEF MovesStep
      <4>2. q = Patch(p, w.step)
        BY <1>2, <2>13, <4>1, WriteEffects
      <4>3. QED
        BY <3>1, <4>2 DEF Patch, MovesStep
    <3>4. StepNumber[q] = StepNumber[p] + 1
      BY <3>1, <3>3
    <3>5. \A s \in PaperSteps : StepBefore(s, q) => StepBefore(s, p) \/ s = p
      <4>1. \A s \in PaperSteps : StepNumber[s] < StepNumber[p] + 1
                => StepNumber[s] < StepNumber[p] \/ s = p
        BY <2>1, PaperTypes DEF StepNumber, Steps
      <4>2. QED
        BY <3>4, <4>1 DEF StepBefore
    <3>6. p \in PaperSteps => Stays(x, PaperOf[p], d)
      <4> HIDE DEF x, y, n, w, d, p, q
      <4>1. ASSUME NEW type
            PROVE  ~AsksFor(w, type) /\ ~Drops(w, type) /\ ~Files(w, type)
        BY <3>1 DEF MovesStep, AsksFor, Drops, Files
      <4>2. ~Uncalled(x, p, flows)
        BY <2>2, <2>5, <3>1 DEF Uncalled, n
      <4>3. QED
        BY <2>2, <2>6, <4>1, <4>2 DEF PaperInHand, Checking, Replacing, Filing
    <3>7. \A s \in PaperSteps : StepBefore(s, q) => Stays(y, PaperOf[s], papers'.docs)
      <4> HIDE DEF x, y, n, w, d, p, q
      <4>1. QED
        BY <2>4, <2>6, <3>5, <3>6, PaperTypes
    <3>8. StepBefore(q, "BC") \/ q = "BC" => ~Has(flows', "BC")
      <4>1. q = "BC" \/ StepBefore(q, "BC") => StepBefore(p, "BC")
        <5>1. /\ StepNumber[p] \in Nat /\ StepNumber[q] \in Nat
              /\ StepNumber["BC"] \in Nat
          BY <2>1, <2>10, SuccessorsType DEF Steps
        <5> HIDE DEF p, q
        <5>2. QED
          BY <3>4, <5>1 DEF StepBefore
      <4>2. flows' = flows
        BY <2>3, <2>13
      <4>3. QED
        BY <2>6, <4>1, <4>2
    <3> HIDE DEF x, y, n, w, d, p, q
    <3>9. \A i \in 1..Len(y.todo) : FALSE
      BY <3>2
    <3>10. PaperInHand(y, q, flows', papers'.docs)
      <4>1. Uncalled(y, q, flows')
        BY <3>8, <3>9 DEF Uncalled
      <4>2. QED
        BY <4>1 DEF PaperInHand
    <3>11. Filed(y, q, flows', papers'.docs)
      BY <2>7, <3>2, <3>7, <3>8, <3>9, <3>10 DEF Filed
    <3>12. QED
      BY <2>11, <3>11
  <2>14. QED
    BY <2>12, <2>13
<1>3. QED
  BY <1>1, <1>2

\* What a request that has nothing to write says of the papers.
LEMMA PapersAtRest ==
    ASSUME AllFiled, purchase.exists, NEW r \in Requests, req[r].todo = << >>
    PROVE  LET p == purchase.currentStep
               d == papers.docs
           IN  /\ \A s \in PaperSteps : StepBefore(s, p) => PaperOf[s] \in d
               /\ StepBefore(p, "BC") => ~Has(flows, "BC")
               /\ p \in PaperSteps =>
                    /\ PaperOf[p] \in d \/ (p = "BC" => ~Has(flows, "BC"))
                    /\ req[r].op = "validate" /\ req[r].turn = NoTurn
                            => PaperOf[p] \in d
<1> DEFINE x == req[r]
           p == purchase.currentStep
           d == papers.docs
<1>1. Filed(x, p, flows, d) /\ Len(x.todo) = 0
  BY DEF AllFiled
<1> HIDE DEF x, p, d
<1>2. p \in PaperSteps => Stays(x, PaperOf[p], d) \/ Uncalled(x, p, flows)
  BY <1>1 DEF Filed, PaperInHand, Checking, Replacing, Filing
<1>3. /\ \A s \in PaperSteps : StepBefore(s, p) => PaperOf[s] \in d
      /\ StepBefore(p, "BC") => ~Has(flows, "BC")
      /\ p \in PaperSteps /\ x.op = "validate" /\ x.turn = NoTurn => PaperOf[p] \in d
  BY <1>1 DEF Filed, Stays
<1>4. p \in PaperSteps => PaperOf[p] \in d \/ (p = "BC" => ~Has(flows, "BC"))
  BY <1>2 DEF Stays, Uncalled
<1>5. QED
  BY <1>3, <1>4 DEF x, p, d

\* A request takes up a list.
LEMMA TakesUp ==
    ASSUME OneRequest, TypeOK, AllFiled, NEW r \in Requests, req[r].todo = << >>,
           UNCHANGED << purchase, flows, papers >>,
           NEW y, req' = [req EXCEPT ![r] = y],
           LET p == purchase.currentStep
           IN  /\ StepBefore(p, "BC") =>
                    \A i \in 1..Len(y.todo) : ~OpensBC(y.todo[i])
               /\ \A s \in PaperSteps : StepBefore(s, p) => Spares(y, PaperOf[s])
               /\ p \in PaperSteps =>
                    /\ PaperInHand(y, p, flows, papers.docs)
                    /\ y.op = "validate" /\ y.turn = NoTurn
                            => Stays(y, PaperOf[p], papers.docs)
    PROVE  AllFiled'
<1>1. CASE ~purchase.exists
  BY <1>1 DEF AllFiled
<1>2. CASE purchase.exists
  <2> DEFINE p == purchase.currentStep
             d == papers.docs
  <2>1. /\ \A s \in PaperSteps : StepBefore(s, p) => PaperOf[s] \in d
        /\ StepBefore(p, "BC") => ~Has(flows, "BC")
    BY <1>2, PapersAtRest
  <2>2. Filed(y, p, flows, d)
    BY <2>1 DEF Filed, Stays
  <2>3. QED
    BY <2>2, OnlyOneFiled
<1>3. QED
  BY <1>1, <1>2

\* A list that throws no paper away and opens no workflow of BC does no harm,
\* unless it moves the purchase without its paper.
Gentle(w) == w.do # "dropDocs" /\ ~OpensBC(w)

LEMMA GentleFiled ==
    ASSUME OneRequest, TypeOK, AllFiled, NEW r \in Requests, req[r].todo = << >>,
           UNCHANGED << purchase, flows, papers >>,
           NEW y, req' = [req EXCEPT ![r] = y],
           \A i \in 1..Len(y.todo) : Gentle(y.todo[i]),
           purchase.exists =>
            LET p == purchase.currentStep
            IN  p \in PaperSteps =>
                    \/ PaperOf[p] \in papers.docs
                    \/ /\ ~(y.op = "validate" /\ y.turn = NoTurn)
                       /\ \A i \in 1..Len(y.todo) : ~MovesStep(y.todo[i])
    PROVE  AllFiled'
<1>1. CASE ~purchase.exists
  BY <1>1 DEF AllFiled
<1>2. CASE purchase.exists
  <2> DEFINE p == purchase.currentStep
             d == papers.docs
  <2>1. \A type : Spares(y, type)
    BY DEF Spares, Drops, Gentle
  <2>2. \A i \in 1..Len(y.todo) : ~OpensBC(y.todo[i])
    BY DEF Gentle
  <2>3. p \in PaperSteps => PaperOf[p] \in d \/ (p = "BC" => ~Has(flows, "BC"))
    BY <1>2, PapersAtRest
  <2>4. p \in PaperSteps /\ PaperOf[p] \notin d => Uncalled(y, p, flows)
    BY <1>2, <2>2, <2>3 DEF Uncalled
  <2>5. p \in PaperSteps /\ PaperOf[p] \in d => Stays(y, PaperOf[p], d)
    BY <2>1 DEF Stays
  <2>6. p \in PaperSteps => PaperInHand(y, p, flows, d)
    BY <2>4, <2>5 DEF PaperInHand
  <2>7. p \in PaperSteps /\ y.op = "validate" /\ y.turn = NoTurn
            => Stays(y, PaperOf[p], d)
    BY <1>2, <2>5
  <2>8. QED
    BY <2>1, <2>2, <2>6, <2>7, TakesUp
<1>3. QED
  BY <1>1, <1>2

LEMMA RunsInertFiled ==
    ASSUME OneRequest, TypeOK, AllFiled, NEW r \in Requests, req[r].todo = << >>,
           RunsInert(r)
    PROVE  AllFiled'
<1>1. PICK op \in Endpoints \ ApprovalOps, w \in Seq(Inert) : Runs(r, op, w)
  BY DEF RunsInert
<1> DEFINE y == Planned(op, w)
<1>2. y.op = op /\ y.todo = w /\ op # "validate"
  BY DEF Planned, Idle, ApprovalOps
<1>3. /\ req' = [req EXCEPT ![r] = y]
      /\ UNCHANGED << purchase, flows, papers >>
  BY <1>1 DEF Runs
<1> HIDE DEF y
<1>4. \A i \in 1..Len(w) : w[i] \in Inert
  BY <1>1, ElementOfSeq
<1>5. \A v \in Inert : Gentle(v) /\ ~MovesStep(v)
  BY DEF Inert, Still, Gentle, MovesStep
<1>6. QED
  BY <1>2, <1>3, <1>4, <1>5, GentleFiled

\* The endpoints that remove an attachment.
Removing == {"deleteAttachment", "deleteQuote"}

LEMMA SourcingFiled ==
    ASSUME OneRequest, Operations \cap Removing = {}, TypeOK, AllFiled,
           NEW r \in Requests, AuthoringNext(r) \/ SourcingNext(r)
    PROVE  AllFiled'
<1>1. req[r].todo = << >>
  <2>1. AuthoringNext(r) => req[r] = Idle
    BY DEF AuthoringNext, AddPurchaseItems, UpdatePurchaseFields,
           PublishPurchaseForValidation, UpdateAndRepublishPurchase,
           DeleteDraftPurchase, StartsFlow, Starts
  <2>2. SourcingNext(r) => req[r] = Idle
    BY DEF SourcingNext, UploadQuotes, DeleteQuote, SubmitQuotesForValidation,
           ValidateQuotesAndProceed, RequestQuoteDerogation, ValidateDerogation,
           CreatePV, UpdatePV, StartsFlow, Starts
  <2>3. QED
    BY <2>1, <2>2 DEF Idle
<1>2. ~DeleteQuote(r)
  BY DEF DeleteQuote, AtStep, Starts, Removing
<1>3. CASE RunsInert(r)
  BY <1>1, <1>3, RunsInertFiled
<1>4. CASE ValidateQuotesAndProceed(r)
  <2> DEFINE move == MoveTo("PV", "VALIDATED")
             y == Planned("proceedWithQuotes", << move >>)
  <2>1. /\ req' = [req EXCEPT ![r] = y]
        /\ UNCHANGED << purchase, flows, papers >>
        /\ purchase.currentStep \notin PaperSteps
    BY <1>4 DEF ValidateQuotesAndProceed, Runs, AtStep, PaperSteps
  <2>2. y.todo = << move >> /\ Gentle(move)
    BY DEF Planned, Idle, MoveTo, Update, Gentle, OpensBC
  <2> HIDE DEF y, move
  <2>3. \A i \in 1..Len(y.todo) : Gentle(y.todo[i])
    BY <2>2
  <2>4. QED
    BY <1>1, <2>1, <2>3, GentleFiled
<1>5. QED
  BY <1>2, <1>3, <1>4, AuthoringRuns, SourcingRuns

\* An upload drops the paper that it files next; the other papers it leaves.
LEMMA ReplacesFiled ==
    ASSUME OneRequest, TypeOK, AllFiled, NEW r \in Requests, req[r].todo = << >>,
           NEW op, NEW type \in DocTypes, NEW w,
           Runs(r, op, w), op # "validate",
           Len(w) \in Nat, Len(w) >= 2,
           w[1] = DropDocs(type), w[2] = AddDoc(type),
           \A i \in 3..Len(w) : w[i].do # "dropDocs",
           StepBefore(purchase.currentStep, "BC") =>
                \A i \in 3..Len(w) : ~OpensBC(w[i]),
           \A s \in PaperSteps :
                StepBefore(s, purchase.currentStep) => PaperOf[s] # type,
           purchase.currentStep \in PaperSteps =>
                PaperOf[purchase.currentStep] = type
    PROVE  AllFiled'
<1> DEFINE y == Planned(op, w)
           p == purchase.currentStep
<1>1. y.op = op /\ y.todo = w
  BY DEF Planned, Idle
<1>2. /\ req' = [req EXCEPT ![r] = y]
      /\ UNCHANGED << purchase, flows, papers >>
  BY DEF Runs
<1>3. /\ w[1].do = "dropDocs" /\ w[1].type = type
      /\ w[2].do = "addDoc" /\ w[2].type = type
  BY DEF DropDocs, AddDoc
<1> HIDE DEF y, p
<1>4. \A i \in 1..Len(w) : i = 1 \/ i = 2 \/ i \in 3..Len(w)
  OBVIOUS
<1>5. \A i \in 2..Len(w) : i = 2 \/ i \in 3..Len(w)
  OBVIOUS
<1>6. Replacing(y, type)
  <2>1. \A i \in 2..Len(w) : w[i].do # "dropDocs"
    BY <1>3, <1>5
  <2>2. QED
    BY <1>1, <1>3, <2>1 DEF Replacing, Drops, Files
<1>7. \A s \in PaperSteps : StepBefore(s, p) => Spares(y, PaperOf[s])
  <2>1. \A i \in 1..Len(w) : \A t : Drops(w[i], t) => t = type
    BY <1>3, <1>4 DEF Drops
  <2>2. QED
    BY <1>1, <2>1 DEF Spares, p
<1>8. StepBefore(p, "BC") => \A i \in 1..Len(y.todo) : ~OpensBC(y.todo[i])
  BY <1>1, <1>3, <1>4 DEF OpensBC, p
<1>9. p \in PaperSteps => PaperInHand(y, p, flows, papers.docs)
  BY <1>6 DEF PaperInHand, p
<1>10. QED
  BY <1>1, <1>2, <1>7, <1>8, <1>9, TakesUp DEF p

\* One that looks for the paper of its step, and moves on.
LEMMA ChecksFiled ==
    ASSUME OneRequest, TypeOK, AllFiled, NEW r \in Requests, req[r].todo = << >>,
           NEW op, NEW w, NEW move \in Plain,
           Runs(r, op, w), op # "validate", StepMove(move),
           purchase.currentStep \in PaperSteps \ {"BC"},
           LET type == PaperOf[purchase.currentStep]
           IN  \/ w = << Require(type) >> \o << move >>
               \/ w = << move >> /\ type \in papers.docs
    PROVE  AllFiled'
<1> DEFINE y == Planned(op, w)
           p == purchase.currentStep
           type == PaperOf[p]
           check == Require(type)
<1>1. y.op = op /\ y.todo = w
  BY DEF Planned, Idle
<1>2. /\ req' = [req EXCEPT ![r] = y]
      /\ UNCHANGED << purchase, flows, papers >>
  BY DEF Runs
<1>3. check.do = "require" /\ check.what = type
  BY DEF Require
<1>4. move.do = "update"
  BY DEF StepMove
<1>5. Gentle(check) /\ Gentle(move)
  BY <1>3, <1>4 DEF Gentle, OpensBC
<1>6. CASE w = << move >> /\ type \in papers.docs
  <2>1. \A i \in 1..Len(y.todo) : Gentle(y.todo[i])
    BY <1>1, <1>5, <1>6
  <2> HIDE DEF y
  <2>2. QED
    BY <1>1, <1>2, <1>6, <2>1, GentleFiled
<1>7. CASE w = << check >> \o << move >>
  <2> HIDE DEF y, p, type, check
  <2>1. w = << check, move >>
    BY <1>7, JoinedLists
  <2>2. Len(w) = 2 /\ w[1] = check /\ w[2] = move
    BY <2>1
  <2>3. \A i \in 1..Len(w) : w[i] = check \/ w[i] = move
    BY <2>1
  <2>4. /\ \A t : Spares(y, t)
        /\ \A i \in 1..Len(y.todo) : ~OpensBC(y.todo[i])
    BY <1>1, <1>5, <2>3 DEF Spares, Drops, Gentle
  <2>5. Checking(y, type)
    BY <1>1, <1>3, <2>2, <2>4 DEF Checking, AsksFor
  <2>6. PaperInHand(y, p, flows, papers.docs)
    BY <2>5 DEF PaperInHand, type, p
  <2>7. QED
    BY <1>1, <1>2, <2>4, <2>6, TakesUp DEF p
<1>8. QED
  BY <1>6, <1>7

LEMMA DocumentsFiled ==
    ASSUME OneRequest, Operations \cap Removing = {}, TypeOK, AllFiled,
           NEW r \in Requests, DocumentsNext(r)
    PROVE  AllFiled'
<1> DEFINE p == purchase.currentStep
<1>1. req[r].todo = << >>
  BY DEF DocumentsNext, UploadBC, UploadDocument, SubmitDocument,
         SubmitForValidation, CreateAttachment, DeleteAttachment,
         StartsFlow, Starts, Idle
<1>2. /\ \A step \in FlowSteps \ {"BC"} : AskApproval(step) \in Seq(Inert)
      /\ \A status \in Statuses : SetStatus(status) \in Inert
  <2>1. \A status \in Statuses : SetStatus(status) \in Inert
    BY InertWrites
  <2>2. ASSUME NEW step \in FlowSteps \ {"BC"}
        PROVE  AskApproval(step) \in Seq(Inert)
    <3>1. RequireValidators(step, purchase.operationType, purchase.amount)
                \in Seq(Roles)
      BY RolesNow, SuccessorsType
    <3>2. ChainFor(step) \in Inert
      BY <3>1, InertWrites DEF ChainFor
    <3>3. SetStatus("PENDING_APPROVAL") \in Inert
      BY <2>1 DEF Statuses
    <3>4. QED
      BY <3>2, <3>3, PairType DEF AskApproval
  <2>3. QED
    BY <2>1, <2>2
<1>3. /\ p \in DOMAIN DocTypeOf =>
            /\ p \in (PaperSteps \ {"BC"}) \cup {"DAP"}
            /\ p \in PaperSteps => PaperOf[p] = DocTypeOf[p]
            /\ DocTypeOf[p] \in DocTypes
            /\ \A s \in PaperSteps : s # p => PaperOf[s] # DocTypeOf[p]
            /\ ~StepBefore(p, "BC")
      /\ \A s \in PaperSteps : ~StepBefore(s, s) /\ ~StepBefore(s, "BC")
      /\ "BC" \in PaperSteps /\ PaperOf["BC"] = "PURCHASE_ORDER"
  BY DEF DocTypeOf, PaperSteps, PaperOf, DocTypes, StepBefore, StepNumber, Steps
<1>4. /\ \A type : DropDocs(type).do = "dropDocs" /\ AddDoc(type).do = "addDoc"
      /\ \A status : SetStatus(status).do = "update"
      /\ \A steps : DeleteFlows(steps).do = "deleteFlows"
      /\ ChainFor("BC").do = "createFlow"
  BY DEF DropDocs, AddDoc, SetStatus, Update, DeleteFlows, ChainFor, CreateFlow
<1>5. CASE UploadBC(r)
  <2> DEFINE a == DropDocs("PURCHASE_ORDER")
             b == AddDoc("PURCHASE_ORDER")
             c == DeleteFlows({"BC"})
             e == ChainFor("BC")
             f == SetStatus("PENDING_APPROVAL")
             w == << a, b, c, e, f >>
  <2>1. p = "BC" /\ Runs(r, "uploadBC", << a, b, c >> \o << e, f >>)
    BY <1>5 DEF UploadBC, AskApproval
  <2>2. c.do # "dropDocs" /\ e.do # "dropDocs" /\ f.do # "dropDocs"
    BY <1>4
  <2> HIDE DEF a, b, c, e, f
  <2>3. << a, b, c >> \o << e, f >> = w
    BY JoinedLists
  <2>4. /\ Len(w) = 5 /\ w[1] = a /\ w[2] = b
        /\ w[3] = c /\ w[4] = e /\ w[5] = f
    OBVIOUS
  <2> HIDE DEF w
  <2>5. \A i \in 3..5 : i = 3 \/ i = 4 \/ i = 5
    OBVIOUS
  <2>6. \A i \in 3..Len(w) : w[i].do # "dropDocs"
    BY <2>2, <2>4, <2>5
  <2>7. "PURCHASE_ORDER" \in DocTypes /\ Len(w) \in Nat /\ Len(w) >= 2
    BY <2>4 DEF DocTypes
  <2>8. ~StepBefore(p, "BC") /\ \A s \in PaperSteps : ~StepBefore(s, p)
    BY <1>3, <2>1
  <2>9. Runs(r, "uploadBC", w)
    BY <2>1, <2>3
  <2>10. QED
    BY <1>1, <1>3, <2>1, <2>4, <2>6, <2>7, <2>8, <2>9, ReplacesFiled DEF a, b
<1>6. CASE UploadDocument(r)
  <2> DEFINE type == DocTypeOf[p]
             a == DropDocs(type)
             b == AddDoc(type)
             c == SetStatus("AWAITING_DOCUMENTS")
             w == << a, b, c >>
  <2>1. p \in DOMAIN DocTypeOf /\ Runs(r, "uploadDocument", w)
    BY <1>6 DEF UploadDocument
  <2>2. c.do = "update"
    BY <1>4
  <2> HIDE DEF a, b, c
  <2>3. Len(w) = 3 /\ w[1] = a /\ w[2] = b /\ w[3] = c
    OBVIOUS
  <2> HIDE DEF w
  <2>4. \A i \in 3..3 : i = 3
    OBVIOUS
  <2>5. \A i \in 3..Len(w) : w[i].do # "dropDocs"
    BY <2>2, <2>3, <2>4
  <2>6. /\ \A s \in PaperSteps : StepBefore(s, p) => PaperOf[s] # type
        /\ p \in PaperSteps => PaperOf[p] = type
        /\ type \in DocTypes /\ ~StepBefore(p, "BC")
    BY <1>3, <2>1
  <2>7. Len(w) \in Nat /\ Len(w) >= 2
    BY <2>3
  <2>8. w[1] = DropDocs(type) /\ w[2] = AddDoc(type)
    BY <2>3 DEF a, b
  <2> HIDE DEF type
  <2>9. QED
    BY <1>1, <2>1, <2>5, <2>6, <2>7, <2>8, ReplacesFiled
<1>7. CASE SubmitDocument(r)
  <2>1. p \in DOMAIN DocTypeOf
    BY <1>7 DEF SubmitDocument
  <2>2. CASE p = "DAP"
    <3> DEFINE w == << Require(DocTypeOf[p]) >>
                    \o (<< DeleteFlows({"DAP"}) >> \o AskApproval("DAP"))
    <3>1. Runs(r, "submitDocument", w)
      BY <1>7, <2>2 DEF SubmitDocument
    <3>2. << Require(DocTypeOf[p]) >> \in Seq(Inert)
      BY <1>3, <2>1, InertWrites
    <3>3. << DeleteFlows({"DAP"}) >> \in Seq(Inert)
      BY InertWrites DEF FlowSteps
    <3>4. AskApproval("DAP") \in Seq(Inert)
      BY <1>2 DEF FlowSteps
    <3>5. w \in Seq(Inert)
      BY <3>2, <3>3, <3>4, ConcatProperties
    <3> HIDE DEF w
    <3>6. RunsInert(r)
      BY <3>1, <3>5 DEF RunsInert, ApprovalOps, Endpoints
    <3>7. QED
      BY <1>1, <3>6, RunsInertFiled
  <2>3. CASE p # "DAP"
    <3>1. p \in PaperSteps \ {"BC"} /\ p \in {"BR", "INVOICE", "PROOF_OF_PAYMENT"}
      BY <1>3, <2>1, <2>3 DEF PaperSteps
    <3>2. PICK move \in Plain : StepMove(move) /\ EnterNext(p) = << move >>
      BY <3>1, EnterNextMoves
    <3>3. Runs(r, "submitDocument", << Require(PaperOf[p]) >> \o << move >>)
      BY <1>3, <1>7, <2>1, <2>3, <3>1, <3>2 DEF SubmitDocument
    <3>4. QED
      BY <1>1, <3>1, <3>2, <3>3, ChecksFiled
  <2>4. QED
    BY <2>2, <2>3
<1>8. CASE SubmitForValidation(r)
  <2>1. PICK w \in SubmitWrites : Runs(r, "submitForValidation", w)
    BY <1>8 DEF SubmitForValidation
  <2>2. \/ p = "PV" /\ w = << Require("PV") >> \o AskApproval("PV")
        \/ p = "BC" /\ "PURCHASE_ORDER" \in papers.docs /\ w = AskApproval("BC")
        \/ p = "DAP" /\ w = AskApproval("DAP")
        \/ /\ p \in {"BR", "INVOICE", "PROOF_OF_PAYMENT"}
           /\ DocTypeOf[p] \in papers.docs /\ w = EnterNext(p)
    BY <2>1 DEF SubmitWrites
  <2>3. CASE w \in Seq(Inert)
    <3>1. RunsInert(r)
      BY <2>1, <2>3 DEF RunsInert, ApprovalOps, Endpoints
    <3>2. QED
      BY <1>1, <3>1, RunsInertFiled
  <2>4. CASE p = "PV" /\ w = << Require("PV") >> \o AskApproval("PV")
    <3>1. << Require("PV") >> \in Seq(Inert)
      BY InertWrites
    <3>2. AskApproval("PV") \in Seq(Inert)
      BY <1>2 DEF FlowSteps
    <3>3. w \in Seq(Inert)
      BY <2>4, <3>1, <3>2, ConcatProperties
    <3>4. QED
      BY <2>3, <3>3
  <2>5. CASE p = "DAP" /\ w = AskApproval("DAP")
    <3>1. w \in Seq(Inert)
      BY <1>2, <2>5 DEF FlowSteps
    <3>2. QED
      BY <2>3, <3>1
  <2>6. CASE p = "BC" /\ "PURCHASE_ORDER" \in papers.docs /\ w = AskApproval("BC")
    <3> DEFINE a == ChainFor("BC")
               b == SetStatus("PENDING_APPROVAL")
               y == Planned("submitForValidation", w)
    <3>1. w = << a, b >>
      BY <2>6 DEF AskApproval
    <3>2. a.do # "dropDocs" /\ b.do # "dropDocs"
      BY <1>4
    <3>3. /\ req' = [req EXCEPT ![r] = y]
          /\ UNCHANGED << purchase, flows, papers >>
      BY <2>1 DEF Runs
    <3>4. y.op # "validate" /\ y.todo = w
      BY DEF Planned, Idle
    <3> HIDE DEF a, b, y
    <3>5. \A i \in 1..Len(w) : w[i] = a \/ w[i] = b
      BY <3>1
    <3>6. \A type : Spares(y, type)
      BY <3>2, <3>4, <3>5 DEF Spares, Drops
    <3>7. ~StepBefore(p, "BC")
      BY <1>3, <2>6
    <3>8. PaperInHand(y, p, flows, papers.docs)
      BY <1>3, <2>6, <3>6 DEF PaperInHand, Stays
    <3>9. QED
      BY <1>1, <3>3, <3>4, <3>6, <3>7, <3>8, TakesUp
  <2>7. CASE /\ p \in {"BR", "INVOICE", "PROOF_OF_PAYMENT"}
             /\ DocTypeOf[p] \in papers.docs /\ w = EnterNext(p)
    <3>1. /\ p \in PaperSteps \ {"BC"}
          /\ PaperOf[p] \in papers.docs
      BY <2>7 DEF PaperSteps, PaperOf
    <3>2. PICK move \in Plain : StepMove(move) /\ EnterNext(p) = << move >>
      BY <2>7, EnterNextMoves
    <3>3. QED
      BY <1>1, <2>1, <2>7, <3>1, <3>2, ChecksFiled
  <2>8. QED
    BY <2>2, <2>4, <2>5, <2>6, <2>7
<1>9. CASE CreateAttachment(r)
  <2>1. \A type \in DocTypes : << AddDoc(type) >> \in Seq(Inert)
    BY InertWrites
  <2>2. << AddQuotes(1) >> \in Seq(Inert)
    BY InertWrites
  <2>3. RunsInert(r)
    BY <1>9, <2>1, <2>2 DEF CreateAttachment, RunsInert, ApprovalOps, Endpoints
  <2>4. QED
    BY <1>1, <2>3, RunsInertFiled
<1>10. ~DeleteAttachment(r)
  BY DEF DeleteAttachment, Starts, Removing
<1>11. QED
  BY <1>5, <1>6, <1>7, <1>8, <1>9, <1>10 DEF DocumentsNext

LEMMA ApprovalFiled ==
    ASSUME OneRequest, TypeOK, AllFiled, NEW r \in Requests, ApprovalNext(r)
    PROVE  AllFiled'
<1> DEFINE p == purchase.currentStep
<1>1. /\ req \in [Requests -> Request] /\ req[r] \in Request
      /\ req[r].turn \in Turn /\ req[r].seen \in Snapshot
  BY DEF TypeOK, Request
<1>2. UNCHANGED << purchase, flows, papers >>
  BY DEF ApprovalNext, ValidateAuthFirst, ValidateLoadFirst, ValidateLoad,
         ValidateAuth, RefuseAuth, RefuseLoad, RefuseTurn
<1>3. req[r].todo = << >>
  <2>1. Idle.todo = << >>
    BY DEF Idle
  <2>2. req[r] = Idle \/ req[r].todo = << >>
    BY DEF ApprovalNext, ValidateAuthFirst, ValidateLoadFirst, ValidateLoad,
           ValidateAuth, RefuseAuth, RefuseLoad, RefuseTurn, Starts
  <2>3. QED
    BY <2>1, <2>2
<1>4. ASSUME NEW y, req' = [req EXCEPT ![r] = y], Len(y.todo) = 0,
             ~(y.op = "validate" /\ y.turn = NoTurn)
      PROVE  AllFiled'
  <2>1. \A i \in 1..Len(y.todo) : FALSE
    BY <1>4
  <2>2. QED
    BY <1>2, <1>3, <1>4, <2>1, GentleFiled
<1>5. CASE Throw(r)
  <2>1. Len(Idle.todo) = 0 /\ Idle.op # "validate"
    BY DEF Idle
  <2>2. QED
    BY <1>4, <1>5, <2>1 DEF Throw
<1>6. Len(<< >>) = 0
  OBVIOUS
\* A workflow of BC vouches for the purchase order.
<1>7. AwaitsValidation /\ p \in PaperSteps => PaperOf[p] \in papers.docs
  <2>1. PaperSteps \cap FlowSteps = {"BC"}
    BY DEF PaperSteps, FlowSteps
  <2>2. SUFFICES ASSUME AwaitsValidation, p \in PaperSteps
                 PROVE  PaperOf[p] \in papers.docs
    OBVIOUS
  <2>3. p = "BC" /\ Has(flows, "BC") /\ purchase.exists
    BY <2>1, <2>2 DEF AwaitsValidation, Has, Exists
  <2>4. QED
    BY <1>3, <2>2, <2>3, PapersAtRest
<1>8. ASSUME NEW turn \in Turn, NEW seen \in Snapshot,
             NEW w \in ValidationWrites(turn, seen),
             req' = [req EXCEPT ![r] = Validating(seen, w)],
             purchase.exists /\ p \in PaperSteps => PaperOf[p] \in papers.docs
      PROVE  AllFiled'
  <2> DEFINE y == Validating(seen, w)
  <2>1. y.todo = w
    BY DEF Validating, Planned, Idle
  <2>2. \A v \in ValidationParts(turn, seen) : Gentle(v)
    BY DEF ValidationParts, OwnWrites, MarkOf, Mark, ReadFlow, AdvanceFlow,
           SetStatus, MoveTo, Update, Gentle, OpensBC
  <2>3. \A i \in 1..Len(w) : Gentle(w[i])
    BY <2>2, ValidationInParts, ElementOfSeq
  <2> HIDE DEF y
  <2>4. \A i \in 1..Len(y.todo) : Gentle(y.todo[i])
    BY <2>1, <2>3
  <2>5. req' = [req EXCEPT ![r] = y]
    BY <1>8 DEF y
  <2>6. QED
    BY <1>2, <1>3, <1>8, <2>4, <2>5, GentleFiled
<1>9. CASE ValidateAuthFirst(r)
  <2>1. PICK turn \in AuthorisedTurns :
            req' = [req EXCEPT ![r].op = "validate", ![r].turn = turn]
    BY <1>9 DEF ValidateAuthFirst
  <2> DEFINE y == [req[r] EXCEPT !.op = "validate", !.turn = turn]
  <2>2. req' = [req EXCEPT ![r] = y]
    BY <1>1, <2>1
  <2>3. y.turn = turn /\ y.todo = << >>
    BY <1>1, <1>3 DEF Request
  <2>4. turn # NoTurn
    <3>1. turn.id # 0
      BY DEF AuthorisedTurns, TurnOf, IsLatest, Exists
    <3>2. QED
      BY <3>1 DEF NoTurn
  <2> HIDE DEF y
  <2>5. QED
    BY <1>4, <1>6, <2>2, <2>3, <2>4
<1>10. CASE ValidateLoadFirst(r)
  <2> DEFINE y == [req[r] EXCEPT !.op = "validate", !.seen = LoadedSnapshot]
  <2>1. req' = [req EXCEPT ![r] = y] /\ AwaitsValidation
    BY <1>1, <1>10 DEF ValidateLoadFirst
  <2>2. y.todo = << >>
    BY <1>1, <1>3 DEF Request
  <2> HIDE DEF y
  <2>3. \A i \in 1..Len(y.todo) : FALSE
    BY <1>6, <2>2
  <2>4. QED
    BY <1>2, <1>3, <1>7, <2>1, <2>3, GentleFiled
<1>11. CASE ValidateLoad(r) /\ ~Throw(r)
  <2>1. PICK w \in ValidationWrites(req[r].turn, LoadedSnapshot) :
            /\ AwaitsValidation
            /\ req' = [req EXCEPT ![r] = Validating(LoadedSnapshot, w)]
    BY <1>11 DEF ValidateLoad
  <2>2. LoadedSnapshot \in Snapshot
    BY <2>1, SnapshotType
  <2>3. QED
    BY <1>1, <1>7, <1>8, <2>1, <2>2
<1>12. CASE ValidateAuth(r) /\ ~Throw(r)
  <2>1. PICK turn \in AuthorisedTurns :
            \E w \in ValidationWrites(turn, req[r].seen) :
                req' = [req EXCEPT ![r] = Validating(req[r].seen, w)]
    BY <1>12 DEF ValidateAuth
  <2>2. req[r].op = "validate" /\ req[r].turn = NoTurn
    BY <1>12 DEF ValidateAuth
  <2>3. purchase.exists /\ p \in PaperSteps => PaperOf[p] \in papers.docs
    BY <1>3, <2>2, PapersAtRest
  <2>4. turn \in Turn
    BY TurnsType
  <2>5. QED
    BY <1>1, <1>8, <2>1, <2>3, <2>4
<1>13. CASE RefuseAuth(r)
  <2>1. PICK op \in {"reject", "requestChanges"}, turn \in AuthorisedTurns :
            req' = [req EXCEPT ![r].op = op, ![r].turn.role = turn.role]
    BY <1>13 DEF RefuseAuth
  <2> DEFINE y == [req[r] EXCEPT !.op = op, !.turn.role = turn.role]
  <2>2. req' = [req EXCEPT ![r] = y]
    BY <1>1, <2>1
  <2>3. y.todo = << >> /\ y.op = op
    BY <1>1, <1>3 DEF Request
  <2> HIDE DEF y
  <2>4. QED
    BY <1>4, <1>6, <2>2, <2>3
<1>14. CASE RefuseLoad(r) /\ ~Throw(r)
  <2> DEFINE y == [req[r] EXCEPT !.seen = LoadedSnapshot]
  <2>1. /\ req' = [req EXCEPT ![r] = y]
        /\ req[r].op \in {"reject", "requestChanges"}
    BY <1>1, <1>14 DEF RefuseLoad
  <2>2. y.todo = << >> /\ y.op = req[r].op
    BY <1>1, <1>3 DEF Request
  <2> HIDE DEF y
  <2>3. QED
    BY <1>4, <1>6, <2>1, <2>2
<1>15. CASE RefuseTurn(r) /\ ~Throw(r)
  <2> DEFINE s == req[r].seen.step
             decision == DecisionOf(req[r].op)
             mark(i) == Mark(s, flows[s].id, i, decision)
             close == Close(decision)
  <2>1. PICK i \in 1..Len(flows[s].validators) :
            req' = [req EXCEPT ![r] = Planned(req[r].op, << mark(i), close >>)]
    BY <1>15 DEF RefuseTurn
  <2>2. req[r].op \in {"reject", "requestChanges"}
    BY <1>15 DEF RefuseTurn
  <2> DEFINE m == mark(i)
             y == Planned(req[r].op, << m, close >>)
  <2>3. y.todo = << m, close >> /\ y.op = req[r].op
    BY DEF Planned, Idle
  <2>4. Gentle(m) /\ Gentle(close) /\ ~MovesStep(m) /\ ~MovesStep(close)
    BY DEF Mark, Close, Update, Gentle, OpensBC, MovesStep
  <2>5. req' = [req EXCEPT ![r] = y]
    BY <2>1
  <2> HIDE DEF y, m, mark, close, decision
  <2>6. \A j \in 1..Len(y.todo) : Gentle(y.todo[j]) /\ ~MovesStep(y.todo[j])
    <3>1. \A j \in 1..Len(y.todo) : y.todo[j] = m \/ y.todo[j] = close
      BY <2>3
    <3>2. QED
      BY <2>4, <3>1
  <2>7. QED
    BY <1>2, <1>3, <2>2, <2>3, <2>5, <2>6, GentleFiled
<1>16. QED
  BY <1>5, <1>9, <1>10, <1>11, <1>12, <1>13, <1>14, <1>15 DEF ApprovalNext

LEMMA InitFiled == Init => AllFiled
<1>1. SUFFICES ASSUME NEW start \in StartSteps, NEW op \in StartTypes,
                      NEW amount \in Amounts, InitAt(start, op, amount),
                      req = [r \in Requests |-> Idle]
               PROVE  AllFiled
  BY DEF Init
<1>2. start \in {"DA", "QR", "PV", "BC", "DAP"}
  BY StartAssumption
<1>3. /\ purchase.currentStep = start
      /\ papers.docs = {d \in {"PURCHASE_ORDER", "DELIVERY_NOTE", "INVOICE"} :
                            start = "DAP"}
  BY <1>1 DEF InitAt
<1>4. /\ \A s \in PaperSteps : StepBefore(s, start) => PaperOf[s] \in papers.docs
      /\ start \notin PaperSteps \/ start = "BC"
  BY <1>2, <1>3 DEF PaperSteps, PaperOf, DocTypeOf, StepBefore, StepNumber, Steps
<1>5. StepBefore(start, "BC") \/ start = "BC" => ~Has(flows, "BC")
  <2>1. StepBefore(start, "BC") \/ start = "BC" => ~StepBefore("BC", start)
    BY <1>2 DEF StepBefore, StepNumber, Steps
  <2>2. ~StepBefore("BC", start) => flows["BC"] = NoFlow
    BY <1>1 DEF InitAt, FlowSteps
  <2>3. QED
    BY <2>1, <2>2 DEF Has, NoFlow
<1>6. Len(Idle.todo) = 0 /\ Idle.op = "idle"
  BY DEF Idle
<1>7. \A i \in 1..Len(Idle.todo) : FALSE
  BY <1>6
<1>8. Filed(Idle, start, flows, papers.docs)
  <2>1. \A s \in PaperSteps :
            StepBefore(s, start) => Stays(Idle, PaperOf[s], papers.docs)
    BY <1>4, <1>7 DEF Stays, Spares
  <2>2. start \in PaperSteps => Uncalled(Idle, start, flows)
    BY <1>4, <1>5, <1>7 DEF Uncalled
  <2>3. QED
    BY <1>5, <1>6, <1>7, <2>1, <2>2 DEF Filed, PaperInHand
<1>9. QED
  BY <1>1, <1>3, <1>8 DEF AllFiled

LEMMA StepFiled ==
    ASSUME OneRequest, ~CanFail, Operations \cap Removing = {},
           TypeOK, StepsOrdered, AllFiled, [Next]_vars
    PROVE  AllFiled'
<1>1. CASE UNCHANGED vars
  BY <1>1 DEF vars, AllFiled
<1>2. CASE \E r \in Requests : ApprovalNext(r)
  BY <1>2, ApprovalFiled
<1>3. CASE \E r \in Requests :
            AuthoringNext(r) \/ SourcingNext(r) \/ DocumentsNext(r)
  BY <1>3, SourcingFiled, DocumentsFiled
<1>4. CASE \E r \in Requests : Continue(r)
  BY <1>4, FiledContinues
<1>5. CASE \E r \in Requests : Fail(r)
  BY <1>5 DEF Fail
<1>6. QED
  BY <1>1, <1>2, <1>3, <1>4, <1>5 DEF Next

\* Between requests the papers of the steps behind the purchase are there: no
\* step is left without its paper, and no later upload takes one away, as
\* long as nobody deletes attachments and no request dies half-way.
THEOREM PapersStay ==
    ASSUME OneRequest, Requests # {}, ~CanFail, Operations \cap Removing = {}
    PROVE  Spec => []PaperTrail
<1>1. Init => TypeOK /\ StepsOrdered /\ AllFiled
  BY InitType, InitFiled, IdleOrdered DEF Init, StepsOrdered
<1>2. TypeOK /\ StepsOrdered /\ AllFiled /\ [Next]_vars
        => TypeOK' /\ StepsOrdered' /\ AllFiled'
  BY StepType, StepOrdered, StepFiled
<1>3. TypeOK /\ AllFiled => PaperTrail
  <2>1. SUFFICES ASSUME TypeOK, AllFiled, Quiet, purchase.exists
                 PROVE  \A s \in PaperSteps :
                            StepBefore(s, purchase.currentStep)
                            => PaperOf[s] \in papers.docs
    BY DEF PaperTrail, PaperSteps, PaperOf, DocTypeOf
  <2>2. PICK r \in Requests : req[r] = Idle
    BY <2>1 DEF Quiet
  <2>3. req[r].todo = << >>
    BY <2>2 DEF Idle
  <2>4. QED
    BY <2>1, <2>3, PapersAtRest
<1>4. QED
  BY <1>1, <1>2, <1>3, PTL DEF Spec

=============================================================================
