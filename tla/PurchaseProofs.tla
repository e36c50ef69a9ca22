--------------------------- MODULE PurchaseProofs ---------------------------
(***************************************************************************)
(* Proofs about the purchase, for any set of concurrent requests, any      *)
(* amounts, any bounds and with or without failures.                       *)
(***************************************************************************)
EXTENDS PurchaseProperties, SequenceTheorems, TLAPS

-----------------------------------------------------------------------------
(* The static tables.                                                      *)

Rules == [minAmount : SUBSET Nat, maxAmount : SUBSET Nat, roles : Seq(Roles)]

\* Every configured step has one rule or two, whose roles are in the enum.
LEMMA StepRulesType ==
    ASSUME NEW step \in ConfiguredSteps, NEW op \in OperationTypes
    PROVE  /\ StepRules(step, op) \in Seq(Rules)
           /\ StepRules(step, op) # << >>
<1>1. /\ FieldChain(op) \in Seq(Roles)
      /\ DirectionChain(op) \in Seq(Roles)
  <2>1. /\ << "DEMANDEUR", "OM", "RFR", "CPR" >> \in Seq(Roles)
        /\ << "DEMANDEUR", "RFR", "CPR" >> \in Seq(Roles)
        /\ << "DEMANDEUR", "OM", "CFO", "CEO" >> \in Seq(Roles)
        /\ << "DEMANDEUR", "DP", "CFO", "CEO" >> \in Seq(Roles)
    BY DEF Roles
  <2>2. QED
    BY <2>1 DEF FieldChain, DirectionChain
<1>2. ASSUME NEW s \in Seq(Roles)
      PROVE  Always(s) \in Seq(Rules) /\ Always(s) # << >>
  BY <1>2 DEF Always, Rule, Rules
<1>3. ASSUME NEW s \in Seq(Roles), NEW t \in Seq(Roles)
      PROVE  ByAmount(s, t) \in Seq(Rules) /\ ByAmount(s, t) # << >>
  BY <1>3 DEF ByAmount, Rule, Rules, Threshold
<1>4. /\ << "OM", "CFO", "CEO", "DEMANDEUR" >> \in Seq(Roles)
      /\ << "OM", "DP", "CFO", "CEO", "DEMANDEUR" >> \in Seq(Roles)
      /\ << "DEMANDEUR", "OM", "CFO", "DP", "CEO" >> \in Seq(Roles)
      /\ << "OM", "RFR", "CPR" >> \in Seq(Roles)
      /\ << "ACHETEUR", "OM", "CFO" >> \in Seq(Roles)
  BY DEF Roles
<1>5. CASE step \in {"DA", "INVOICE"}
  BY <1>5, <1>1, <1>3 DEF StepRules
<1>6. CASE step = "QR"
  BY <1>6, <1>2, <1>4 DEF StepRules
<1>7. CASE step = "PV"
  BY <1>7, <1>1, <1>3, <1>4 DEF StepRules
<1>8. CASE step = "BC"
  BY <1>8, <1>2, <1>4 DEF StepRules
<1>9. CASE step = "DAP"
  BY <1>9, <1>2, <1>4 DEF StepRules
<1>10. QED
  BY <1>5, <1>6, <1>7, <1>8, <1>9 DEF ConfiguredSteps

\* Whatever the amount, getRequireValidators returns a list of roles.
LEMMA RequireValidatorsType ==
    ASSUME NEW step \in ConfiguredSteps, NEW op \in OperationTypes,
           NEW amount \in Nat
    PROVE  RequireValidators(step, op, amount) \in Seq(Roles)
<1> DEFINE rules == StepRules(step, op)
           First(i) == /\ IsAmountInRange(amount, rules[i])
                       /\ \A j \in 1..(i - 1) : ~IsAmountInRange(amount, rules[j])
<1>1. rules \in Seq(Rules) /\ rules # << >>
  BY StepRulesType
<1>2. \A i \in DOMAIN rules : rules[i].roles \in Seq(Roles)
  <2>1. \A i \in DOMAIN rules : rules[i] \in Rules
    BY <1>1, ElementOfSeq
  <2>2. QED
    BY <2>1 DEF Rules
<1>3. 1 \in DOMAIN rules
  BY <1>1
<1>4. CASE \E i \in DOMAIN rules : First(i)
  <2>1. (CHOOSE i \in DOMAIN rules : First(i)) \in DOMAIN rules
    BY <1>4
  <2>2. RequireValidators(step, op, amount)
            = rules[CHOOSE i \in DOMAIN rules : First(i)].roles
    BY <1>4 DEF RequireValidators
  <2>3. QED
    BY <1>2, <2>1, <2>2
<1>5. CASE ~ \E i \in DOMAIN rules : First(i)
  <2>1. RequireValidators(step, op, amount) = rules[1].roles
    BY <1>5 DEF RequireValidators
  <2>2. QED
    BY <1>2, <1>3, <2>1
<1>6. QED
  BY <1>4, <1>5

\* The maps stay within the steps, the entry status within the statuses.
LEMMA SuccessorsType ==
    /\ \A s \in Steps \ {"BR", "DONE"} : NextStepMap[s] \in Steps
    /\ \A s \in {"BR", "INVOICE", "PROOF_OF_PAYMENT"} :
            NextDocumentStep[s] \in Steps
    /\ \A s \in Steps : StatusOnEntry(s) \in Statuses
    /\ \A s \in Steps : StepNumber[s] \in Nat \ {0}
    /\ FlowSteps \subseteq Steps \ {"BR", "DONE"}
    /\ FlowSteps \subseteq ConfiguredSteps
  BY DEF NextStepMap, NextDocumentStep, StatusOnEntry, StepNumber, Steps,
         Statuses, FlowSteps, ConfiguredSteps

-----------------------------------------------------------------------------
(* Types of the writes and of the requests.                                *)

\* The writes that neither decide nor advance a workflow.
Plain == {w \in Write : w.do \notin {"mark", "readFlow", "advanceFlow"}}

\* Of these, the writes that leave the purchase at its step.
Still == {w \in Plain : w.do = "update" => w.step = Keep}

\* Of those again, the ones that drop no document and open no workflow of BC.
OpensBC(w) == w.do = "createFlow" /\ w.step = "BC"

Inert == {w \in Still : w.do # "dropDocs" /\ ~OpensBC(w)}

\* Every kind of write that a handler puts on its list is a write.
LEMMA WritesType ==
    /\ \A step \in Steps \cup {Keep}, status \in Statuses \cup {Keep},
          closed \in {"set", "clear", Keep}, op \in OperationTypes \cup {Keep} :
            Update(step, status, closed, op) \in Plain
    /\ \A status \in Statuses \cup {Keep}, closed \in {"set", "clear", Keep},
          op \in OperationTypes \cup {Keep} :
            Update(Keep, status, closed, op) \in Still
    /\ \A step \in FlowSteps, id \in Nat, order \in Nat,
          decision \in Decisions \ {"none"} :
            Mark(step, id, order, decision) \in Write
    /\ \A step \in FlowSteps, id \in Nat :
            ReadFlow(step, id) \in Write /\ AdvanceFlow(step, id) \in Write
    /\ \A step \in FlowSteps, roles \in Seq(Roles), signed \in BOOLEAN :
            CreateFlow(step, roles, signed) \in Still
    /\ \A steps \in SUBSET FlowSteps : DeleteFlows(steps) \in Still
    /\ {DeletePurchase, DeleteItems, DropQuote} \subseteq Still
    /\ \A amount \in Nat : CreateItems(amount) \in Still
    /\ \A n \in Nat : AddQuotes(n) \in Still
    /\ \A type \in DocTypes : AddDoc(type) \in Still /\ DropDocs(type) \in Still
    /\ \A status \in {"PENDING", "VALIDATED", "REJECTED"} :
            CreateDerogation(status) \in Still /\ SetDerogation(status) \in Still
    /\ \A pv \in {"empty", "filled"} :
            CreatePv(pv) \in Still /\ SavePv(pv) \in Still
    /\ \A what \in DocTypes \cup {"PV"} : Require(what) \in Still
<1>1. \A step \in Steps \cup {Keep}, status \in Statuses \cup {Keep},
          closed \in {"set", "clear", Keep}, op \in OperationTypes \cup {Keep} :
            Update(step, status, closed, op) \in Plain
  BY DEF Update, Write, Plain
<1>13. \A status \in Statuses \cup {Keep}, closed \in {"set", "clear", Keep},
          op \in OperationTypes \cup {Keep} :
            Update(Keep, status, closed, op) \in Still
  BY DEF Update, Write, Plain, Still
<1>2. \A step \in FlowSteps, id \in Nat, order \in Nat,
          decision \in Decisions \ {"none"} :
            Mark(step, id, order, decision) \in Write
  BY DEF Mark, Write
<1>3. \A step \in FlowSteps, id \in Nat :
            ReadFlow(step, id) \in Write /\ AdvanceFlow(step, id) \in Write
  BY DEF ReadFlow, AdvanceFlow, Write
<1>4. \A step \in FlowSteps, roles \in Seq(Roles), signed \in BOOLEAN :
            CreateFlow(step, roles, signed) \in Still
  BY DEF CreateFlow, Write, Plain, Still
<1>5. \A steps \in SUBSET FlowSteps : DeleteFlows(steps) \in Still
  BY DEF DeleteFlows, Write, Plain, Still
<1>6. {DeletePurchase, DeleteItems, DropQuote} \subseteq Still
  BY DEF DeletePurchase, DeleteItems, DropQuote, Write, Plain, Still
<1>7. \A n \in Nat : CreateItems(n) \in Still /\ AddQuotes(n) \in Still
  BY DEF CreateItems, AddQuotes, Write, Plain, Still
<1>8. \A type \in DocTypes : AddDoc(type) \in Still /\ DropDocs(type) \in Still
  BY DEF AddDoc, DropDocs, Write, Plain, Still
<1>9. \A status \in {"PENDING", "VALIDATED", "REJECTED"} :
            CreateDerogation(status) \in Still /\ SetDerogation(status) \in Still
  BY DEF CreateDerogation, SetDerogation, Write, Plain, Still
<1>10. \A pv \in {"empty", "filled"} :
            CreatePv(pv) \in Still /\ SavePv(pv) \in Still
  BY DEF CreatePv, SavePv, Write, Plain, Still
<1>11. \A what \in DocTypes \cup {"PV"} : Require(what) \in Still
  BY DEF Require, Write, Plain, Still
<1>12. QED
  BY <1>1, <1>2, <1>3, <1>4, <1>5, <1>6, <1>7, <1>8, <1>9, <1>10, <1>11, <1>13

\* All but two of the kinds that stay at the step are inert.
LEMMA InertWrites ==
    /\ Inert \subseteq Still /\ Seq(Inert) \subseteq Seq(Still)
    /\ \A status \in Statuses \cup {Keep}, closed \in {"set", "clear", Keep},
          op \in OperationTypes \cup {Keep} :
            Update(Keep, status, closed, op) \in Inert
    /\ \A step \in FlowSteps \ {"BC"}, roles \in Seq(Roles), signed \in BOOLEAN :
            CreateFlow(step, roles, signed) \in Inert
    /\ \A steps \in SUBSET FlowSteps : DeleteFlows(steps) \in Inert
    /\ {DeletePurchase, DeleteItems, DropQuote} \subseteq Inert
    /\ \A amount \in Nat : CreateItems(amount) \in Inert
    /\ \A n \in Nat : AddQuotes(n) \in Inert
    /\ \A type \in DocTypes : AddDoc(type) \in Inert
    /\ \A status \in {"PENDING", "VALIDATED", "REJECTED"} :
            CreateDerogation(status) \in Inert /\ SetDerogation(status) \in Inert
    /\ \A pv \in {"empty", "filled"} :
            CreatePv(pv) \in Inert /\ SavePv(pv) \in Inert
    /\ \A what \in DocTypes \cup {"PV"} : Require(what) \in Inert
    /\ \A status \in Statuses : SetStatus(status) \in Inert /\ Close(status) \in Inert
<1>1. Inert \subseteq Still /\ Seq(Inert) \subseteq Seq(Still)
  <2>1. Inert \subseteq Still
    BY DEF Inert
  <2>2. QED
    BY <2>1, SeqMonotonic
<1>2. \A status \in Statuses \cup {Keep}, closed \in {"set", "clear", Keep},
          op \in OperationTypes \cup {Keep} :
            Update(Keep, status, closed, op) \in Inert
  BY WritesType DEF Inert, OpensBC, Update
<1>3. \A step \in FlowSteps \ {"BC"}, roles \in Seq(Roles), signed \in BOOLEAN :
            CreateFlow(step, roles, signed) \in Inert
  BY WritesType DEF Inert, OpensBC, CreateFlow
<1>4. \A steps \in SUBSET FlowSteps : DeleteFlows(steps) \in Inert
  BY WritesType DEF Inert, OpensBC, DeleteFlows
<1>5. {DeletePurchase, DeleteItems, DropQuote} \subseteq Inert
  BY WritesType DEF Inert, OpensBC, DeletePurchase, DeleteItems, DropQuote
<1>6. /\ \A amount \in Nat : CreateItems(amount) \in Inert
      /\ \A n \in Nat : AddQuotes(n) \in Inert
  BY WritesType DEF Inert, OpensBC, CreateItems, AddQuotes
<1>7. \A type \in DocTypes : AddDoc(type) \in Inert
  BY WritesType DEF Inert, OpensBC, AddDoc
<1>8. \A status \in {"PENDING", "VALIDATED", "REJECTED"} :
            CreateDerogation(status) \in Inert /\ SetDerogation(status) \in Inert
  BY WritesType DEF Inert, OpensBC, CreateDerogation, SetDerogation
<1>9. \A pv \in {"empty", "filled"} :
            CreatePv(pv) \in Inert /\ SavePv(pv) \in Inert
  BY WritesType DEF Inert, OpensBC, CreatePv, SavePv
<1>10. \A what \in DocTypes \cup {"PV"} : Require(what) \in Inert
  BY WritesType DEF Inert, OpensBC, Require
<1>11. \A status \in Statuses : SetStatus(status) \in Inert /\ Close(status) \in Inert
  BY <1>2 DEF SetStatus, Close
<1>12. QED
  BY <1>1, <1>2, <1>3, <1>4, <1>5, <1>6, <1>7, <1>8, <1>9, <1>10, <1>11

LEMMA PairType ==
    ASSUME NEW S, NEW v \in S, NEW w \in S
    PROVE  << v, w >> \in Seq(S)
  OBVIOUS

LEMMA PlainLists ==
    /\ Still \subseteq Plain /\ Seq(Still) \subseteq Seq(Plain)
    /\ Plain \subseteq Write /\ Seq(Plain) \subseteq Seq(Write)
<1>1. Still \subseteq Plain /\ Plain \subseteq Write
  BY DEF Plain, Still
<1>2. QED
  BY <1>1, SeqMonotonic

LEMMA StatusWritesType ==
    \A status \in Statuses : SetStatus(status) \in Still /\ Close(status) \in Still
  BY WritesType DEF SetStatus, Close

\* What the executing actions may read off a write, by its kind.
LEMMA WriteFields ==
    ASSUME NEW w \in Write
    PROVE  /\ w.do = "update" =>
                /\ w.step \in Steps \cup {Keep}
                /\ w.status \in Statuses \cup {Keep}
                /\ w.operationType \in OperationTypes \cup {Keep}
           /\ w.do = "mark" =>
                /\ w.step \in FlowSteps
                /\ w.id \in Nat
                /\ w.order \in Nat
                /\ w.decision \in Decisions \ {"none"}
           /\ w.do \in {"readFlow", "advanceFlow"} =>
                w.step \in FlowSteps /\ w.id \in Nat
           /\ w.do = "createFlow" =>
                /\ w.step \in FlowSteps
                /\ w.roles \in Seq(Roles)
                /\ w.signed \in BOOLEAN
           /\ w.do = "createItems" => w.amount \in Nat
           /\ w.do = "addQuotes" => w.count \in Nat
           /\ w.do \in {"addDoc", "dropDocs"} => w.type \in DocTypes
           /\ w.do \in {"createDerogation", "setDerogation"} =>
                w.status \in {"PENDING", "VALIDATED", "REJECTED"}
           /\ w.do \in {"createPv", "savePv"} => w.pv \in {"empty", "filled"}
  BY DEF Write

LEMMA IdleType == Idle \in Request
<1>1. NoTurn \in Turn
  BY DEF NoTurn, Turn, FlowSteps, Roles
<1>2. NotLoaded \in Snapshot
  BY DEF NotLoaded, Snapshot, FlowSteps, Statuses
<1>3. << >> \in Seq(Write)
  OBVIOUS
<1>4. QED
  BY <1>1, <1>2, <1>3 DEF Idle, Request

LEMMA PlannedType ==
    ASSUME NEW op \in Endpoints, NEW w \in Seq(Write)
    PROVE  Planned(op, w) \in Request
  BY IdleType DEF Planned, Request

\* The next write of a request is a write, of the kind the action asks for.
LEMMA NextWriteType ==
    ASSUME TypeOK, NEW r \in Requests, NEW do, Awaits(r, do)
    PROVE  /\ Head(req[r].todo) \in Write
           /\ Head(req[r].todo).do = do
           /\ req[r].todo \in Seq(Write)
           /\ req[r].todo # << >>
  BY DEF TypeOK, Request, Awaits

\* Whether a write is done or throws, the requests stay well-formed.
LEMMA AnsweredType ==
    ASSUME TypeOK, NEW r \in Requests
    PROVE  /\ Throw(r) => req' \in [Requests -> Request]
           /\ Done(r) /\ req[r].todo # << >> => req' \in [Requests -> Request]
<1>1. Throw(r) => req' \in [Requests -> Request]
  BY IdleType DEF Throw, TypeOK
<1>2. ASSUME Done(r), req[r].todo # << >>
      PROVE  req' \in [Requests -> Request]
  <2>1. /\ req[r].todo \in Seq(Write)
        /\ req[r] \in Request
    BY DEF TypeOK, Request
  <2>2. Tail(req[r].todo) \in Seq(Write)
    BY <1>2, <2>1
  <2>3. [req[r] EXCEPT !.todo = Tail(req[r].todo)] \in Request
    BY <2>1, <2>2 DEF Request
  <2>4. QED
    BY <1>2, <2>3, IdleType DEF Done, TypeOK
<1>3. QED
  BY <1>1, <1>2

-----------------------------------------------------------------------------
(* TypeOK is inductive.                                                    *)

LEMMA InitType == Init => TypeOK
<1>1. SUFFICES ASSUME NEW start \in StartSteps, NEW op \in StartTypes,
                      NEW amount \in Amounts,
                      InitAt(start, op, amount),
                      req = [r \in Requests |-> Idle]
               PROVE  TypeOK
  BY DEF Init
<1>2. /\ start \in {"DA", "QR", "PV", "BC", "DAP"}
      /\ op \in OperationTypes
      /\ amount \in Nat
  BY StartAssumption, AmountsAssumption
<1>3. start \in Steps
  BY <1>2 DEF Steps
<1>4. purchase \in Purchase
  BY <1>1, <1>2, <1>3, SuccessorsType DEF InitAt, Purchase, Statuses
<1>5. ASSUME NEW s \in FlowSteps
      PROVE  SignedFlow(s, op, amount) \in Workflow
  <2> DEFINE roles == RequireValidators(s, op, amount)
  <2>1. roles \in Seq(Roles)
    BY <1>2, RequireValidatorsType, SuccessorsType
  <2>2. StepNumber[s] \in Nat
    BY SuccessorsType
  <2> HIDE DEF roles
  <2>3. [i \in 1..Len(roles) |-> [role |-> roles[i], decision |-> "VALIDATED"]]
            \in Seq(Validator)
    <3>1. \A i \in 1..Len(roles) :
            [role |-> roles[i], decision |-> "VALIDATED"] \in Validator
      BY <2>1 DEF Validator, Decisions
    <3>2. QED
      BY <2>1, <3>1
  <2>4. QED
    BY <2>2, <2>3 DEF SignedFlow, Workflow, roles
<1>6. NoFlow \in Workflow
  BY DEF NoFlow, Workflow
<1>7. flows \in [FlowSteps -> Workflow]
  BY <1>1, <1>5, <1>6 DEF InitAt
<1>8. nextFlow \in Nat \ {0}
  BY <1>1, <1>3, SuccessorsType DEF InitAt
<1>9. papers \in Papers
  <2>1. RequiredQuotes(amount) \in Nat
    BY <1>2 DEF RequiredQuotes, RequiredQuotesCount, QuoteLevel
  <2>2. QED
    BY <1>1, <2>1 DEF InitAt, Papers, DocTypes
<1>10. req \in [Requests -> Request]
  BY <1>1, IdleType
<1>11. QED
  BY <1>4, <1>7, <1>8, <1>9, <1>10 DEF TypeOK

LEMMA RolesNow ==
    ASSUME TypeOK, NEW step \in ConfiguredSteps
    PROVE  RequireValidators(step, purchase.operationType, purchase.amount)
                \in Seq(Roles)
  BY RequireValidatorsType DEF TypeOK, Purchase

LEMMA NewFlowType ==
    ASSUME NEW id \in Nat, NEW roles \in Seq(Roles), NEW signed \in BOOLEAN
    PROVE  NewFlow(id, roles, signed) \in Workflow
<1>1. \A i \in 1..Len(roles) :
        [role |-> roles[i],
         decision |-> IF signed /\ i = 1 THEN "VALIDATED" ELSE "none"]
            \in Validator
  BY DEF Validator, Decisions
<1>2. [i \in 1..Len(roles) |->
        [role |-> roles[i],
         decision |-> IF signed /\ i = 1 THEN "VALIDATED" ELSE "none"]]
            \in Seq(Validator)
  BY <1>1
<1>3. QED
  BY <1>2 DEF NewFlow, Workflow

\* Marking a validator, present or not, leaves a workflow.
LEMMA MarkedType ==
    ASSUME NEW f \in [FlowSteps -> Workflow], NEW s \in FlowSteps,
           NEW i \in Nat, NEW d \in Decisions
    PROVE  [f EXCEPT ![s].validators[i].decision = d] \in [FlowSteps -> Workflow]
<1> DEFINE v == f[s].validators
<1>1. v \in Seq(Validator)
  BY DEF Workflow
<1>2. [v EXCEPT ![i].decision = d] \in Seq(Validator)
  <2> DEFINE marked == [v EXCEPT ![i].decision = d]
  <2>1. DOMAIN marked = 1..Len(v)
    BY <1>1
  <2>2. ASSUME NEW j \in 1..Len(v)
        PROVE  marked[j] \in Validator
    <3>1. v[j] \in Validator
      BY <1>1, ElementOfSeq
    <3>2. v[j].role \in Roles /\ v[j].decision \in Decisions
      BY <3>1 DEF Validator
    <3>3. [v[j] EXCEPT !.decision = d] = [role |-> v[j].role, decision |-> d]
      BY <3>1 DEF Validator
    <3>4. marked[j] = v[j] \/ marked[j] = [v[j] EXCEPT !.decision = d]
      BY <1>1
    <3>5. QED
      BY <3>1, <3>2, <3>3, <3>4 DEF Validator
  <2>3. marked \in [1..Len(v) -> Validator]
    BY <2>1, <2>2
  <2>4. QED
    BY <1>1, <2>3
<1>3. [f[s] EXCEPT !.validators = [v EXCEPT ![i].decision = d]] \in Workflow
  BY <1>2 DEF Workflow
<1>4. QED
  BY <1>3

\* The actions that await a write.
LEMMA ContinueType ==
    ASSUME TypeOK, NEW r \in Requests, Continue(r)
    PROVE  TypeOK'
<1> USE DEF TypeOK
<1>1. CASE CheckPapers(r)
  BY <1>1, NextWriteType, AnsweredType DEF CheckPapers
<1>2. CASE UpdatePurchase(r)
  <2> DEFINE w == Head(req[r].todo)
  <2>1. /\ w.step \in Steps \cup {Keep}
        /\ w.status \in Statuses \cup {Keep}
        /\ w.operationType \in OperationTypes \cup {Keep}
        /\ req[r].todo # << >>
    BY <1>2, NextWriteType, WriteFields DEF UpdatePurchase
  <2>2. req' \in [Requests -> Request]
    BY <1>2, <2>1, AnsweredType DEF UpdatePurchase
  <2>3. purchase' \in Purchase
    <3> DEFINE step == Patch(purchase.currentStep, w.step)
               status == Patch(purchase.status, w.status)
               op == Patch(purchase.operationType, w.operationType)
               closed == IF w.closed = Keep THEN purchase.closed
                                            ELSE w.closed = "set"
    <3>1. step \in Steps /\ status \in Statuses /\ op \in OperationTypes
      BY <2>1 DEF Purchase, Patch
    <3>2. closed \in BOOLEAN
      BY DEF Purchase
    <3>3. \/ UNCHANGED purchase
          \/ purchase' = [purchase EXCEPT !.currentStep = step,
                                          !.status = status,
                                          !.operationType = op,
                                          !.closed = closed]
      BY <1>2 DEF UpdatePurchase
    <3> HIDE DEF step, status, op, closed
    <3>4. QED
      BY <3>1, <3>2, <3>3 DEF Purchase
  <2>4. QED
    BY <1>2, <2>2, <2>3 DEF UpdatePurchase
<1>3. CASE RemovePurchase(r)
  <2>1. req' \in [Requests -> Request]
    BY <1>3, NextWriteType, AnsweredType DEF RemovePurchase
  <2>2. purchase' \in Purchase
    <3>1. [purchase EXCEPT !.exists = FALSE, !.amount = 0] \in Purchase
      BY DEF Purchase
    <3>2. QED
      BY <1>3, <3>1 DEF RemovePurchase
  <2>3. papers' \in Papers
    <3>1. [quotes |-> 0, docs |-> {}, derogation |-> "none", pv |-> "none"]
            \in Papers
      BY DEF Papers
    <3>2. QED
      BY <1>3, <3>1 DEF RemovePurchase
  <2>4. flows' \in [FlowSteps -> Workflow]
    <3>1. NoFlow \in Workflow
      BY DEF NoFlow, Workflow
    <3>2. QED
      BY <1>3, <3>1 DEF RemovePurchase
  <2>5. QED
    BY <1>3, <2>1, <2>2, <2>3, <2>4 DEF RemovePurchase
<1>4. CASE RemoveItems(r)
  <2>1. req' \in [Requests -> Request]
    BY <1>4, NextWriteType, AnsweredType DEF RemoveItems
  <2>2. QED
    BY <1>4, <2>1 DEF RemoveItems, Purchase
<1>5. CASE InsertItems(r)
  <2>1. /\ Head(req[r].todo).amount \in Nat
        /\ req[r].todo # << >>
    BY <1>5, NextWriteType, WriteFields DEF InsertItems
  <2>2. req' \in [Requests -> Request]
    BY <1>5, <2>1, AnsweredType DEF InsertItems
  <2>3. QED
    BY <1>5, <2>1, <2>2 DEF InsertItems, Purchase
<1>6. CASE RemoveFlows(r)
  <2>1. req' \in [Requests -> Request]
    BY <1>6, NextWriteType, AnsweredType DEF RemoveFlows
  <2>2. flows' \in [FlowSteps -> Workflow]
    BY <1>6 DEF RemoveFlows, NoFlow, Workflow
  <2>3. QED
    BY <1>6, <2>1, <2>2 DEF RemoveFlows
<1>7. CASE InsertFlow(r)
  <2> DEFINE w == Head(req[r].todo)
  <2>1. /\ w.step \in FlowSteps
        /\ w.roles \in Seq(Roles)
        /\ w.signed \in BOOLEAN
        /\ req[r].todo # << >>
    BY <1>7, NextWriteType, WriteFields DEF InsertFlow
  <2>2. req' \in [Requests -> Request]
    BY <1>7, <2>1, AnsweredType DEF InsertFlow
  <2>3. NewFlow(nextFlow, w.roles, w.signed) \in Workflow
    BY <2>1, NewFlowType
  <2>4. flows' \in [FlowSteps -> Workflow] /\ nextFlow' \in Nat \ {0}
    BY <1>7, <2>1, <2>3 DEF InsertFlow
  <2>5. QED
    BY <1>7, <2>2, <2>4 DEF InsertFlow
<1>8. CASE MarkValidator(r)
  <2> DEFINE w == Head(req[r].todo)
  <2>1. /\ w.step \in FlowSteps
        /\ w.order \in Nat
        /\ w.decision \in Decisions
        /\ req[r].todo # << >>
    BY <1>8, NextWriteType, WriteFields DEF MarkValidator
  <2>2. req' \in [Requests -> Request]
    BY <1>8, <2>1, AnsweredType DEF MarkValidator
  <2>3. [flows EXCEPT ![w.step].validators[w.order].decision = w.decision]
            \in [FlowSteps -> Workflow]
    BY <2>1, MarkedType
  <2>4. flows' \in [FlowSteps -> Workflow]
    BY <1>8, <2>3 DEF MarkValidator
  <2>5. QED
    BY <1>8, <2>2, <2>4 DEF MarkValidator
<1>9. CASE ReadFlowToAdvance(r)
  <2> DEFINE w == Head(req[r].todo)
  <2>1. req[r].todo # << >> /\ req[r].todo \in Seq(Write)
    BY <1>9, NextWriteType DEF ReadFlowToAdvance
  <2>2. Complete(flows[w.step]) \in BOOLEAN /\ Tail(req[r].todo) \in Seq(Write)
    BY <2>1 DEF Complete
  <2>3. [req[r] EXCEPT !.allSigned = Complete(flows[w.step]),
                       !.todo = Tail(req[r].todo)] \in Request
    BY <2>2 DEF Request
  <2>4. CASE Throw(r)
    BY <1>9, <2>4, AnsweredType DEF ReadFlowToAdvance
  <2>5. CASE ~Throw(r)
    BY <1>9, <2>3, <2>5 DEF ReadFlowToAdvance
  <2>6. QED
    BY <2>4, <2>5
<1>10. CASE WriteFlowAdvance(r)
  <2> DEFINE w == Head(req[r].todo)
  <2>1. w.step \in FlowSteps /\ req[r].todo # << >>
    BY <1>10, NextWriteType, WriteFields DEF WriteFlowAdvance
  <2>2. req' \in [Requests -> Request]
    BY <1>10, <2>1, AnsweredType DEF WriteFlowAdvance
  <2>3. req[r].allSigned \in BOOLEAN
    BY DEF Request
  <2>4. flows' \in [FlowSteps -> Workflow]
    <3> DEFINE new == [flows[w.step] EXCEPT !.isComplete = req[r].allSigned]
    <3>1. flows[w.step] \in Workflow
      BY <2>1
    <3>2. new \in Workflow
      BY <2>3, <3>1 DEF Workflow
    <3>3. UNCHANGED flows \/ flows' = [flows EXCEPT ![w.step] = new]
      BY <1>10, <2>1 DEF WriteFlowAdvance
    <3> HIDE DEF new
    <3>4. QED
      BY <2>1, <3>2, <3>3
  <2>5. QED
    BY <1>10, <2>2, <2>4 DEF WriteFlowAdvance
<1>11. CASE WritePapers(r)
  <2> DEFINE w == Head(req[r].todo)
  <2>1. PICK do \in PaperWrites : Awaits(r, do)
    BY <1>11 DEF WritePapers
  <2>2. w \in Write /\ w.do \in PaperWrites /\ req[r].todo # << >>
    BY <2>1, NextWriteType
  <2>3. req' \in [Requests -> Request]
    BY <1>11, <2>2, AnsweredType DEF WritePapers
  <2>4. ASSUME w.do = "dropQuote" => papers.quotes > 0
        PROVE  PapersAfter(w) \in Papers
    <3>1. /\ w.do = "addQuotes" => papers.quotes + w.count \in Nat
          /\ w.do = "dropQuote" => papers.quotes - 1 \in Nat
      BY <2>2, <2>4, WriteFields DEF Papers
    <3>2. /\ w.do \in {"addDoc", "dropDocs"} => w.type \in DocTypes
          /\ w.do \in {"createDerogation", "setDerogation"}
                => w.status \in {"PENDING", "VALIDATED", "REJECTED"}
          /\ w.do \in {"createPv", "savePv"} => w.pv \in {"empty", "filled"}
      BY <2>2, WriteFields
    <3>3. CASE w.do \in {"addQuotes", "dropQuote"}
      BY <3>1, <3>3 DEF PapersAfter, Papers
    <3>4. CASE w.do \in {"addDoc", "dropDocs"}
      BY <3>2, <3>4 DEF PapersAfter, Papers
    <3>5. CASE w.do \in {"createDerogation", "setDerogation", "createPv", "savePv"}
      BY <3>2, <3>5 DEF PapersAfter, Papers
    <3>6. QED
      BY <2>2, <3>3, <3>4, <3>5 DEF PaperWrites
  <2>5. papers' \in Papers
    BY <1>11, <2>4 DEF WritePapers
  <2>6. QED
    BY <1>11, <2>3, <2>5 DEF WritePapers
<1>12. QED
  BY <1>1, <1>2, <1>3, <1>4, <1>5, <1>6, <1>7, <1>8, <1>9, <1>10, <1>11
     DEF Continue

\* The validators' endpoints.
LEMMA TurnsType ==
    ASSUME TypeOK
    PROVE  AuthorisedTurns \subseteq Turn
<1>1. ASSUME NEW s \in FlowSteps, NEW i \in Undecided(flows[s])
      PROVE  TurnOf(s, i) \in Turn
  <2>1. flows[s] \in Workflow
    BY DEF TypeOK
  <2>2. /\ flows[s].id \in Nat
        /\ flows[s].validators \in Seq(Validator)
    BY <2>1 DEF Workflow
  <2>3. flows[s].validators[i] \in Validator /\ i \in Nat
    BY <2>2, ElementOfSeq DEF Undecided
  <2>4. flows[s].validators[i].role \in Roles
    BY <2>3 DEF Validator
  <2>5. QED
    BY <2>2, <2>3, <2>4 DEF TurnOf, Turn
<1>2. QED
  BY <1>1 DEF AuthorisedTurns

LEMMA SnapshotType ==
    ASSUME TypeOK, AwaitsValidation
    PROVE  LoadedSnapshot \in Snapshot
<1>1. /\ purchase.currentStep \in FlowSteps
      /\ purchase.status \in Statuses
      /\ flows[purchase.currentStep] \in Workflow
  BY DEF AwaitsValidation, TypeOK, Purchase
<1>2. /\ flows[purchase.currentStep].id \in Nat
      /\ flows[purchase.currentStep].validators \in Seq(Validator)
  BY <1>1 DEF Workflow
<1>3. Undecided(flows[purchase.currentStep]) \subseteq Nat
  BY <1>2 DEF Undecided
<1>4. QED
  BY <1>1, <1>2, <1>3 DEF LoadedSnapshot, Snapshot

\* What a validation writes: the mark of its turn, the advance of the workflow
\* it has seen, and nothing else that decides.
MarkOf(turn) == Mark(turn.step, turn.id, turn.order, "VALIDATED")

OwnWrites(turn, seen) ==
    {MarkOf(turn), ReadFlow(seen.step, seen.id), AdvanceFlow(seen.step, seen.id)}

LEMMA ValidationWritesType ==
    ASSUME NEW turn \in Turn, NEW seen \in Snapshot
    PROVE  ValidationWrites(turn, seen)
                \subseteq Seq(Plain \cup OwnWrites(turn, seen))
<1>1. /\ turn.step \in FlowSteps /\ turn.id \in Nat /\ turn.order \in Nat
      /\ seen.step \in FlowSteps /\ seen.id \in Nat /\ seen.status \in Statuses
  BY DEF Turn, Snapshot
<1> DEFINE Mine == Plain \cup OwnWrites(turn, seen)
<1>2. ReadFlow(seen.step, seen.id) \in Mine /\ AdvanceFlow(seen.step, seen.id) \in Mine
  BY DEF OwnWrites
<1>3. MarkOf(turn) \in Mine
  BY DEF OwnWrites
<1> HIDE DEF Mine
<1>4. ParallelWrites(turn, seen) \subseteq Seq(Mine)
  BY <1>2, <1>3 DEF ParallelWrites, MarkOf
<1>5. SetStatus(ValidatedStatus(turn, seen)) \in Mine
  <2>1. ValidatedStatus(turn, seen) \in Statuses
    BY <1>1 DEF ValidatedStatus, Statuses
  <2>2. QED
    BY <2>1, WritesType DEF SetStatus, Mine
<1>6. CompletionWrites(turn, seen) \in Seq(Mine)
  <2>1. /\ NextStepMap[seen.step] \in Steps
        /\ StatusOnEntry(NextStepMap[seen.step]) \in Statuses
    BY <1>1, SuccessorsType
  <2>2. MoveTo(NextStepMap[seen.step], StatusOnEntry(NextStepMap[seen.step])) \in Mine
    BY <2>1, WritesType DEF MoveTo, Mine
  <2>3. QED
    BY <2>2 DEF CompletionWrites
<1>7. ASSUME NEW p \in ParallelWrites(turn, seen)
      PROVE  p \o << SetStatus(ValidatedStatus(turn, seen)) >>
               \o CompletionWrites(turn, seen) \in Seq(Mine)
  <2>1. << SetStatus(ValidatedStatus(turn, seen)) >> \in Seq(Mine)
    BY <1>5
  <2>2. p \o << SetStatus(ValidatedStatus(turn, seen)) >> \in Seq(Mine)
    BY <1>4, <2>1, ConcatProperties
  <2>3. QED
    BY <1>6, <2>2, ConcatProperties
<1>8. QED
  BY <1>7 DEF ValidationWrites, Mine

LEMMA ApprovalType ==
    ASSUME TypeOK, NEW r \in Requests, ApprovalNext(r)
    PROVE  TypeOK'
<1>1. /\ req[r] \in Request
      /\ req[r].turn \in Turn
      /\ req[r].seen \in Snapshot
  BY DEF TypeOK, Request
<1>2. CASE ValidateAuthFirst(r)
  <2>1. PICK turn \in AuthorisedTurns :
            req' = [req EXCEPT ![r].op = "validate", ![r].turn = turn]
    BY <1>2 DEF ValidateAuthFirst
  <2>2. [req[r] EXCEPT !.op = "validate", !.turn = turn] \in Request
    BY <1>1, TurnsType DEF Request, Endpoints
  <2>3. req' \in [Requests -> Request]
    BY <2>1, <2>2 DEF TypeOK
  <2>4. QED
    BY <1>2, <2>3 DEF ValidateAuthFirst, TypeOK
<1>3. CASE ValidateLoadFirst(r)
  <2>1. [req[r] EXCEPT !.op = "validate", !.seen = LoadedSnapshot] \in Request
    BY <1>1, <1>3, SnapshotType DEF ValidateLoadFirst, Request, Endpoints
  <2>2. req' \in [Requests -> Request]
    BY <1>3, <2>1 DEF ValidateLoadFirst, TypeOK
  <2>3. QED
    BY <1>3, <2>2 DEF ValidateLoadFirst, TypeOK
<1>4. ASSUME NEW turn \in Turn, NEW seen \in Snapshot,
             NEW w \in ValidationWrites(turn, seen)
      PROVE  Validating(seen, w) \in Request
  <2>1. MarkOf(turn) \in Write
    BY WritesType DEF MarkOf, Turn, Decisions
  <2>2. Plain \cup OwnWrites(turn, seen) \subseteq Write
    BY <2>1, PlainLists, WritesType DEF OwnWrites, Snapshot
  <2>3. w \in Seq(Write)
    BY <2>2, ValidationWritesType, SeqMonotonic
  <2>4. Planned("validate", w) \in Request
    BY <2>3, PlannedType DEF Endpoints
  <2>5. QED
    BY <2>4 DEF Validating, Request
<1>5. CASE ValidateLoad(r)
  <2>1. req' \in [Requests -> Request]
    <3>1. CASE Throw(r)
      BY <3>1, AnsweredType
    <3>2. CASE ~Throw(r)
      <4>1. /\ AwaitsValidation
            /\ \E w \in ValidationWrites(req[r].turn, LoadedSnapshot) :
                req' = [req EXCEPT ![r] = Validating(LoadedSnapshot, w)]
        BY <1>5, <3>2 DEF ValidateLoad
      <4>2. PICK w \in ValidationWrites(req[r].turn, LoadedSnapshot) :
                req' = [req EXCEPT ![r] = Validating(LoadedSnapshot, w)]
        BY <4>1
      <4>3. Validating(LoadedSnapshot, w) \in Request
        BY <1>1, <1>4, <4>1, SnapshotType
      <4>4. QED
        BY <4>2, <4>3 DEF TypeOK
    <3>3. QED
      BY <3>1, <3>2
  <2>2. QED
    BY <1>5, <2>1 DEF ValidateLoad, TypeOK
<1>6. CASE ValidateAuth(r)
  <2>1. req' \in [Requests -> Request]
    <3>1. CASE Throw(r)
      BY <3>1, AnsweredType
    <3>2. CASE ~Throw(r)
      <4>1. PICK turn \in AuthorisedTurns :
                \E w \in ValidationWrites(turn, req[r].seen) :
                    req' = [req EXCEPT ![r] = Validating(req[r].seen, w)]
        BY <1>6, <3>2 DEF ValidateAuth
      <4>2. PICK w \in ValidationWrites(turn, req[r].seen) :
                req' = [req EXCEPT ![r] = Validating(req[r].seen, w)]
        BY <4>1
      <4>3. Validating(req[r].seen, w) \in Request
        BY <1>1, <1>4, TurnsType
      <4>4. QED
        BY <4>2, <4>3 DEF TypeOK
    <3>3. QED
      BY <3>1, <3>2
  <2>2. QED
    BY <1>6, <2>1 DEF ValidateAuth, TypeOK
<1>7. CASE RefuseAuth(r)
  <2>1. PICK op \in {"reject", "requestChanges"}, turn \in AuthorisedTurns :
            req' = [req EXCEPT ![r].op = op, ![r].turn.role = turn.role]
    BY <1>7 DEF RefuseAuth
  <2>2. turn.role \in Roles
    BY TurnsType DEF Turn
  <2>3. [req[r].turn EXCEPT !.role = turn.role] \in Turn
    BY <1>1, <2>2 DEF Turn
  <2>4. [req[r] EXCEPT !.op = op, !.turn = [req[r].turn EXCEPT !.role = turn.role]]
            \in Request
    BY <1>1, <2>3 DEF Request, Endpoints
  <2>5. req' \in [Requests -> Request]
    BY <2>1, <2>4 DEF TypeOK
  <2>6. QED
    BY <1>7, <2>5 DEF RefuseAuth, TypeOK
<1>8. CASE RefuseLoad(r)
  <2>1. req' \in [Requests -> Request]
    <3>1. CASE AwaitsValidation
      <4>1. [req[r] EXCEPT !.seen = LoadedSnapshot] \in Request
        BY <1>1, <3>1, SnapshotType DEF Request
      <4>2. QED
        BY <1>8, <3>1, <4>1 DEF RefuseLoad, TypeOK
    <3>2. CASE ~AwaitsValidation
      BY <1>8, <3>2, AnsweredType DEF RefuseLoad
    <3>3. QED
      BY <3>1, <3>2
  <2>2. QED
    BY <1>8, <2>1 DEF RefuseLoad, TypeOK
<1>9. CASE RefuseTurn(r)
  <2> DEFINE s == req[r].seen.step
             decision == DecisionOf(req[r].op)
             list(i) == << Mark(s, flows[s].id, i, decision), Close(decision) >>
  <2>1. req' \in [Requests -> Request]
    <3>1. CASE Throw(r)
      BY <3>1, AnsweredType
    <3>2. CASE ~Throw(r)
      <4>1. PICK i \in 1..Len(flows[s].validators) :
                req' = [req EXCEPT ![r] = Planned(req[r].op, list(i))]
        BY <1>9, <3>2 DEF RefuseTurn
      <4>2. /\ s \in FlowSteps
            /\ flows[s].id \in Nat
            /\ i \in Nat
        BY <1>1 DEF TypeOK, Snapshot, Workflow
      <4>3. req[r].op \in {"reject", "requestChanges"}
        BY <1>9 DEF RefuseTurn
      <4>4. decision \in {"REJECTED", "CHANGE_REQUESTED"}
        BY <4>3 DEF DecisionOf
      <4>5. Mark(s, flows[s].id, i, decision) \in Write
        BY <4>2, <4>4, WritesType DEF Decisions
      <4>6. Close(decision) \in Write
        BY <4>4, StatusWritesType, PlainLists DEF Statuses
      <4>7. list(i) \in Seq(Write)
        BY <4>5, <4>6
      <4>8. Planned(req[r].op, list(i)) \in Request
        BY <4>3, <4>7, PlannedType DEF Endpoints
      <4>9. QED
        BY <4>1, <4>8 DEF TypeOK
    <3>3. QED
      BY <3>1, <3>2
  <2>2. QED
    BY <1>9, <2>1 DEF RefuseTurn, TypeOK
<1>10. QED
  BY <1>2, <1>3, <1>5, <1>6, <1>7, <1>8, <1>9 DEF ApprovalNext

\* The other endpoints decide nothing: each runs a list of plain writes.
RunsPlain(r) ==
    \E op \in Endpoints \ ApprovalOps, w \in Seq(Plain) : Runs(r, op, w)

\* The list leaves the purchase at its step ...
RunsStill(r) ==
    \E op \in Endpoints \ ApprovalOps, w \in Seq(Still) : Runs(r, op, w)

\* ... and its documents and what vouches for them ...
RunsInert(r) ==
    \E op \in Endpoints \ ApprovalOps, w \in Seq(Inert) : Runs(r, op, w)

LEMMA InertIsStill ==
    ASSUME NEW r \in Requests, RunsInert(r)
    PROVE  RunsStill(r)
  BY InertWrites DEF RunsInert, RunsStill

\* ... or its last write, and no other, takes it to the next one.
StepMove(w) ==
    /\ w \in Plain
    /\ w.do = "update"
    /\ w.step # Keep
    /\ StepNumber[w.step] = StepNumber[purchase.currentStep] + 1

RunsAndMoves(r) ==
    \E op \in Endpoints \ ApprovalOps, w \in Seq(Still), move \in Plain :
        StepMove(move) /\ Runs(r, op, w \o << move >>)

\* The creator's endpoints.
LEMMA AuthoringRuns ==
    ASSUME TypeOK, NEW r \in Requests, AuthoringNext(r)
    PROVE  RunsInert(r)
<1>1. ItemLists \subseteq Nat
  BY AmountsAssumption DEF ItemLists
<1>2. \A amount \in ItemLists : ReplaceItems(amount) \in Seq(Inert)
  BY <1>1, InertWrites DEF ReplaceItems
<1>3. CASE AddPurchaseItems(r)
  <2>1. PICK amount \in ItemLists :
            Runs(r, "addPurchaseItems", ReplaceItems(amount))
    BY <1>3 DEF AddPurchaseItems
  <2>2. QED
    BY <1>2, <2>1 DEF RunsInert, ApprovalOps, Endpoints
<1>4. CASE UpdatePurchaseFields(r)
  <2>1. PICK op \in OperationTypes :
            Runs(r, "updatePurchase", << Update(Keep, Keep, Keep, op) >>)
    BY <1>4 DEF UpdatePurchaseFields
  <2>2. << Update(Keep, Keep, Keep, op) >> \in Seq(Inert)
    <3>1. Update(Keep, Keep, Keep, op) \in Inert
      BY InertWrites
    <3>2. QED
      BY <3>1
  <2>3. QED
    BY <2>1, <2>2 DEF RunsInert, ApprovalOps, Endpoints
<1>5. CASE PublishPurchaseForValidation(r)
  <2> DEFINE roles == RequireValidators(purchase.currentStep,
                                        purchase.operationType, purchase.amount)
             clear == IF purchase.status = "CHANGE_REQUESTED"
                      THEN << DeleteFlows(FlowSteps),
                              Update(Keep, Keep, "clear", Keep) >>
                      ELSE << >>
             open == IF purchase.currentStep \in ConfiguredSteps
                     THEN << CreateFlow("DA", roles, TRUE),
                             SetStatus("PUBLISHED") >>
                     ELSE << >>
  <2>1. clear \in Seq(Inert)
    <3>1. /\ DeleteFlows(FlowSteps) \in Inert
          /\ Update(Keep, Keep, "clear", Keep) \in Inert
      BY InertWrites
    <3>2. << DeleteFlows(FlowSteps), Update(Keep, Keep, "clear", Keep) >>
                \in Seq(Inert)
      BY <3>1
    <3>3. QED
      BY <3>2
  <2>2. open \in Seq(Inert)
    <3>1. CASE purchase.currentStep \in ConfiguredSteps
      <4>1. roles \in Seq(Roles)
        BY <3>1, RolesNow
      <4>2. CreateFlow("DA", roles, TRUE) \in Inert
        BY <4>1, InertWrites DEF FlowSteps
      <4>3. SetStatus("PUBLISHED") \in Inert
        BY InertWrites DEF SetStatus, Statuses
      <4>4. << CreateFlow("DA", roles, TRUE), SetStatus("PUBLISHED") >>
                \in Seq(Inert)
        BY <4>2, <4>3, PairType
      <4>5. QED
        BY <3>1, <4>4
    <3>2. CASE purchase.currentStep \notin ConfiguredSteps
      BY <3>2
    <3>3. QED
      BY <3>1, <3>2
  <2>3. PublicationWrites = clear \o open
    BY DEF PublicationWrites
  <2>4. PublicationWrites \in Seq(Inert)
    BY <2>1, <2>2, <2>3, ConcatProperties
  <2>5. QED
    BY <1>5, <2>4 DEF RunsInert, ApprovalOps, PublishPurchaseForValidation, Endpoints
<1>6. CASE UpdateAndRepublishPurchase(r)
  <2>1. PICK op \in OperationTypes,
             newItems \in { << >> } \cup { ReplaceItems(a) : a \in ItemLists } :
            Runs(r, "updateAndRepublish", RevisionWrites(op, newItems))
    BY <1>6 DEF UpdateAndRepublishPurchase
  <2>2. newItems \in Seq(Inert)
    <3>1. CASE newItems = << >>
      BY <3>1
    <3>2. CASE newItems # << >>
      <4>1. PICK a \in ItemLists : newItems = ReplaceItems(a)
        BY <3>2
      <4>2. QED
        BY <1>2, <4>1
    <3>3. QED
      BY <3>1, <3>2
  <2>3. << Update(Keep, "DRAFT", "clear", op) >> \in Seq(Inert)
    <3>1. Update(Keep, "DRAFT", "clear", op) \in Inert
      BY InertWrites DEF Statuses
    <3>2. QED
      BY <3>1
  <2>4. << DeleteFlows(FlowSteps) >> \in Seq(Inert)
    BY InertWrites
  <2>5. RevisionWrites(op, newItems) \in Seq(Inert)
    BY <2>2, <2>3, <2>4, ConcatProperties DEF RevisionWrites
  <2>6. QED
    BY <2>1, <2>5 DEF RunsInert, ApprovalOps, Endpoints
<1>7. CASE DeleteDraftPurchase(r)
  <2>1. << DeletePurchase >> \in Seq(Inert)
    BY InertWrites
  <2>2. QED
    BY <1>7, <2>1 DEF RunsInert, ApprovalOps, DeleteDraftPurchase, Endpoints
<1>8. QED
  BY <1>3, <1>4, <1>5, <1>6, <1>7 DEF AuthoringNext

\* The buyer's endpoints on quotes, derogation and PV.
LEMMA SourcingRuns ==
    ASSUME TypeOK, NEW r \in Requests, SourcingNext(r)
    PROVE  \/ RunsInert(r)
           \/ DeleteQuote(r) /\ RunsStill(r)
           \/ ValidateQuotesAndProceed(r) /\ RunsAndMoves(r)
<1>1. \A status \in Statuses : SetStatus(status) \in Inert
  BY InertWrites
<1>2. CASE UploadQuotes(r)
  <2>1. PICK n \in 1..(MaxQuotes - papers.quotes) :
            Runs(r, "uploadQuotes",
                 << AddQuotes(n), SetStatus("AWAITING_DOCUMENTS") >>)
    BY <1>2 DEF UploadQuotes
  <2>2. n \in Nat
    BY BoundsAssumption DEF TypeOK, Papers
  <2>3. << AddQuotes(n), SetStatus("AWAITING_DOCUMENTS") >> \in Seq(Inert)
    BY <1>1, <2>2, InertWrites DEF Statuses
  <2>4. QED
    BY <2>1, <2>3 DEF RunsInert, ApprovalOps, Endpoints
<1>3. CASE DeleteQuote(r)
  <2>1. RemoveAttachmentWrites \subseteq Seq(Still)
    <3>1. papers.docs \subseteq DocTypes
      BY DEF TypeOK, Papers
    <3>2. \A d \in papers.docs : << DropDocs(d) >> \in Seq(Still)
      BY <3>1, WritesType
    <3>3. << DropQuote >> \in Seq(Still)
      BY WritesType
    <3>4. QED
      BY <3>2, <3>3 DEF RemoveAttachmentWrites
  <2>2. QED
    BY <1>3, <2>1 DEF RunsStill, ApprovalOps, DeleteQuote, Endpoints
<1>4. CASE SubmitQuotesForValidation(r)
  <2> DEFINE roles == RequireValidators("QR", purchase.operationType,
                                        purchase.amount)
             extra(b) == IF b THEN << CreateDerogation("VALIDATED") >> ELSE << >>
             chain(b) == << CreateFlow("QR", roles, FALSE),
                            SetStatus(IF b THEN "IN_DEROGATION"
                                           ELSE "PENDING_APPROVAL") >>
  <2>1. PICK short \in BOOLEAN :
            Runs(r, "submitQuotes", extra(short) \o chain(short))
    BY <1>4 DEF SubmitQuotesForValidation
  <2>2. roles \in Seq(Roles)
    BY RolesNow DEF ConfiguredSteps
  <2>3. CreateFlow("QR", roles, FALSE) \in Inert
    BY <2>2, InertWrites DEF FlowSteps
  <2>4. chain(short) \in Seq(Inert)
    <3>1. SetStatus(IF short THEN "IN_DEROGATION" ELSE "PENDING_APPROVAL") \in Inert
      BY <1>1 DEF Statuses
    <3>2. QED
      BY <2>3, <3>1, PairType
  <2>5. extra(short) \in Seq(Inert)
    BY InertWrites
  <2>6. extra(short) \o chain(short) \in Seq(Inert)
    BY <2>4, <2>5, ConcatProperties
  <2>7. QED
    BY <2>1, <2>6 DEF RunsInert, ApprovalOps, Endpoints
<1>5. CASE ValidateQuotesAndProceed(r)
  <2> DEFINE move == MoveTo("PV", "VALIDATED")
  <2>1. move \in Plain /\ StepMove(move)
    <3>1. StepNumber["PV"] = StepNumber["QR"] + 1
      BY DEF StepNumber, Steps
    <3>2. move \in Plain /\ move.do = "update" /\ move.step = "PV" /\ "PV" # Keep
      BY WritesType DEF MoveTo, Update, Steps, Statuses, Keep
    <3>3. QED
      BY <1>5, <3>1, <3>2 DEF StepMove, ValidateQuotesAndProceed, AtStep
  <2>2. Runs(r, "proceedWithQuotes", << >> \o << move >>)
    BY <1>5 DEF ValidateQuotesAndProceed
  <2> HIDE DEF move
  <2>3. << >> \in Seq(Still) /\ "proceedWithQuotes" \in Endpoints \ ApprovalOps
    BY DEF ApprovalOps, Endpoints
  <2>4. QED
    BY <1>5, <2>1, <2>2, <2>3 DEF RunsAndMoves
<1>6. CASE RequestQuoteDerogation(r)
  <2>1. << CreateDerogation("PENDING"), SetStatus("IN_DEROGATION") >> \in Seq(Inert)
    BY <1>1, InertWrites DEF Statuses
  <2>2. QED
    BY <1>6, <2>1 DEF RunsInert, ApprovalOps, RequestQuoteDerogation, Endpoints
<1>7. CASE ValidateDerogation(r)
  <2>1. << SetDerogation("VALIDATED"), SetStatus("PUBLISHED") >> \in Seq(Inert)
    BY <1>1, InertWrites DEF Statuses
  <2>2. << SetDerogation("REJECTED"), Close("REJECTED") >> \in Seq(Inert)
    <3>1. Close("REJECTED") \in Inert
      BY InertWrites DEF Statuses
    <3>2. QED
      BY <3>1, InertWrites
  <2>3. QED
    BY <1>7, <2>1, <2>2 DEF RunsInert, ApprovalOps, ValidateDerogation, Endpoints
<1>8. CASE CreatePV(r)
  <2>1. PICK suppliers \in SupplierLists :
            Runs(r, "createPV", << CreatePv(suppliers) >>)
    BY <1>8 DEF CreatePV
  <2>2. << CreatePv(suppliers) >> \in Seq(Inert)
    BY InertWrites DEF SupplierLists
  <2>3. QED
    BY <2>1, <2>2 DEF RunsInert, ApprovalOps, Endpoints
<1>9. CASE UpdatePV(r)
  <2> DEFINE refill(s) == IF s = "filled" THEN << SavePv("filled") >> ELSE << >>
  <2>1. PICK suppliers \in SupplierLists :
            Runs(r, "updatePV", << SavePv("empty") >> \o refill(suppliers))
    BY <1>9 DEF UpdatePV
  <2>2. << SavePv("empty") >> \in Seq(Inert) /\ refill(suppliers) \in Seq(Inert)
    BY InertWrites
  <2>3. << SavePv("empty") >> \o refill(suppliers) \in Seq(Inert)
    BY <2>2, ConcatProperties
  <2>4. QED
    BY <2>1, <2>3 DEF RunsInert, ApprovalOps, Endpoints
<1>10. QED
  BY <1>2, <1>3, <1>4, <1>5, <1>6, <1>7, <1>8, <1>9 DEF SourcingNext

\* The endpoints of the later documents.
LEMMA AskApprovalType ==
    ASSUME TypeOK, NEW step \in FlowSteps
    PROVE  AskApproval(step) \in Seq(Still)
<1>1. RequireValidators(step, purchase.operationType, purchase.amount)
            \in Seq(Roles)
  BY RolesNow, SuccessorsType
<1>2. ChainFor(step) \in Still
  BY <1>1, WritesType DEF ChainFor
<1>3. SetStatus("PENDING_APPROVAL") \in Still
  BY WritesType DEF SetStatus, Statuses
<1>4. QED
  BY <1>2, <1>3 DEF AskApproval

LEMMA EnterNextMoves ==
    ASSUME NEW step \in {"BR", "INVOICE", "PROOF_OF_PAYMENT"},
           purchase.currentStep = step
    PROVE  \E move \in Plain : StepMove(move) /\ EnterNext(step) = << move >>
<1> DEFINE next == NextDocumentStep[step]
           move == IF next = "DONE" THEN Update("DONE", "VALIDATED", "set", Keep)
                                    ELSE MoveTo(next, "AWAITING_DOCUMENTS")
<1>1. next \in Steps /\ StepNumber[next] = StepNumber[step] + 1
  BY DEF NextDocumentStep, Steps, StepNumber
<1>2. /\ Update("DONE", "VALIDATED", "set", Keep) \in Plain
      /\ MoveTo(next, "AWAITING_DOCUMENTS") \in Plain
  BY <1>1, WritesType DEF MoveTo, Steps, Statuses
<1>3. move.do = "update" /\ move.step = next
  BY DEF MoveTo, Update
<1>4. next # Keep
  BY <1>1 DEF Steps, Keep
<1>5. EnterNext(step) = << move >>
  BY DEF EnterNext
<1> HIDE DEF move, next
<1>6. move \in Plain
  BY <1>2 DEF move
<1>7. QED
  BY <1>1, <1>3, <1>4, <1>5, <1>6 DEF StepMove

LEMMA DocumentsRuns ==
    ASSUME TypeOK, NEW r \in Requests, DocumentsNext(r)
    PROVE  RunsStill(r) \/ RunsAndMoves(r)
<1>1. \A type \in DocTypes :
        /\ << DropDocs(type) >> \in Seq(Still)
        /\ << AddDoc(type) >> \in Seq(Still)
        /\ << DropDocs(type), AddDoc(type) >> \in Seq(Still)
  BY WritesType
<1>2. /\ \A step \in DOMAIN DocTypeOf : DocTypeOf[step] \in DocTypes
      /\ DOMAIN DocTypeOf = {"BR", "INVOICE", "DAP", "PROOF_OF_PAYMENT"}
  BY DEF DocTypeOf, DocTypes
<1>3. CASE UploadBC(r)
  <2>1. << DropDocs("PURCHASE_ORDER"), AddDoc("PURCHASE_ORDER"),
           DeleteFlows({"BC"}) >> \in Seq(Still)
    BY WritesType DEF DocTypes, FlowSteps
  <2>2. AskApproval("BC") \in Seq(Still)
    BY AskApprovalType DEF FlowSteps
  <2>3. << DropDocs("PURCHASE_ORDER"), AddDoc("PURCHASE_ORDER"),
           DeleteFlows({"BC"}) >> \o AskApproval("BC") \in Seq(Still)
    BY <2>1, <2>2, ConcatProperties
  <2>4. QED
    BY <1>3, <2>3 DEF RunsStill, ApprovalOps, UploadBC, Endpoints
<1>4. CASE UploadDocument(r)
  <2> DEFINE type == DocTypeOf[purchase.currentStep]
  <2>1. type \in DocTypes
    BY <1>2, <1>4 DEF UploadDocument
  <2>2. << DropDocs(type), AddDoc(type), SetStatus("AWAITING_DOCUMENTS") >>
            \in Seq(Still)
    <3>1. DropDocs(type) \in Still /\ AddDoc(type) \in Still
      BY <2>1, WritesType
    <3>2. SetStatus("AWAITING_DOCUMENTS") \in Still
      BY StatusWritesType DEF Statuses
    <3>3. QED
      BY <3>1, <3>2
  <2>3. QED
    BY <1>4, <2>2 DEF RunsStill, ApprovalOps, UploadDocument, Endpoints
<1>5. CASE SubmitDocument(r)
  <2> DEFINE step == purchase.currentStep
             rest == IF step = "DAP"
                     THEN << DeleteFlows({"DAP"}) >> \o AskApproval("DAP")
                     ELSE EnterNext(step)
  <2>1. step \in {"BR", "INVOICE", "DAP", "PROOF_OF_PAYMENT"}
    BY <1>2, <1>5 DEF SubmitDocument
  <2>2. << Require(DocTypeOf[step]) >> \in Seq(Still)
    BY <1>2, <2>1, WritesType
  <2>3. CASE step = "DAP"
    <3>1. << DeleteFlows({"DAP"}) >> \in Seq(Still)
      BY WritesType DEF FlowSteps
    <3>2. AskApproval("DAP") \in Seq(Still)
      BY AskApprovalType DEF FlowSteps
    <3>3. rest \in Seq(Still)
      BY <2>3, <3>1, <3>2, ConcatProperties
    <3>4. << Require(DocTypeOf[step]) >> \o rest \in Seq(Still)
      BY <2>2, <3>3, ConcatProperties
    <3>5. QED
      BY <1>5, <3>4 DEF RunsStill, ApprovalOps, SubmitDocument, Endpoints
  <2>4. CASE step # "DAP"
    <3>1. PICK move \in Plain : StepMove(move) /\ EnterNext(step) = << move >>
      BY <2>1, <2>4, EnterNextMoves
    <3>2. rest = << move >>
      BY <2>4, <3>1
    <3>3. Runs(r, "submitDocument", << Require(DocTypeOf[step]) >> \o << move >>)
      BY <1>5, <3>2 DEF SubmitDocument
    <3>4. QED
      BY <2>2, <3>1, <3>3 DEF RunsAndMoves, ApprovalOps, Endpoints
  <2>5. QED
    BY <2>3, <2>4
<1>6. CASE SubmitForValidation(r)
  <2> DEFINE step == purchase.currentStep
  <2>1. << Require("PV") >> \o AskApproval("PV") \in Seq(Still)
    <3>1. << Require("PV") >> \in Seq(Still)
      BY WritesType
    <3>2. AskApproval("PV") \in Seq(Still)
      BY AskApprovalType DEF FlowSteps
    <3>3. QED
      BY <3>1, <3>2, ConcatProperties
  <2>2. AskApproval("BC") \in Seq(Still) /\ AskApproval("DAP") \in Seq(Still)
    BY AskApprovalType DEF FlowSteps
  <2>3. PICK w \in SubmitWrites : Runs(r, "submitForValidation", w)
    BY <1>6 DEF SubmitForValidation
  <2>4. \/ w \in Seq(Still)
        \/ step \in {"BR", "INVOICE", "PROOF_OF_PAYMENT"} /\ w = EnterNext(step)
    BY <2>1, <2>2, <2>3 DEF SubmitWrites
  <2>5. CASE w \in Seq(Still)
    BY <2>3, <2>5 DEF RunsStill, ApprovalOps, Endpoints
  <2>6. CASE step \in {"BR", "INVOICE", "PROOF_OF_PAYMENT"} /\ w = EnterNext(step)
    <3>1. PICK move \in Plain : StepMove(move) /\ EnterNext(step) = << move >>
      BY <2>6, EnterNextMoves
    <3>2. Runs(r, "submitForValidation", << >> \o << move >>)
      BY <2>3, <2>6, <3>1
    <3>3. << >> \in Seq(Still) /\ "submitForValidation" \in Endpoints \ ApprovalOps
      BY DEF ApprovalOps, Endpoints
    <3>4. QED
      BY <3>1, <3>2, <3>3 DEF RunsAndMoves
  <2>7. QED
    BY <2>4, <2>5, <2>6
<1>7. CASE CreateAttachment(r)
  <2>1. << AddQuotes(1) >> \in Seq(Still)
    BY WritesType
  <2>2. QED
    BY <1>1, <1>7, <2>1 DEF RunsStill, ApprovalOps, CreateAttachment, Endpoints
<1>8. CASE DeleteAttachment(r)
  <2>1. << DropQuote >> \in Seq(Still)
    BY WritesType
  <2>2. papers.docs \subseteq DocTypes
    BY DEF TypeOK, Papers
  <2>3. QED
    BY <1>1, <1>8, <2>1, <2>2 DEF RunsStill, ApprovalOps, DeleteAttachment, Endpoints
<1>9. QED
  BY <1>3, <1>4, <1>5, <1>6, <1>7, <1>8 DEF DocumentsNext

\* Either way the list is one of plain writes.
LEMMA OrderedIsPlain ==
    ASSUME NEW r \in Requests, RunsStill(r) \/ RunsAndMoves(r)
    PROVE  RunsPlain(r)
<1>1. CASE RunsStill(r)
  BY <1>1, PlainLists DEF RunsStill, RunsPlain
<1>2. CASE RunsAndMoves(r)
  <2>1. PICK op \in Endpoints \ ApprovalOps, w \in Seq(Still),
                 move \in Plain :
            StepMove(move) /\ Runs(r, op, w \o << move >>)
    BY <1>2 DEF RunsAndMoves
  <2>2. w \in Seq(Plain) /\ << move >> \in Seq(Plain)
    BY <2>1, PlainLists DEF StepMove
  <2>3. w \o << move >> \in Seq(Plain)
    BY <2>2, ConcatProperties
  <2>4. QED
    BY <2>1, <2>3 DEF RunsPlain
<1>3. QED
  BY <1>1, <1>2

LEMMA RunsType ==
    ASSUME TypeOK, NEW r \in Requests, RunsPlain(r)
    PROVE  TypeOK'
<1>1. PICK op \in Endpoints, w \in Seq(Write) : Runs(r, op, w)
  BY PlainLists DEF RunsPlain
<1>2. Planned(op, w) \in Request
  BY PlannedType
<1>3. QED
  BY <1>1, <1>2 DEF Runs, TypeOK

LEMMA StepType == TypeOK /\ [Next]_vars => TypeOK'
<1>1. SUFFICES ASSUME TypeOK, [Next]_vars
               PROVE  TypeOK'
  OBVIOUS
<1>2. ASSUME NEW r \in Requests, Fail(r)
      PROVE  TypeOK'
  BY <1>1, <1>2, AnsweredType DEF Fail, TypeOK
<1>3. CASE UNCHANGED vars
  BY <1>1, <1>3 DEF vars, TypeOK
<1>4. QED
  BY <1>1, <1>2, <1>3, ApprovalType, AuthoringRuns, SourcingRuns,
     DocumentsRuns, InertIsStill, OrderedIsPlain, RunsType, ContinueType DEF Next

\* TypeOK holds of every behaviour: no handler writes a value its column
\* cannot hold, and no request waits for a write that is not one.
THEOREM TypeCorrect == Spec => []TypeOK
  BY InitType, StepType, PTL DEF Spec

-----------------------------------------------------------------------------
(* The approval, whatever requests run at once and wherever they die: the  *)
(* validators decide in their order, no decision is withdrawn, and the     *)
(* signatures are never overcounted, neither by the flag isComplete nor by *)
(* a validation that moves the purchase, although both go by a snapshot    *)
(* other requests may have outdated.                                       *)
(*                                                                         *)
(* The argument is about the pair of a function of workflows and the next  *)
(* id, before and after a step; the operators below take that pair as      *)
(* arguments, so that their lemmas need no primes.                         *)

FlowTable == [FlowSteps -> Workflow]

\* The validators of a workflow decide in order.
InOrder(w) == \A i \in Decided(w) : (1..(i - 1)) \subseteq Decided(w)

\* MayMark, of the workflows f and the next id n.
Markable(f, n, step, id, order) ==
    /\ id < n
    /\ id # 0 /\ f[step].id = id =>
            /\ order \in 1..Len(f[step].validators)
            /\ 1..(order - 1) \subseteq Decided(f[step])

\* What TurnsStayGood says of one request, and of the workflows.
GoodRequest(x, f, n) ==
    /\ Markable(f, n, x.turn.step, x.turn.id, x.turn.order)
    /\ \A i \in 1..Len(x.todo) :
            x.todo[i].do = "mark"
            => Markable(f, n, x.todo[i].step, x.todo[i].id, x.todo[i].order)

GoodFlows(f, n) ==
    \A s \in FlowSteps : /\ InOrder(f[s])
                         /\ f[s].id < n
                         /\ f[s].id # 0 \/ f[s] = NoFlow

\* What a step may do to the workflows: a workflow is kept and only gains
\* decisions, is deleted, or is a new one.
Kept(v, w) ==
    /\ w.id = v.id
    /\ Len(w.validators) = Len(v.validators)
    /\ Decided(v) \subseteq Decided(w)

Progress(f, n, g, m) ==
    /\ n <= m
    /\ \A s \in FlowSteps : Kept(f[s], g[s]) \/ g[s] = NoFlow \/ g[s].id = n

-----------------------------------------------------------------------------
LEMMA Reading ==
    /\ TurnsStayGood <=> /\ GoodFlows(flows, nextFlow)
                         /\ \A r \in Requests : GoodRequest(req[r], flows, nextFlow)
    /\ TurnsStayGood' <=> /\ GoodFlows(flows', nextFlow')
                          /\ \A r \in Requests :
                                GoodRequest(req'[r], flows', nextFlow')
  BY DEF TurnsStayGood, ApprovalsInOrder, InOrder, GoodFlows, GoodRequest,
         Markable, MayMark, Stands, Exists, Pending

LEMMA WorkflowType ==
    ASSUME NEW w \in Workflow
    PROVE  /\ w.id \in Nat
           /\ Len(w.validators) \in Nat
           /\ Decided(w) \subseteq 1..Len(w.validators)
           /\ Undecided(w) \subseteq 1..Len(w.validators)
  BY DEF Workflow, Decided, Undecided

\* A row that could be marked can still be, unless its workflow is gone.
LEMMA MarkableKept ==
    ASSUME NEW f \in FlowTable, NEW n \in Nat, NEW g \in FlowTable, NEW m \in Nat,
           Progress(f, n, g, m),
           NEW step \in FlowSteps, NEW id \in Nat, NEW order \in Nat,
           Markable(f, n, step, id, order)
    PROVE  Markable(g, m, step, id, order)
<1>1. id < m
  BY DEF Markable, Progress
<1>2. ASSUME id # 0, g[step].id = id
      PROVE  /\ order \in 1..Len(g[step].validators)
             /\ 1..(order - 1) \subseteq Decided(g[step])
  <2>1. g[step] # NoFlow /\ g[step].id # n
    BY <1>2 DEF NoFlow, Markable
  <2>2. Kept(f[step], g[step])
    BY <2>1 DEF Progress
  <2>3. QED
    BY <1>2, <2>2 DEF Kept, Markable
<1>3. QED
  BY <1>1, <1>2 DEF Markable

LEMMA GoodKept ==
    ASSUME NEW f \in FlowTable, NEW n \in Nat, NEW g \in FlowTable, NEW m \in Nat,
           Progress(f, n, g, m), NEW x \in Request, GoodRequest(x, f, n)
    PROVE  GoodRequest(x, g, m)
<1>1. Markable(g, m, x.turn.step, x.turn.id, x.turn.order)
  <2>1. x.turn.step \in FlowSteps /\ x.turn.id \in Nat /\ x.turn.order \in Nat
    BY DEF Request, Turn
  <2>2. QED
    BY <2>1, MarkableKept DEF GoodRequest
<1>2. ASSUME NEW i \in 1..Len(x.todo), x.todo[i].do = "mark"
      PROVE  Markable(g, m, x.todo[i].step, x.todo[i].id, x.todo[i].order)
  <2>1. x.todo[i] \in Write
    BY ElementOfSeq DEF Request
  <2>2. /\ x.todo[i].step \in FlowSteps /\ x.todo[i].id \in Nat
        /\ x.todo[i].order \in Nat
    BY <1>2, <2>1, WriteFields
  <2>3. QED
    BY <1>2, <2>2, MarkableKept DEF GoodRequest
<1>3. QED
  BY <1>1, <1>2 DEF GoodRequest

\* A request that is idle, or has only plain writes left, is good.
LEMMA PlannedGood ==
    ASSUME NEW f \in FlowTable, NEW n \in Nat \ {0}, NEW op,
           NEW w \in Seq(Plain)
    PROVE  GoodRequest(Planned(op, w), f, n) /\ GoodRequest(Idle, f, n)
<1>1. \A i \in 1..Len(w) : w[i].do # "mark"
  BY ElementOfSeq DEF Plain
<1>2. QED
  BY <1>1 DEF GoodRequest, Planned, Idle, NoTurn, Markable

\* After its next write a request is left with fewer to do, or idle.
LEMMA AnsweredGood ==
    ASSUME NEW f \in FlowTable, NEW n \in Nat \ {0},
           NEW x \in Request, x.todo # << >>, GoodRequest(x, f, n)
    PROVE  GoodRequest([x EXCEPT !.todo = Tail(x.todo)], f, n)
<1>1. /\ x.todo \in Seq(Write)
      /\ Len(Tail(x.todo)) = Len(x.todo) - 1
      /\ \A i \in 1..Len(Tail(x.todo)) : Tail(x.todo)[i] = x.todo[i + 1]
  BY HeadTailProperties DEF Request
<1>2. \A i \in 1..Len(Tail(x.todo)) : i + 1 \in 1..Len(x.todo)
  BY <1>1
<1>3. QED
  BY <1>1, <1>2 DEF GoodRequest, Request

-----------------------------------------------------------------------------
(* The workflows, step by step.                                            *)

LEMMA NewFlowGood ==
    ASSUME NEW id \in Nat \ {0}, NEW roles \in Seq(Roles), NEW signed \in BOOLEAN
    PROVE  InOrder(NewFlow(id, roles, signed)) /\ NewFlow(id, roles, signed).id = id
<1> DEFINE w == NewFlow(id, roles, signed)
<1>1. /\ w.id = id
      /\ w.validators = [i \in 1..Len(roles) |->
            [role |-> roles[i],
             decision |-> IF signed /\ i = 1 THEN "VALIDATED" ELSE "none"]]
  BY DEF NewFlow
<1>2. Len(w.validators) = Len(roles)
  BY <1>1
<1>3. Decided(w) \subseteq {1}
  BY <1>1, <1>2 DEF Decided, Undecided
<1>4. QED
  BY <1>1, <1>3 DEF InOrder

\* One more signature, of a validator with nobody before him left.
LEMMA MarkedGood ==
    ASSUME NEW w \in Workflow, InOrder(w),
           NEW k \in 1..Len(w.validators), 1..(k - 1) \subseteq Decided(w),
           NEW d \in Decisions \ {"none"}
    PROVE  LET v == [w EXCEPT !.validators[k].decision = d]
           IN  Kept(w, v) /\ InOrder(v)
<1> DEFINE old == w.validators
           new == [old EXCEPT ![k].decision = d]
           v == [w EXCEPT !.validators[k].decision = d]
<1>1. old \in Seq(Validator)
  BY DEF Workflow
<1>2. v.validators = new /\ v.id = w.id
  BY DEF Workflow
<1>3. Len(new) = Len(old) /\ Len(old) \in Nat
  BY <1>1
<1>4. new[k].decision = d
  <2>1. old[k] \in Validator
    BY <1>1, ElementOfSeq
  <2>2. new[k] = [old[k] EXCEPT !.decision = d]
    BY <1>1
  <2>3. QED
    BY <2>1, <2>2 DEF Validator
<1>5. \A i \in 1..Len(old) : i # k => new[i] = old[i]
  BY <1>1
<1>6. Decided(v) = Decided(w) \cup {k}
  BY <1>2, <1>3, <1>4, <1>5 DEF Decided, Undecided
<1>7. Kept(w, v)
  BY <1>2, <1>3, <1>6 DEF Kept
<1>8. ASSUME NEW i \in Decided(v)
      PROVE  1..(i - 1) \subseteq Decided(v)
  BY <1>6 DEF InOrder
<1>9. QED
  BY <1>7, <1>8 DEF InOrder

LEMMA NoFlowGood == InOrder(NoFlow)
  BY DEF InOrder, Decided, Undecided, NoFlow

\* What a request awaits keeps the workflows good.
LEMMA ContinueFlows ==
    ASSUME TypeOK, TypeOK', TurnsStayGood, NEW r \in Requests, Continue(r)
    PROVE  /\ Progress(flows, nextFlow, flows', nextFlow')
           /\ GoodFlows(flows', nextFlow')
<1> DEFINE todo == req[r].todo
           x == Head(todo)
<1>1. /\ flows \in FlowTable /\ flows' \in FlowTable
      /\ nextFlow \in Nat \ {0} /\ nextFlow' \in Nat \ {0}
  BY DEF TypeOK, FlowTable
<1>2. GoodFlows(flows, nextFlow) /\ GoodRequest(req[r], flows, nextFlow)
  BY Reading
<1>3. CASE UNCHANGED << flows, nextFlow >>
  BY <1>1, <1>2, <1>3 DEF Progress, Kept
<1>4. ASSUME nextFlow' = nextFlow,
             \A s \in FlowSteps : flows'[s] = flows[s] \/ flows'[s] = NoFlow
      PROVE  /\ Progress(flows, nextFlow, flows', nextFlow')
             /\ GoodFlows(flows', nextFlow')
  <2>1. Progress(flows, nextFlow, flows', nextFlow')
    BY <1>1, <1>4 DEF Progress, Kept
  <2>2. NoFlow.id < nextFlow
    BY <1>1 DEF NoFlow
  <2>3. QED
    BY <1>2, <1>4, <2>1, <2>2, NoFlowGood DEF GoodFlows
<1>5. CASE RemovePurchase(r)
  BY <1>4, <1>5 DEF RemovePurchase
<1>6. CASE RemoveFlows(r)
  BY <1>4, <1>6 DEF RemoveFlows
<1>7. CASE InsertFlow(r)
  <2>1. /\ x.step \in FlowSteps
        /\ x.roles \in Seq(Roles)
        /\ x.signed \in BOOLEAN
    BY <1>7, NextWriteType, WriteFields DEF InsertFlow
  <2> DEFINE new == NewFlow(nextFlow, x.roles, x.signed)
  <2>2. InOrder(new) /\ new.id = nextFlow
    BY <1>1, <2>1, NewFlowGood
  <2> HIDE DEF new
  <2>3. CASE UNCHANGED << flows, nextFlow >>
    BY <1>3, <2>3
  <2>4. CASE ~UNCHANGED << flows, nextFlow >>
    <3>1. /\ flows' = [flows EXCEPT ![x.step] = new]
          /\ nextFlow' = nextFlow + 1
      BY <1>7, <2>4 DEF InsertFlow, new
    <3>2. /\ flows'[x.step] = new
          /\ \A s \in FlowSteps : s # x.step => flows'[s] = flows[s]
      BY <1>1, <2>1, <3>1 DEF FlowTable
    <3>3. Progress(flows, nextFlow, flows', nextFlow')
      BY <1>1, <2>2, <3>1, <3>2 DEF Progress, Kept
    <3>4. ASSUME NEW s \in FlowSteps
          PROVE  /\ InOrder(flows'[s])
                 /\ flows'[s].id < nextFlow'
                 /\ flows'[s].id # 0 \/ flows'[s] = NoFlow
      <4>1. CASE s = x.step
        BY <1>1, <2>2, <3>1, <3>2, <4>1
      <4>2. CASE s # x.step
        <5>1. flows[s].id \in Nat
          BY <1>1 DEF FlowTable, Workflow
        <5>2. QED
          BY <1>1, <1>2, <3>1, <3>2, <4>2, <5>1 DEF GoodFlows
      <4>3. QED
        BY <4>1, <4>2
    <3>5. QED
      BY <3>3, <3>4 DEF GoodFlows
  <2>5. QED
    BY <2>3, <2>4
<1>8. CASE MarkValidator(r)
  <2>1. /\ x.do = "mark"
        /\ x.step \in FlowSteps
        /\ x.id \in Nat
        /\ x.order \in Nat
        /\ x.decision \in Decisions \ {"none"}
        /\ todo # << >>
        /\ todo \in Seq(Write)
    BY <1>8, NextWriteType, WriteFields DEF MarkValidator
  <2>2. Markable(flows, nextFlow, x.step, x.id, x.order)
    <3>1. 1 \in 1..Len(todo) /\ x = todo[1]
      BY <2>1
    <3>2. QED
      BY <1>2, <2>1, <3>1 DEF GoodRequest
  <2>3. CASE UNCHANGED flows
    BY <1>3, <1>8, <2>3 DEF MarkValidator
  <2>4. CASE ~UNCHANGED flows
    <3> DEFINE new == [flows[x.step] EXCEPT !.validators[x.order].decision = x.decision]
    <3>1. /\ x.id # 0 /\ flows[x.step].id = x.id
          /\ flows' = [flows EXCEPT
                ![x.step].validators[x.order].decision = x.decision]
          /\ nextFlow' = nextFlow
      BY <1>8, <2>4 DEF MarkValidator, Stands
    <3>2. flows[x.step] \in Workflow /\ InOrder(flows[x.step])
      BY <1>1, <1>2, <2>1 DEF FlowTable, GoodFlows
    <3>3. Kept(flows[x.step], new) /\ InOrder(new)
      BY <2>1, <2>2, <3>1, <3>2, MarkedGood DEF Markable
    <3>4. /\ flows'[x.step] = new
          /\ \A s \in FlowSteps : s # x.step => flows'[s] = flows[s]
      BY <1>1, <2>1, <3>1 DEF FlowTable
    <3> HIDE DEF new
    <3>5. Progress(flows, nextFlow, flows', nextFlow')
      <4>1. ASSUME NEW s \in FlowSteps
            PROVE  Kept(flows[s], flows'[s])
        <5>1. CASE s = x.step
          BY <3>3, <3>4, <5>1
        <5>2. CASE s # x.step
          BY <3>4, <5>2 DEF Kept
        <5>3. QED
          BY <5>1, <5>2
      <4>2. nextFlow <= nextFlow'
        <5>1. nextFlow' = nextFlow
          BY <3>1
        <5>2. QED
          BY <1>1, <5>1
      <4>3. QED
        BY <4>1, <4>2 DEF Progress
    <3>6. ASSUME NEW s \in FlowSteps
          PROVE  /\ InOrder(flows'[s])
                 /\ flows'[s].id < nextFlow'
                 /\ flows'[s].id # 0 \/ flows'[s] = NoFlow
      BY <1>2, <3>1, <3>3, <3>4 DEF GoodFlows, Kept
    <3>7. QED
      BY <3>5, <3>6 DEF GoodFlows
  <2>5. QED
    BY <2>3, <2>4
<1>9. CASE WriteFlowAdvance(r)
  <2>1. x.step \in FlowSteps
    BY <1>9, NextWriteType, WriteFields DEF WriteFlowAdvance
  <2>2. CASE UNCHANGED flows
    BY <1>3, <1>9, <2>2 DEF WriteFlowAdvance
  <2>3. CASE ~UNCHANGED flows
    <3> DEFINE new == [flows[x.step] EXCEPT !.isComplete = req[r].allSigned]
    <3>1. /\ flows[x.step].id # 0
          /\ flows' = [flows EXCEPT ![x.step] = new]
          /\ nextFlow' = nextFlow
      BY <1>1, <1>9, <2>1, <2>3 DEF WriteFlowAdvance, Stands, FlowTable
    <3>2. /\ flows'[x.step] = new
          /\ \A s \in FlowSteps : s # x.step => flows'[s] = flows[s]
      BY <1>1, <2>1, <3>1 DEF FlowTable
    <3>3. new.id = flows[x.step].id /\ new.validators = flows[x.step].validators
      BY <1>1, <2>1 DEF FlowTable, Workflow
    <3> HIDE DEF new
    <3>4. Decided(new) = Decided(flows[x.step])
      BY <3>3 DEF Decided, Undecided
    <3>5. Progress(flows, nextFlow, flows', nextFlow')
      <4>1. ASSUME NEW s \in FlowSteps
            PROVE  Kept(flows[s], flows'[s])
        <5>1. CASE s = x.step
          BY <3>2, <3>3, <3>4, <5>1 DEF Kept
        <5>2. CASE s # x.step
          BY <3>2, <5>2 DEF Kept
        <5>3. QED
          BY <5>1, <5>2
      <4>2. nextFlow <= nextFlow'
        <5>1. nextFlow' = nextFlow
          BY <3>1
        <5>2. QED
          BY <1>1, <5>1
      <4>3. QED
        BY <4>1, <4>2 DEF Progress
    <3>6. ASSUME NEW s \in FlowSteps
          PROVE  /\ InOrder(flows'[s])
                 /\ flows'[s].id < nextFlow'
                 /\ flows'[s].id # 0 \/ flows'[s] = NoFlow
      BY <1>2, <3>1, <3>2, <3>3, <3>4 DEF GoodFlows, InOrder
    <3>7. QED
      BY <3>5, <3>6 DEF GoodFlows
  <2>4. QED
    BY <2>2, <2>3
<1>10. QED
  BY <1>3, <1>5, <1>6, <1>7, <1>8, <1>9
     DEF Continue, CheckPapers, UpdatePurchase, RemoveItems, InsertItems,
         ReadFlowToAdvance, WritePapers

-----------------------------------------------------------------------------
(* The requests, step by step.                                             *)

LEMMA InitGood == Init => TurnsStayGood
<1>1. SUFFICES ASSUME NEW start \in StartSteps, NEW op \in StartTypes,
                      NEW amount \in Amounts,
                      InitAt(start, op, amount),
                      req = [r \in Requests |-> Idle]
               PROVE  TurnsStayGood
  BY DEF Init
<1>2. /\ start \in FlowSteps /\ op \in OperationTypes /\ amount \in Nat
      /\ start \in Steps
  BY StartAssumption, AmountsAssumption DEF FlowSteps, Steps
<1>3. nextFlow = StepNumber[start] /\ nextFlow \in Nat \ {0}
  BY <1>1, <1>2, SuccessorsType DEF InitAt
<1>4. ASSUME NEW s \in FlowSteps
      PROVE  /\ InOrder(flows[s])
             /\ flows[s].id < nextFlow
             /\ flows[s].id # 0 \/ flows[s] = NoFlow
  <2>1. CASE StepBefore(s, start)
    <3> DEFINE roles == RequireValidators(s, op, amount)
               w == SignedFlow(s, op, amount)
    <3>1. flows[s] = w
      BY <1>1, <2>1 DEF InitAt
    <3>2. w.id = StepNumber[s]
      BY DEF SignedFlow
    <3>3. StepNumber[s] < StepNumber[start] /\ StepNumber[s] # 0
      BY <2>1, SuccessorsType DEF StepBefore
    <3>4. roles \in Seq(Roles)
      BY <1>2, RequireValidatorsType, SuccessorsType
    <3>5. w.validators = [i \in 1..Len(roles) |->
                            [role |-> roles[i], decision |-> "VALIDATED"]]
      BY DEF SignedFlow
    <3> HIDE DEF roles, w
    <3>6. Decided(w) = 1..Len(roles)
      BY <3>4, <3>5 DEF Decided, Undecided
    <3>7. InOrder(w)
      BY <3>4, <3>6 DEF InOrder
    <3>8. QED
      BY <1>3, <3>1, <3>2, <3>3, <3>7
  <2>2. CASE ~StepBefore(s, start)
    <3>1. flows[s] = NoFlow
      BY <1>1, <2>2 DEF InitAt
    <3>2. NoFlow.id = 0
      BY DEF NoFlow
    <3>3. QED
      BY <1>3, <3>1, <3>2, NoFlowGood
  <2>3. QED
    BY <2>1, <2>2
<1>5. \A r \in Requests : GoodRequest(req[r], flows, nextFlow)
  <2>1. GoodRequest(Idle, flows, nextFlow)
    BY <1>3 DEF GoodRequest, Idle, NoTurn, Markable
  <2>2. QED
    BY <1>1, <2>1
<1>6. QED
  BY <1>4, <1>5, Reading DEF GoodFlows

\* A turn that the authorisation returns may be marked.
LEMMA AuthorisedGood ==
    ASSUME TypeOK, TurnsStayGood, NEW turn \in AuthorisedTurns
    PROVE  /\ turn \in Turn
           /\ Markable(flows, nextFlow, turn.step, turn.id, turn.order)
<1>a. PICK s \in FlowSteps : \E i \in Undecided(flows[s]) :
            IsNext(flows[s], i) /\ turn = TurnOf(s, i)
  BY DEF AuthorisedTurns
<1>1. PICK i \in Undecided(flows[s]) : IsNext(flows[s], i) /\ turn = TurnOf(s, i)
  BY <1>a
<1>2. flows[s] \in Workflow
  BY DEF TypeOK
<1>3. /\ turn.step = s /\ turn.id = flows[s].id /\ turn.order = i
      /\ i \in 1..Len(flows[s].validators)
  BY <1>1, <1>2, WorkflowType DEF TurnOf
<1>4. 1..(i - 1) \subseteq Decided(flows[s])
  BY <1>1, <1>2, <1>3, WorkflowType DEF IsNext, Decided
<1>5. flows[s].id < nextFlow
  BY Reading DEF GoodFlows
<1>6. QED
  BY <1>3, <1>4, <1>5, TurnsType DEF Markable

\* A validation that is going to mark a good turn is a good request.
LEMMA ValidatingGood ==
    ASSUME NEW f \in FlowTable, NEW n \in Nat \ {0},
           NEW turn \in Turn, NEW seen \in Snapshot,
           Markable(f, n, turn.step, turn.id, turn.order),
           NEW w \in ValidationWrites(turn, seen)
    PROVE  GoodRequest(Validating(seen, w), f, n)
<1>1. w \in Seq(Plain \cup OwnWrites(turn, seen))
  BY ValidationWritesType
<1>2. ASSUME NEW i \in 1..Len(w), w[i].do = "mark"
      PROVE  Markable(f, n, w[i].step, w[i].id, w[i].order)
  <2>1. w[i] = MarkOf(turn)
    BY <1>1, <1>2, ElementOfSeq DEF Plain, OwnWrites, ReadFlow, AdvanceFlow
  <2>2. QED
    BY <2>1 DEF MarkOf, Mark
<1>3. /\ Validating(seen, w).turn = NoTurn
      /\ Validating(seen, w).todo = w
  BY DEF Validating, Planned, Idle
<1>4. Markable(f, n, NoTurn.step, NoTurn.id, NoTurn.order)
  BY DEF NoTurn, Markable
<1>5. QED
  BY <1>2, <1>3, <1>4 DEF GoodRequest

LEMMA ApprovalGood ==
    ASSUME TypeOK, TurnsStayGood, NEW r \in Requests, ApprovalNext(r)
    PROVE  \A q \in Requests : GoodRequest(req'[q], flows, nextFlow)
<1> DEFINE Good(x) == GoodRequest(x, flows, nextFlow)
<1>1. /\ flows \in FlowTable /\ nextFlow \in Nat \ {0}
      /\ req \in [Requests -> Request]
      /\ req[r] \in Request /\ req[r].turn \in Turn /\ req[r].seen \in Snapshot
  BY DEF TypeOK, FlowTable, Request
<1>2. \A q \in Requests : Good(req[q])
  BY Reading
<1>3. Good(Idle)
  BY <1>1 DEF GoodRequest, Idle, NoTurn, Markable
<1>4. ASSUME NEW x, Good(x), req' = [req EXCEPT ![r] = x]
      PROVE  \A q \in Requests : Good(req'[q])
  BY <1>1, <1>2, <1>4
<1>5. CASE Throw(r)
  BY <1>3, <1>4, <1>5 DEF Throw
<1>6. CASE ValidateAuthFirst(r)
  <2>1. PICK turn \in AuthorisedTurns :
            req' = [req EXCEPT ![r].op = "validate", ![r].turn = turn]
    BY <1>6 DEF ValidateAuthFirst
  <2> DEFINE x == [req[r] EXCEPT !.op = "validate", !.turn = turn]
  <2>2. req' = [req EXCEPT ![r] = x]
    BY <1>1, <2>1
  <2>3. x.turn = turn /\ x.todo = req[r].todo
    BY <1>1 DEF Request
  <2>4. Good(x)
    BY <1>2, <2>3, AuthorisedGood DEF GoodRequest
  <2>5. QED
    BY <1>4, <2>2, <2>4
<1>7. CASE ValidateLoadFirst(r)
  <2> DEFINE x == [req[r] EXCEPT !.op = "validate", !.seen = LoadedSnapshot]
  <2>1. req' = [req EXCEPT ![r] = x]
    BY <1>1, <1>7 DEF ValidateLoadFirst
  <2>2. x.turn = req[r].turn /\ x.todo = req[r].todo
    BY <1>1 DEF Request
  <2>3. Good(x)
    BY <1>2, <2>2 DEF GoodRequest
  <2>4. QED
    BY <1>4, <2>1, <2>3
<1>8. CASE ValidateLoad(r) /\ ~Throw(r)
  <2>1. AwaitsValidation
    BY <1>8 DEF ValidateLoad
  <2>2. PICK w \in ValidationWrites(req[r].turn, LoadedSnapshot) :
            req' = [req EXCEPT ![r] = Validating(LoadedSnapshot, w)]
    BY <1>8 DEF ValidateLoad
  <2>3. Markable(flows, nextFlow, req[r].turn.step, req[r].turn.id,
                 req[r].turn.order)
    BY <1>2 DEF GoodRequest
  <2>4. Good(Validating(LoadedSnapshot, w))
    BY <1>1, <2>1, <2>3, SnapshotType, ValidatingGood
  <2>5. QED
    BY <1>4, <2>2, <2>4
<1>9. CASE ValidateAuth(r) /\ ~Throw(r)
  <2>1. PICK turn \in AuthorisedTurns :
            \E w \in ValidationWrites(turn, req[r].seen) :
                req' = [req EXCEPT ![r] = Validating(req[r].seen, w)]
    BY <1>9 DEF ValidateAuth
  <2>2. PICK w \in ValidationWrites(turn, req[r].seen) :
                req' = [req EXCEPT ![r] = Validating(req[r].seen, w)]
    BY <2>1
  <2>3. Good(Validating(req[r].seen, w))
    BY <1>1, AuthorisedGood, ValidatingGood
  <2>4. QED
    BY <1>4, <2>2, <2>3
<1>10. CASE RefuseAuth(r)
  <2>1. PICK op \in {"reject", "requestChanges"}, turn \in AuthorisedTurns :
            req' = [req EXCEPT ![r].op = op, ![r].turn.role = turn.role]
    BY <1>10 DEF RefuseAuth
  <2> DEFINE x == [req[r] EXCEPT !.op = op, !.turn.role = turn.role]
  <2>2. req' = [req EXCEPT ![r] = x]
    BY <1>1, <2>1
  <2>3. /\ x.turn.step = req[r].turn.step /\ x.turn.id = req[r].turn.id
        /\ x.turn.order = req[r].turn.order /\ x.todo = req[r].todo
    BY <1>1 DEF Request, Turn
  <2>4. Good(x)
    BY <1>2, <2>3 DEF GoodRequest
  <2>5. QED
    BY <1>4, <2>2, <2>4
<1>11. CASE RefuseLoad(r) /\ ~Throw(r)
  <2> DEFINE x == [req[r] EXCEPT !.seen = LoadedSnapshot]
  <2>1. req' = [req EXCEPT ![r] = x]
    BY <1>1, <1>11 DEF RefuseLoad
  <2>2. x.turn = req[r].turn /\ x.todo = req[r].todo
    BY <1>1 DEF Request
  <2>3. Good(x)
    BY <1>2, <2>2 DEF GoodRequest
  <2>4. QED
    BY <1>4, <2>1, <2>3
<1>12. CASE RefuseTurn(r) /\ ~Throw(r)
  <2> DEFINE s == req[r].seen.step
             decision == DecisionOf(req[r].op)
             list(i) == << Mark(s, flows[s].id, i, decision), Close(decision) >>
  <2>1. PICK i \in 1..Len(flows[s].validators) :
            /\ IsNext(flows[s], i)
            /\ req' = [req EXCEPT ![r] = Planned(req[r].op, list(i))]
    BY <1>12 DEF RefuseTurn
  <2>2. s \in FlowSteps /\ flows[s] \in Workflow
    BY <1>1 DEF Snapshot, FlowTable
  <2>3. 1..(i - 1) \subseteq Decided(flows[s])
    BY <2>1, <2>2, WorkflowType DEF IsNext, Decided
  <2>4. Markable(flows, nextFlow, s, flows[s].id, i)
    BY <2>1, <2>2, <2>3, Reading DEF Markable, GoodFlows
  <2>5. Good(Planned(req[r].op, list(i)))
    <3> DEFINE y == Planned(req[r].op, list(i))
    <3>1. y.turn = NoTurn /\ y.todo = list(i)
      BY DEF Planned, Idle
    <3>2. /\ Len(list(i)) = 2
          /\ list(i)[1] = Mark(s, flows[s].id, i, decision)
          /\ list(i)[2].do # "mark"
      BY DEF Close, Update
    <3>3. Markable(flows, nextFlow, NoTurn.step, NoTurn.id, NoTurn.order)
      BY <1>3 DEF GoodRequest, Idle
    <3>4. Mark(s, flows[s].id, i, decision).step = s
          /\ Mark(s, flows[s].id, i, decision).id = flows[s].id
          /\ Mark(s, flows[s].id, i, decision).order = i
      BY DEF Mark
    <3> HIDE DEF y, list
    <3>5. ASSUME NEW j \in 1..Len(y.todo), y.todo[j].do = "mark"
          PROVE  Markable(flows, nextFlow,
                          y.todo[j].step, y.todo[j].id, y.todo[j].order)
      <4>1. j \in 1..2 /\ j # 2
        BY <3>1, <3>2, <3>5
      <4>2. y.todo[j] = Mark(s, flows[s].id, i, decision)
        BY <3>1, <3>2, <4>1
      <4>3. QED
        BY <2>4, <3>4, <4>2
    <3>6. Markable(flows, nextFlow, y.turn.step, y.turn.id, y.turn.order)
      BY <3>1, <3>3
    <3>7. Good(y)
      BY <3>5, <3>6 DEF GoodRequest
    <3>8. QED
      BY <3>7 DEF y
  <2>6. QED
    BY <1>4, <2>1, <2>5
<1>13. QED
  BY <1>5, <1>6, <1>7, <1>8, <1>9, <1>10, <1>11, <1>12 DEF ApprovalNext

\* While the requests wait for a write, none gets a mark it did not have.
LEMMA ContinueRequests ==
    ASSUME TypeOK, TurnsStayGood, NEW r \in Requests, Continue(r)
    PROVE  \A q \in Requests : GoodRequest(req'[q], flows, nextFlow)
<1> DEFINE Good(x) == GoodRequest(x, flows, nextFlow)
           rest == [req[r] EXCEPT !.todo = Tail(req[r].todo)]
<1>1. /\ flows \in FlowTable /\ nextFlow \in Nat \ {0}
      /\ req \in [Requests -> Request]
      /\ req[r] \in Request
  BY DEF TypeOK, FlowTable
<1>2. \A q \in Requests : Good(req[q])
  BY Reading
<1>3. Good(Idle)
  BY <1>1 DEF GoodRequest, Idle, NoTurn, Markable
<1>4. ASSUME NEW x, Good(x), req' = [req EXCEPT ![r] = x]
      PROVE  \A q \in Requests : Good(req'[q])
  BY <1>1, <1>2, <1>4
<1>5. req[r].todo # << >>
  BY DEF Continue, CheckPapers, UpdatePurchase, RemovePurchase, RemoveItems,
         InsertItems, RemoveFlows, InsertFlow, MarkValidator,
         ReadFlowToAdvance, WriteFlowAdvance, WritePapers, Awaits
<1>6. Good(rest)
  BY <1>1, <1>2, <1>5, AnsweredGood
<1>7. CASE Throw(r)
  BY <1>3, <1>4, <1>7 DEF Throw
<1>8. CASE Done(r)
  BY <1>3, <1>4, <1>6, <1>8 DEF Done
<1>9. CASE ReadFlowToAdvance(r) /\ ~Throw(r)
  <2> DEFINE all == Complete(flows[Head(req[r].todo).step])
             x == [req[r] EXCEPT !.allSigned = all, !.todo = Tail(req[r].todo)]
  <2>1. req' = [req EXCEPT ![r] = x]
    BY <1>1, <1>9 DEF ReadFlowToAdvance
  <2>2. x.turn = rest.turn /\ x.todo = rest.todo
    BY <1>1 DEF Request
  <2>3. Good(x)
    BY <1>6, <2>2 DEF GoodRequest
  <2>4. QED
    BY <1>4, <2>1, <2>3
<1>10. QED
  BY <1>7, <1>8, <1>9
     DEF Continue, CheckPapers, UpdatePurchase, RemovePurchase, RemoveItems,
         InsertItems, RemoveFlows, InsertFlow, MarkValidator,
         WriteFlowAdvance, WritePapers

LEMMA RunsGood ==
    ASSUME TypeOK, TurnsStayGood, NEW r \in Requests, RunsPlain(r)
    PROVE  \A q \in Requests : GoodRequest(req'[q], flows, nextFlow)
<1>1. PICK op \in Endpoints \ ApprovalOps, w \in Seq(Plain) : Runs(r, op, w)
  BY DEF RunsPlain
<1>2. /\ flows \in FlowTable /\ nextFlow \in Nat \ {0}
      /\ req \in [Requests -> Request]
  BY DEF TypeOK, FlowTable
<1>3. GoodRequest(Planned(op, w), flows, nextFlow)
  BY <1>2, PlannedGood
<1>4. QED
  BY <1>1, <1>2, <1>3, Reading DEF Runs

-----------------------------------------------------------------------------
(* The theorems.                                                           *)

\* Every step makes progress only, and keeps what TurnsStayGood says.
LEMMA StepGood ==
    ASSUME TypeOK, TurnsStayGood, [Next]_vars
    PROVE  /\ TurnsStayGood'
           /\ Progress(flows, nextFlow, flows', nextFlow')
<1>1. TypeOK'
  BY StepType
<1>2. /\ flows \in FlowTable /\ flows' \in FlowTable
      /\ nextFlow \in Nat \ {0} /\ nextFlow' \in Nat \ {0}
      /\ req' \in [Requests -> Request]
  BY <1>1 DEF TypeOK, FlowTable
<1>3. SUFFICES /\ GoodFlows(flows', nextFlow')
               /\ Progress(flows, nextFlow, flows', nextFlow')
               /\ \A q \in Requests : GoodRequest(req'[q], flows, nextFlow)
  <2>1. \A q \in Requests : GoodRequest(req'[q], flows', nextFlow')
    BY <1>2, <1>3, GoodKept
  <2>2. QED
    BY <1>3, <2>1, Reading
<1>4. ASSUME UNCHANGED << flows, nextFlow >>
      PROVE  /\ GoodFlows(flows', nextFlow')
             /\ Progress(flows, nextFlow, flows', nextFlow')
  BY <1>2, <1>4, Reading DEF Progress, Kept
<1>5. CASE UNCHANGED vars
  BY <1>4, <1>5, Reading DEF vars
<1>6. CASE \E r \in Requests : ApprovalNext(r)
  <2>1. PICK r \in Requests : ApprovalNext(r)
    BY <1>6
  <2>2. UNCHANGED << flows, nextFlow >>
    BY <2>1 DEF ApprovalNext, ValidateAuthFirst, ValidateLoadFirst,
                ValidateLoad, ValidateAuth, RefuseAuth, RefuseLoad, RefuseTurn
  <2>3. QED
    BY <1>4, <2>1, <2>2, ApprovalGood
<1>7. CASE \E r \in Requests : RunsPlain(r)
  <2>1. PICK r \in Requests : RunsPlain(r)
    BY <1>7
  <2>2. UNCHANGED << flows, nextFlow >>
    BY <2>1 DEF RunsPlain, Runs
  <2>3. QED
    BY <1>4, <2>1, <2>2, RunsGood
<1>8. CASE \E r \in Requests : Continue(r)
  BY <1>1, <1>8, ContinueFlows, ContinueRequests
<1>9. CASE \E r \in Requests : Fail(r)
  <2>1. PICK r \in Requests : Fail(r)
    BY <1>9
  <2>2. UNCHANGED << flows, nextFlow >>
    BY <2>1 DEF Fail
  <2>3. GoodRequest(Idle, flows, nextFlow)
    BY <1>2 DEF GoodRequest, Idle, NoTurn, Markable
  <2>4. \A q \in Requests : GoodRequest(req'[q], flows, nextFlow)
    BY <2>1, <2>3, Reading DEF Fail, Throw, TypeOK
  <2>5. QED
    BY <1>4, <2>2, <2>4
<1>10. QED
  BY <1>5, <1>6, <1>7, <1>8, <1>9, InertIsStill, AuthoringRuns,
     SourcingRuns, DocumentsRuns,
     OrderedIsPlain DEF Next

\* The turn a request has looked up stays good until it is written, whatever
\* the other requests do meanwhile.
THEOREM TurnsAlwaysGood == Spec => []TurnsStayGood
<1>1. Init => TypeOK /\ TurnsStayGood
  BY InitType, InitGood
<1>2. TypeOK /\ TurnsStayGood /\ [Next]_vars => TypeOK' /\ TurnsStayGood'
  BY StepType, StepGood
<1>3. QED
  BY <1>1, <1>2, PTL DEF Spec

\* No validator is overtaken.
THEOREM ValidatorsDecideInOrder == Spec => []ApprovalsInOrder
<1>1. TurnsStayGood => ApprovalsInOrder
  BY DEF TurnsStayGood
<1>2. QED
  BY <1>1, TurnsAlwaysGood, PTL

\* A workflow loses a decision only by being deleted.
THEOREM DecisionsAreKept == Spec => NoDecisionWithdrawn
<1> DEFINE OnlyGains ==
        \A s \in FlowSteps : flows'[s].id = flows[s].id
                             => Decided(flows[s]) \subseteq Decided(flows'[s])
<1>1. TypeOK /\ TurnsStayGood /\ [Next]_vars => OnlyGains
  <2>1. SUFFICES ASSUME TypeOK, TurnsStayGood, [Next]_vars,
                        NEW s \in FlowSteps, flows'[s].id = flows[s].id
                 PROVE  Decided(flows[s]) \subseteq Decided(flows'[s])
    OBVIOUS
  <2>2. Progress(flows, nextFlow, flows', nextFlow')
    BY <2>1, StepGood
  <2>3. flows[s].id < nextFlow /\ (flows[s].id # 0 \/ flows[s] = NoFlow)
    BY <2>1, Reading DEF GoodFlows
  <2>4. nextFlow \in Nat /\ flows[s].id \in Nat
    BY <2>1 DEF TypeOK, Workflow
  <2>5. CASE Kept(flows[s], flows'[s])
    BY <2>5 DEF Kept
  <2>6. CASE flows'[s] = NoFlow
    BY <2>1, <2>3, <2>6 DEF NoFlow
  <2>7. CASE flows'[s].id = nextFlow
    BY <2>1, <2>3, <2>4, <2>7
  <2>8. QED
    BY <2>2, <2>5, <2>6, <2>7 DEF Progress
<1>2. TypeOK /\ TurnsStayGood /\ [Next]_vars => [OnlyGains]_vars
  BY <1>1
<1>3. QED
  BY <1>2, TypeCorrect, TurnsAlwaysGood, PTL DEF Spec, NoDecisionWithdrawn

-----------------------------------------------------------------------------
(* Flags and moves: nothing before the last signature.                     *)

\* The workflow (step, id) stands in f.
StandsIn(f, step, id) == id # 0 /\ f[step].id = id

Marks(w) == w.do = "mark"
Advances(w) == w.do \in {"readFlow", "advanceFlow"}
MovesStep(w) == w.do = "update" /\ w.step # Keep

\* The list still has the mark of that validator of the workflow (step, id).
WillMark(todo, step, id, order) ==
    \E i \in 1..Len(todo) :
        /\ Marks(todo[i])
        /\ todo[i].step = step /\ todo[i].id = id /\ todo[i].order = order

\* What SnapshotsStaySound says of one request, and of the workflows.
SoundRequest(x, f, n) ==
    LET step == x.seen.step
        id == x.seen.id
        Left == Undecided(f[step])
    IN  /\ id < n
        /\ StandsIn(f, step, id) => Left \subseteq x.seen.open
        /\ \A s \in FlowSteps : StandsIn(f, s, x.turn.id) => s = x.turn.step
        /\ \A i \in 1..Len(x.todo) :
                Advances(x.todo[i]) => x.todo[i].step = step /\ x.todo[i].id = id
        /\ x.op = "validate" /\ StandsIn(f, step, id)
           /\ (\E i \in 1..Len(x.todo) : MovesStep(x.todo[i]))
                => \A k \in Left : WillMark(x.todo, step, id, k)
        /\ x.allSigned => id # 0 /\ (StandsIn(f, step, id) => Left = {})

SoundFlows(f) ==
    /\ \A s \in FlowSteps : f[s].isComplete => Undecided(f[s]) = {}
    /\ \A s \in FlowSteps, t \in FlowSteps :
            f[s].id # 0 /\ f[s].id = f[t].id => s = t

-----------------------------------------------------------------------------
LEMMA ReadingSound ==
    /\ SnapshotsStaySound <=>
            /\ SoundFlows(flows)
            /\ \A r \in Requests : SoundRequest(req[r], flows, nextFlow)
    /\ SnapshotsStaySound' <=>
            /\ SoundFlows(flows')
            /\ \A r \in Requests : SoundRequest(req'[r], flows', nextFlow')
<1>1. ASSUME NEW r \in Requests
      PROVE  SnapshotSound(r) <=> SoundRequest(req[r], flows, nextFlow)
  <2>1. \A step, id, k : k \in Awaited(r, step, id)
                            <=> WillMark(req[r].todo, step, id, k)
    BY DEF Awaited, WillMark, Pending, Marks
  <2>2. Moves(r) <=> \E i \in 1..Len(req[r].todo) : MovesStep(req[r].todo[i])
    BY DEF Moves, MovesStep, Pending
  <2>3. QED
    BY <2>1, <2>2 DEF SnapshotSound, SoundRequest, Stands, StandsIn, Pending, Advances
<1>2. ASSUME NEW r \in Requests
      PROVE  SnapshotSound(r)' <=> SoundRequest(req'[r], flows', nextFlow')
  <2>1. \A step, id, k : k \in Awaited(r, step, id)'
                            <=> WillMark(req'[r].todo, step, id, k)
    BY DEF Awaited, WillMark, Pending, Marks
  <2>2. Moves(r)' <=> \E i \in 1..Len(req'[r].todo) : MovesStep(req'[r].todo[i])
    BY DEF Moves, MovesStep, Pending
  <2>3. QED
    BY <2>1, <2>2 DEF SnapshotSound, SoundRequest, Stands, StandsIn, Pending, Advances
<1>3. QED
  BY <1>1, <1>2 DEF SnapshotsStaySound, CompleteFlagSound, SoundFlows, Exists

LEMMA KeptShrinks ==
    ASSUME NEW v \in Workflow, NEW w \in Workflow, Kept(v, w)
    PROVE  w.id = v.id /\ Undecided(w) \subseteq Undecided(v)
<1>1. /\ Undecided(w) \subseteq 1..Len(w.validators)
      /\ Len(w.validators) = Len(v.validators)
      /\ Decided(v) \subseteq Decided(w)
  BY WorkflowType DEF Kept
<1>2. ASSUME NEW i \in Undecided(w)
      PROVE  i \in Undecided(v)
  BY <1>1, <1>2 DEF Decided
<1>3. QED
  BY <1>2 DEF Kept

\* A workflow known before the step that still stands after it was kept.
LEMMA StillStands ==
    ASSUME NEW f \in FlowTable, NEW n \in Nat, NEW g \in FlowTable, NEW m \in Nat,
           Progress(f, n, g, m),
           NEW step \in FlowSteps, NEW id \in Nat, id < n, StandsIn(g, step, id)
    PROVE  StandsIn(f, step, id) /\ Undecided(g[step]) \subseteq Undecided(f[step])
<1>1. g[step] # NoFlow /\ g[step].id # n
  BY DEF StandsIn, NoFlow
<1>2. Kept(f[step], g[step])
  BY <1>1 DEF Progress
<1>3. f[step] \in Workflow /\ g[step] \in Workflow
  BY DEF FlowTable
<1>4. QED
  BY <1>2, <1>3, KeptShrinks DEF StandsIn

\* What a request has seen stays sound while others make progress.
LEMMA SoundKept ==
    ASSUME NEW f \in FlowTable, NEW n \in Nat, NEW g \in FlowTable, NEW m \in Nat,
           Progress(f, n, g, m), NEW x \in Request,
           GoodRequest(x, f, n), SoundRequest(x, f, n)
    PROVE  SoundRequest(x, g, m)
<1> DEFINE step == x.seen.step
           id == x.seen.id
<1>1. /\ step \in FlowSteps /\ id \in Nat /\ id < n
      /\ x.turn.step \in FlowSteps /\ x.turn.id \in Nat /\ x.turn.id < n
  BY DEF Request, Snapshot, Turn, SoundRequest, GoodRequest, Markable
<1>2. StandsIn(g, step, id) => /\ StandsIn(f, step, id)
                               /\ Undecided(g[step]) \subseteq Undecided(f[step])
  BY <1>1, StillStands
<1>3. \A s \in FlowSteps : StandsIn(g, s, x.turn.id) => StandsIn(f, s, x.turn.id)
  BY <1>1, StillStands
<1>4. id < m
  BY <1>1 DEF Progress
<1>5. QED
  BY <1>2, <1>3, <1>4 DEF SoundRequest

\* A request that is idle, or has only plain writes left, is sound.
LEMMA PlannedSound ==
    ASSUME NEW f \in FlowTable, NEW n \in Nat \ {0},
           NEW op \in Endpoints \ {"validate"}, NEW w \in Seq(Plain)
    PROVE  SoundRequest(Planned(op, w), f, n) /\ SoundRequest(Idle, f, n)
<1>1. \A i \in 1..Len(w) : ~Advances(w[i])
  BY ElementOfSeq DEF Plain, Advances
<1>2. /\ Planned(op, w).turn = NoTurn /\ Planned(op, w).seen = NotLoaded
      /\ Planned(op, w).allSigned = FALSE /\ Planned(op, w).todo = w
      /\ Planned(op, w).op = op
  BY DEF Planned, Idle
<1>3. /\ Idle.turn = NoTurn /\ Idle.seen = NotLoaded /\ Idle.allSigned = FALSE
      /\ Idle.todo = << >> /\ Idle.op = "idle"
  BY DEF Idle
<1>4. NoTurn.id = 0 /\ NotLoaded.id = 0 /\ NotLoaded.open = {}
  BY DEF NoTurn, NotLoaded
<1>5. SoundRequest(Planned(op, w), f, n)
  BY <1>1, <1>2, <1>4 DEF SoundRequest, StandsIn
<1>6. SoundRequest(Idle, f, n)
  BY <1>3, <1>4 DEF SoundRequest, StandsIn
<1>7. QED
  BY <1>5, <1>6

\* After its next write a request has fewer to do; if that was a mark of the
\* workflow it has seen, that validator has decided.
LEMMA AnsweredSound ==
    ASSUME NEW f \in FlowTable, NEW n \in Nat, NEW x \in Request,
           x.todo # << >>, SoundRequest(x, f, n),
           Marks(Head(x.todo)) /\ StandsIn(f, Head(x.todo).step, Head(x.todo).id)
                => Head(x.todo).order \notin Undecided(f[Head(x.todo).step])
    PROVE  SoundRequest([x EXCEPT !.todo = Tail(x.todo)], f, n)
<1> DEFINE rest == Tail(x.todo)
           y == [x EXCEPT !.todo = rest]
           step == x.seen.step
           id == x.seen.id
<1>1. /\ x.todo \in Seq(Write)
      /\ Len(rest) = Len(x.todo) - 1
      /\ \A i \in 1..Len(rest) : rest[i] = x.todo[i + 1]
  BY HeadTailProperties DEF Request
<1>2. \A i \in 1..Len(rest) : i + 1 \in 1..Len(x.todo)
  BY <1>1
<1>3. \A i \in 1..Len(x.todo) :
            x.todo[i] = Head(x.todo) \/ \E j \in 1..Len(rest) : rest[j] = x.todo[i]
  <2>1. ASSUME NEW i \in 1..Len(x.todo), i # 1
        PROVE  \E j \in 1..Len(rest) : rest[j] = x.todo[i]
    <3>1. i - 1 \in 1..Len(rest) /\ (i - 1) + 1 = i
      BY <1>1, <2>1
    <3>2. rest[i - 1] = x.todo[i]
      BY <1>1, <3>1
    <3>3. QED
      BY <3>1, <3>2
  <2>2. x.todo[1] = Head(x.todo)
    BY <1>1
  <2>3. QED
    BY <2>1, <2>2
<1>4. /\ y.op = x.op /\ y.turn = x.turn /\ y.seen = x.seen
      /\ y.allSigned = x.allSigned /\ y.todo = rest
  BY DEF Request
<1> HIDE DEF rest, y
<1>5. ASSUME x.op = "validate", StandsIn(f, step, id),
             NEW i \in 1..Len(rest), MovesStep(rest[i]),
             NEW k \in Undecided(f[step])
      PROVE  WillMark(rest, step, id, k)
  <2>1. WillMark(x.todo, step, id, k)
    BY <1>1, <1>2, <1>5 DEF SoundRequest
  <2>2. PICK j \in 1..Len(x.todo) :
            /\ Marks(x.todo[j]) /\ x.todo[j].step = step
            /\ x.todo[j].id = id /\ x.todo[j].order = k
    BY <2>1 DEF WillMark
  <2>3. x.todo[j] # Head(x.todo)
    BY <1>5, <2>2
  <2>4. QED
    BY <1>3, <2>2, <2>3 DEF WillMark
<1>6. \A i \in 1..Len(rest) :
            Advances(rest[i]) => rest[i].step = step /\ rest[i].id = id
  BY <1>1, <1>2 DEF SoundRequest
<1>7. SoundRequest(y, f, n)
  BY <1>4, <1>5, <1>6 DEF SoundRequest
<1>8. QED
  BY <1>7 DEF y, rest

-----------------------------------------------------------------------------
(* The lists of a validation.                                              *)

\* A validation marks its turn, advances what it has seen, and moves the
\* purchase only if it counts itself as the last to sign, with its last write.
LEMMA ValidationLists ==
    ASSUME NEW turn \in Turn, NEW seen \in Snapshot,
           NEW w \in ValidationWrites(turn, seen)
    PROVE  /\ \A i \in 1..Len(w) :
                Advances(w[i]) => w[i].step = seen.step /\ w[i].id = seen.id
           /\ \E i \in 1..Len(w) : w[i] = MarkOf(turn)
           /\ (\E i \in 1..Len(w) : MovesStep(w[i])) => SignsLast(turn, seen)
           /\ \A i \in 1..Len(w) :
                MovesStep(w[i]) => i = Len(w) /\ w[i].step = NextStepMap[seen.step]
<1> DEFINE status == SetStatus(ValidatedStatus(turn, seen))
           completion == CompletionWrites(turn, seen)
<1>1. w \in Seq(Plain \cup OwnWrites(turn, seen))
  BY ValidationWritesType
<1>2. ASSUME NEW i \in 1..Len(w), Advances(w[i])
      PROVE  w[i].step = seen.step /\ w[i].id = seen.id
  <2>1. w[i] \in OwnWrites(turn, seen)
    BY <1>1, <1>2, ElementOfSeq DEF Plain, Advances
  <2>2. QED
    BY <1>2, <2>1 DEF OwnWrites, MarkOf, Mark, ReadFlow, AdvanceFlow, Advances
<1>3. PICK p \in ParallelWrites(turn, seen) : w = (p \o << status >>) \o completion
  BY DEF ValidationWrites
<1>4. /\ Len(p) = 3
      /\ \E i \in 1..3 : p[i] = MarkOf(turn)
      /\ \A i \in 1..3 : p[i] \in OwnWrites(turn, seen)
      /\ p \in Seq(OwnWrites(turn, seen))
  <2> DEFINE mark == MarkOf(turn)
             read == ReadFlow(seen.step, seen.id)
             write == AdvanceFlow(seen.step, seen.id)
             Own == OwnWrites(turn, seen)
  <2>1. p \in { << mark, read, write >>, << read, mark, write >>,
                << read, write, mark >> }
    BY <1>3 DEF ParallelWrites, MarkOf
  <2>2. {mark, read, write} = Own
    BY DEF OwnWrites
  <2> HIDE DEF mark, read, write, Own
  <2>3. CASE p = << mark, read, write >>
    BY <2>2, <2>3 DEF mark, Own
  <2>4. CASE p = << read, mark, write >>
    BY <2>2, <2>4 DEF mark, Own
  <2>5. CASE p = << read, write, mark >>
    BY <2>2, <2>5 DEF mark, Own
  <2>6. QED
    BY <2>1, <2>3, <2>4, <2>5
<1> HIDE DEF status
<1> DEFINE move == MoveTo(NextStepMap[seen.step],
                          StatusOnEntry(NextStepMap[seen.step]))
<1>5. /\ completion = << >> \/ completion = << move >>
      /\ ~SignsLast(turn, seen) => completion = << >>
  BY DEF CompletionWrites
<1> HIDE DEF completion, move
<1>6. /\ Len(w) >= 4
      /\ \A i \in 1..3 : w[i] = p[i]
      /\ w[4] = status
      /\ ~SignsLast(turn, seen) => Len(w) = 4
      /\ Len(w) = 4 \/ (Len(w) = 5 /\ w[5] = move)
  <2> DEFINE Own == OwnWrites(turn, seen)
             All == Own \cup {status, move}
  <2>1. p \in Seq(All) /\ completion \in Seq(All) /\ << status >> \in Seq(All)
    <3>1. Seq(Own) \subseteq Seq(All)
      BY SeqMonotonic
    <3>2. status \in All /\ move \in All
      OBVIOUS
    <3> HIDE DEF All
    <3>3. << status >> \in Seq(All) /\ << move >> \in Seq(All) /\ << >> \in Seq(All)
      BY <3>2
    <3>4. QED
      BY <1>4, <1>5, <3>1, <3>3
  <2> DEFINE q == p \o << status >>
  <2> HIDE DEF All
  <2>2. /\ q \in Seq(All) /\ Len(q) = 4 /\ q[4] = status
        /\ \A i \in 1..3 : q[i] = p[i]
    <3>1. Len(p) = 3 /\ Len(<< status >>) = 1 /\ << status >>[1] = status
      BY <1>4
    <3>2. /\ q \in Seq(All)
          /\ Len(q) = Len(p) + Len(<< status >>)
          /\ \A i \in 1..(Len(p) + Len(<< status >>)) :
                q[i] = IF i <= Len(p) THEN p[i] ELSE << status >>[i - Len(p)]
      BY <2>1, ConcatProperties
    <3>3. QED
      BY <3>1, <3>2
  <2> HIDE DEF q
  <2>3. /\ Len(q \o completion) = Len(q) + Len(completion)
        /\ \A i \in 1..4 : (q \o completion)[i] = q[i]
        /\ Len(completion) = 1 => (q \o completion)[5] = completion[1]
        /\ Len(completion) \in Nat
    <3>1. Len(completion) \in Nat /\ Len(q) = 4
      BY <2>1, <2>2
    <3>2. /\ Len(q \o completion) = Len(q) + Len(completion)
          /\ \A i \in 1..(Len(q) + Len(completion)) :
                (q \o completion)[i] = IF i <= Len(q) THEN q[i]
                                        ELSE completion[i - Len(q)]
      BY <2>1, <2>2, ConcatProperties
    <3>3. \A i \in 1..4 : i \in 1..(Len(q) + Len(completion)) /\ i <= Len(q)
      BY <3>1
    <3>4. ASSUME Len(completion) = 1
          PROVE  /\ 5 \in 1..(Len(q) + Len(completion))
                 /\ ~(5 <= Len(q)) /\ 5 - Len(q) = 1
      BY <3>1, <3>4
    <3>5. QED
      BY <3>1, <3>2, <3>3, <3>4
  <2>4. w = q \o completion
    BY <1>3 DEF q
  <2>5. \/ completion = << >> /\ Len(completion) = 0
        \/ completion = << move >> /\ Len(completion) = 1 /\ completion[1] = move
    BY <1>5
  <2>6. QED
    BY <1>5, <2>2, <2>3, <2>4, <2>5
<1>7. \E i \in 1..Len(w) : w[i] = MarkOf(turn)
  <2>1. Len(w) \in Nat /\ 1..3 \subseteq 1..Len(w)
    BY <1>1, <1>6
  <2>2. QED
    BY <1>4, <1>6, <2>1
<1>8. \A i \in 1..4 : ~MovesStep(w[i])
  <2>1. ASSUME NEW i \in 1..3
        PROVE  ~MovesStep(w[i])
    BY <1>4, <1>6, <2>1
       DEF OwnWrites, MarkOf, Mark, ReadFlow, AdvanceFlow, MovesStep
  <2>2. ~MovesStep(w[4])
    BY <1>6 DEF status, SetStatus, Update, MovesStep
  <2>3. QED
    BY <2>1, <2>2
<1>9. Len(w) = 5 => w[5].step = NextStepMap[seen.step]
  BY <1>6 DEF move, MoveTo, Update
<1>10. \A i \in 1..Len(w) : i \in 1..4 \/ (i = 5 /\ Len(w) = 5)
  <2>1. \A n \in {4, 5} : \A i \in 1..n : i \in 1..4 \/ (i = 5 /\ n = 5)
    OBVIOUS
  <2>2. Len(w) \in {4, 5}
    BY <1>6
  <2>3. QED
    BY <2>1, <2>2, Zenon
<1>11. QED
  BY <1>2, <1>6, <1>7, <1>8, <1>9, <1>10

\* A validation of a good turn and a sound snapshot is a sound request.
LEMMA ValidatingSound ==
    ASSUME NEW f \in FlowTable, NEW n \in Nat \ {0}, SoundFlows(f),
           NEW turn \in Turn, NEW seen \in Snapshot, seen.id < n,
           \A s \in FlowSteps : StandsIn(f, s, turn.id) => s = turn.step,
           StandsIn(f, seen.step, seen.id)
                => Undecided(f[seen.step]) \subseteq seen.open,
           NEW w \in ValidationWrites(turn, seen)
    PROVE  SoundRequest(Validating(seen, w), f, n)
<1> DEFINE x == Validating(seen, w)
<1>1. /\ x.op = "validate" /\ x.turn = NoTurn /\ x.seen = seen
      /\ x.allSigned = FALSE /\ x.todo = w
  BY DEF Validating, Planned, Idle
<1> HIDE DEF x
<1>2. seen.step \in FlowSteps
  BY DEF Snapshot
<1>3. ASSUME StandsIn(f, seen.step, seen.id),
             \E i \in 1..Len(w) : MovesStep(w[i]),
             NEW k \in Undecided(f[seen.step])
      PROVE  WillMark(w, seen.step, seen.id, k)
  <2>1. k \in seen.open /\ SignsLast(turn, seen)
    BY <1>3, ValidationLists
  <2>2. turn.id = seen.id /\ k = turn.order
    BY <2>1 DEF SignsLast
  <2>3. turn.step = seen.step
    BY <1>2, <1>3, <2>2
  <2>4. PICK i \in 1..Len(w) : w[i] = MarkOf(turn)
    BY ValidationLists
  <2>5. QED
    BY <2>2, <2>3, <2>4 DEF WillMark, Marks, MarkOf, Mark
<1>4. \A i \in 1..Len(w) :
            Advances(w[i]) => w[i].step = seen.step /\ w[i].id = seen.id
  BY ValidationLists
<1>5. \A s \in FlowSteps : ~StandsIn(f, s, NoTurn.id)
  BY DEF NoTurn, StandsIn
<1>6. SoundRequest(x, f, n)
  BY <1>1, <1>3, <1>4, <1>5 DEF SoundRequest
<1>7. QED
  BY <1>6 DEF x

-----------------------------------------------------------------------------
(* The workflows, step by step.                                            *)

LEMMA NoFlowSound == NoFlow.id = 0 /\ NoFlow.isComplete = FALSE
  BY DEF NoFlow

\* Deleting workflows keeps the others sound.
LEMMA DeletedSound ==
    ASSUME NEW f \in FlowTable, SoundFlows(f), NEW g \in FlowTable,
           \A s \in FlowSteps : g[s] = f[s] \/ g[s] = NoFlow
    PROVE  SoundFlows(g)
  BY NoFlowSound DEF SoundFlows

\* So does any change that keeps the ids and sets no flag of a workflow in
\* which a validator is left.
LEMMA SameIdsSound ==
    ASSUME NEW f \in FlowTable, SoundFlows(f), NEW g \in FlowTable,
           \A s \in FlowSteps : /\ g[s].id = f[s].id
                                /\ g[s].isComplete => Undecided(g[s]) = {}
    PROVE  SoundFlows(g)
  BY DEF SoundFlows

LEMMA ContinueSoundFlows ==
    ASSUME TypeOK, TypeOK', TurnsStayGood, SnapshotsStaySound,
           NEW r \in Requests, Continue(r)
    PROVE  SoundFlows(flows')
<1> DEFINE x == Head(req[r].todo)
<1>1. /\ flows \in FlowTable /\ flows' \in FlowTable
      /\ nextFlow \in Nat \ {0}
      /\ req[r] \in Request
  BY DEF TypeOK, FlowTable
<1>2. SoundFlows(flows) /\ SoundRequest(req[r], flows, nextFlow)
  BY ReadingSound
<1>3. CASE \A s \in FlowSteps : flows'[s] = flows[s] \/ flows'[s] = NoFlow
  BY <1>1, <1>2, <1>3, DeletedSound
<1>4. CASE RemovePurchase(r)
  BY <1>3, <1>4 DEF RemovePurchase
<1>5. CASE RemoveFlows(r)
  BY <1>3, <1>5 DEF RemoveFlows
<1>6. CASE InsertFlow(r)
  <2>1. x.step \in FlowSteps
    BY <1>6, NextWriteType, WriteFields DEF InsertFlow
  <2> DEFINE new == NewFlow(nextFlow, x.roles, x.signed)
  <2>2. CASE UNCHANGED flows
    BY <1>3, <2>2
  <2>3. CASE ~UNCHANGED flows
    <3>1. new.id = nextFlow /\ new.isComplete = FALSE
      BY DEF NewFlow
    <3> HIDE DEF new
    <3>2. /\ flows'[x.step] = new
          /\ \A s \in FlowSteps : s # x.step => flows'[s] = flows[s]
      BY <1>1, <1>6, <2>1, <2>3 DEF InsertFlow, FlowTable, new
    <3>3. \A s \in FlowSteps : flows[s].id < nextFlow /\ flows[s].id \in Nat
      BY <1>1, Reading DEF GoodFlows, FlowTable, Workflow
    <3>4. \A s \in FlowSteps : flows'[s].isComplete => Undecided(flows'[s]) = {}
      BY <1>2, <3>1, <3>2 DEF SoundFlows
    <3>5. ASSUME NEW s \in FlowSteps, NEW t \in FlowSteps,
                 flows'[s].id # 0, flows'[s].id = flows'[t].id
          PROVE  s = t
      <4>1. CASE s = x.step \/ t = x.step
        BY <1>1, <3>1, <3>2, <3>3, <3>5, <4>1
      <4>2. CASE s # x.step /\ t # x.step
        BY <1>2, <3>2, <3>5, <4>2 DEF SoundFlows
      <4>3. QED
        BY <4>1, <4>2
    <3>6. QED
      BY <3>4, <3>5 DEF SoundFlows
  <2>4. QED
    BY <2>2, <2>3
<1>7. CASE MarkValidator(r)
  <2>1. x.step \in FlowSteps
    BY <1>7, NextWriteType, WriteFields DEF MarkValidator
  <2>2. \A s \in FlowSteps : /\ flows'[s].id = flows[s].id
                             /\ flows'[s].isComplete = flows[s].isComplete
    <3>1. CASE UNCHANGED flows
      BY <3>1
    <3>2. CASE ~UNCHANGED flows
      <4>1. flows' = [flows EXCEPT
                        ![x.step].validators[x.order].decision = x.decision]
        BY <1>7, <3>2 DEF MarkValidator
      <4>2. QED
        BY <1>1, <2>1, <4>1 DEF FlowTable, Workflow
    <3>3. QED
      BY <3>1, <3>2
  <2>3. Progress(flows, nextFlow, flows', nextFlow')
    BY ContinueFlows
  <2>4. ASSUME NEW s \in FlowSteps, flows'[s].isComplete
        PROVE  Undecided(flows'[s]) = {}
    <3>1. Undecided(flows[s]) = {} /\ flows'[s] # NoFlow
      BY <1>2, <2>2, <2>4, NoFlowSound DEF SoundFlows
    <3>2. flows'[s].id < nextFlow
      BY <2>2, Reading DEF GoodFlows
    <3>3. Kept(flows[s], flows'[s])
      BY <1>1, <2>3, <3>1, <3>2 DEF Progress
    <3>4. flows[s] \in Workflow /\ flows'[s] \in Workflow
      BY <1>1 DEF FlowTable
    <3>5. QED
      BY <3>1, <3>3, <3>4, KeptShrinks
  <2>5. QED
    BY <1>1, <1>2, <2>2, <2>4, SameIdsSound
<1>8. CASE WriteFlowAdvance(r)
  <2>1. x.step \in FlowSteps /\ x.do = "advanceFlow" /\ req[r].todo # << >>
        /\ req[r].todo \in Seq(Write)
    BY <1>8, NextWriteType, WriteFields DEF WriteFlowAdvance
  <2>2. CASE UNCHANGED flows
    BY <1>3, <2>2
  <2>3. CASE ~UNCHANGED flows
    <3>1. /\ StandsIn(flows, x.step, x.id)
          /\ flows' = [flows EXCEPT ![x.step].isComplete = req[r].allSigned]
      BY <1>8, <2>3 DEF WriteFlowAdvance, Stands, StandsIn
    <3>2. /\ flows'[x.step].isComplete = req[r].allSigned
          /\ flows'[x.step].id = flows[x.step].id
          /\ flows'[x.step].validators = flows[x.step].validators
          /\ \A s \in FlowSteps : s # x.step => flows'[s] = flows[s]
      BY <1>1, <2>1, <3>1 DEF FlowTable, Workflow
    <3>3. x.step = req[r].seen.step /\ x.id = req[r].seen.id
      <4>1. 1 \in 1..Len(req[r].todo) /\ x = req[r].todo[1]
        BY <2>1
      <4>2. QED
        BY <1>2, <2>1, <4>1 DEF SoundRequest, Advances
    <3>4. req[r].allSigned => Undecided(flows[x.step]) = {}
      BY <1>2, <3>1, <3>3 DEF SoundRequest
    <3>5. Undecided(flows'[x.step]) = Undecided(flows[x.step])
      BY <3>2 DEF Undecided
    <3>6. \A s \in FlowSteps : /\ flows'[s].id = flows[s].id
                               /\ flows'[s].isComplete => Undecided(flows'[s]) = {}
      BY <1>2, <3>2, <3>4, <3>5 DEF SoundFlows
    <3>7. QED
      BY <1>1, <1>2, <3>6, SameIdsSound
  <2>4. QED
    BY <2>2, <2>3
<1>9. CASE UNCHANGED flows
  BY <1>3, <1>9
<1>10. QED
  BY <1>4, <1>5, <1>6, <1>7, <1>8, <1>9
     DEF Continue, CheckPapers, UpdatePurchase, RemoveItems, InsertItems,
         ReadFlowToAdvance, WritePapers

-----------------------------------------------------------------------------
(* The requests, step by step.                                             *)

\* A validator who has been marked is no longer awaited.
LEMMA MarkedHasDecided ==
    ASSUME TypeOK, TypeOK', NEW r \in Requests, MarkValidator(r), ~Throw(r)
    PROVE  Head(req[r].todo).order
                \notin Undecided(flows'[Head(req[r].todo).step])
<1> DEFINE x == Head(req[r].todo)
           old == flows[x.step].validators
           new == flows'[x.step].validators
<1>1. x.step \in FlowSteps /\ x.order \in Nat /\ x.decision # "none"
  BY NextWriteType, WriteFields DEF MarkValidator
<1>2. flows' = [flows EXCEPT ![x.step].validators[x.order].decision = x.decision]
  BY DEF MarkValidator
<1>3. old \in Seq(Validator)
  BY <1>1 DEF TypeOK, Workflow
<1>4. new = [old EXCEPT ![x.order].decision = x.decision]
  BY <1>1, <1>2 DEF TypeOK, Workflow
<1> HIDE DEF old, new, x
<1>5. ASSUME x.order \in 1..Len(new)
      PROVE  new[x.order].decision # "none"
  <2>1. x.order \in 1..Len(old)
    BY <1>3, <1>4, <1>5
  <2>2. old[x.order] \in Validator
    BY <1>3, <2>1, ElementOfSeq
  <2>3. new[x.order] = [old[x.order] EXCEPT !.decision = x.decision]
    BY <1>3, <1>4, <2>1
  <2>4. QED
    BY <1>1, <2>2, <2>3 DEF Validator
<1>6. QED
  BY <1>5 DEF Undecided, new, x

LEMMA ContinueSoundRequests ==
    ASSUME TypeOK, TypeOK', TurnsStayGood, SnapshotsStaySound,
           NEW r \in Requests, Continue(r)
    PROVE  \A q \in Requests : SoundRequest(req'[q], flows', nextFlow')
<1> DEFINE Sound(y) == SoundRequest(y, flows', nextFlow')
           x == Head(req[r].todo)
           rest == [req[r] EXCEPT !.todo = Tail(req[r].todo)]
<1>1. /\ flows \in FlowTable /\ flows' \in FlowTable
      /\ nextFlow \in Nat \ {0} /\ nextFlow' \in Nat \ {0}
      /\ req \in [Requests -> Request] /\ req[r] \in Request
  BY DEF TypeOK, FlowTable
<1>2. Progress(flows, nextFlow, flows', nextFlow')
  BY ContinueFlows
<1>3. \A q \in Requests : Sound(req[q])
  BY <1>1, <1>2, SoundKept, Reading, ReadingSound
<1>4. Sound(Idle)
  <2>1. "reject" \in Endpoints \ {"validate"} /\ << >> \in Seq(Plain)
    BY DEF Endpoints
  <2>2. QED
    BY <1>1, <2>1, PlannedSound
<1>5. ASSUME NEW y, Sound(y), req' = [req EXCEPT ![r] = y]
      PROVE  \A q \in Requests : Sound(req'[q])
  BY <1>1, <1>3, <1>5
<1>6. CASE Throw(r)
  BY <1>4, <1>5, <1>6 DEF Throw
<1>7. req[r].todo # << >>
  BY DEF Continue, CheckPapers, UpdatePurchase, RemovePurchase, RemoveItems,
         InsertItems, RemoveFlows, InsertFlow, MarkValidator,
         ReadFlowToAdvance, WriteFlowAdvance, WritePapers, Awaits
<1>8. ASSUME ~Marks(x) \/ (MarkValidator(r) /\ ~Throw(r))
      PROVE  Sound(rest)
  <2>1. ASSUME Marks(x), StandsIn(flows', x.step, x.id)
        PROVE  x.order \notin Undecided(flows'[x.step])
    <3>1. MarkValidator(r) /\ ~Throw(r)
      BY <1>8, <2>1
    <3>2. QED
      BY <3>1, MarkedHasDecided
  <2>2. QED
    BY <1>1, <1>3, <1>7, <2>1, AnsweredSound
<1>9. ASSUME Sound(rest), Done(r)
      PROVE  \A q \in Requests : Sound(req'[q])
  BY <1>4, <1>5, <1>9 DEF Done
<1>10. CASE MarkValidator(r) /\ ~Throw(r)
  BY <1>8, <1>9, <1>10 DEF MarkValidator
<1>11. CASE ReadFlowToAdvance(r) /\ ~Throw(r)
  <2> DEFINE all == Complete(flows[x.step])
             y == [req[r] EXCEPT !.allSigned = all, !.todo = Tail(req[r].todo)]
  <2>1. req' = [req EXCEPT ![r] = y] /\ StandsIn(flows, x.step, x.id)
        /\ flows' = flows
    BY <1>1, <1>11 DEF ReadFlowToAdvance, Stands, StandsIn
  <2>2. x.do = "readFlow" /\ req[r].todo \in Seq(Write)
    BY <1>11, NextWriteType DEF ReadFlowToAdvance
  <2>3. Sound(rest)
    BY <1>8, <2>2 DEF Marks
  <2>4. x.step = req[r].seen.step /\ x.id = req[r].seen.id
    <3>1. 1 \in 1..Len(req[r].todo) /\ x = req[r].todo[1]
      BY <1>7, <2>2
    <3>2. QED
      BY <1>3, <2>2, <3>1 DEF SoundRequest, Advances
  <2>5. /\ y.op = rest.op /\ y.turn = rest.turn /\ y.seen = rest.seen
        /\ y.todo = rest.todo /\ y.allSigned = all /\ rest.seen = req[r].seen
    BY <1>1 DEF Request
  <2> HIDE DEF y, rest
  <2>6. all => /\ y.seen.id # 0
               /\ StandsIn(flows', y.seen.step, y.seen.id)
                    => Undecided(flows'[y.seen.step]) = {}
    BY <2>1, <2>4, <2>5 DEF Complete, StandsIn
  <2>7. Sound(y)
    BY <2>3, <2>5, <2>6 DEF SoundRequest
  <2>8. QED
    BY <1>5, <2>1, <2>7
<1>12. ASSUME ~Marks(x), Done(r)
       PROVE  \A q \in Requests : Sound(req'[q])
  BY <1>8, <1>9, <1>12
<1>13. CASE CheckPapers(r) \/ UpdatePurchase(r) \/ RemovePurchase(r)
            \/ RemoveItems(r) \/ InsertItems(r) \/ RemoveFlows(r)
            \/ InsertFlow(r) \/ WriteFlowAdvance(r) \/ WritePapers(r)
  <2>1. ~Marks(x)
    BY <1>13 DEF CheckPapers, UpdatePurchase, RemovePurchase, RemoveItems,
                 InsertItems, RemoveFlows, InsertFlow, WriteFlowAdvance,
                 WritePapers, Awaits, PaperWrites, Marks
  <2>2. Throw(r) \/ Done(r)
    BY <1>13 DEF CheckPapers, UpdatePurchase, RemovePurchase, RemoveItems,
                 InsertItems, RemoveFlows, InsertFlow, WriteFlowAdvance, WritePapers
  <2>3. QED
    BY <1>6, <1>12, <2>1, <2>2
<1>14. QED
  BY <1>6, <1>10, <1>11, <1>13 DEF Continue

LEMMA ApprovalSound ==
    ASSUME TypeOK, TurnsStayGood, SnapshotsStaySound,
           NEW r \in Requests, ApprovalNext(r)
    PROVE  \A q \in Requests : SoundRequest(req'[q], flows, nextFlow)
<1> DEFINE Sound(y) == SoundRequest(y, flows, nextFlow)
<1>1. /\ flows \in FlowTable /\ nextFlow \in Nat \ {0}
      /\ req \in [Requests -> Request]
      /\ req[r] \in Request /\ req[r].turn \in Turn /\ req[r].seen \in Snapshot
  BY DEF TypeOK, FlowTable, Request
<1>2. SoundFlows(flows) /\ \A q \in Requests : Sound(req[q])
  BY ReadingSound
<1>3. Sound(Idle)
  <2>1. "reject" \in Endpoints \ {"validate"} /\ << >> \in Seq(Plain)
    BY DEF Endpoints
  <2>2. QED
    BY <1>1, <2>1, PlannedSound
<1>4. ASSUME NEW y, Sound(y), req' = [req EXCEPT ![r] = y]
      PROVE  \A q \in Requests : Sound(req'[q])
  BY <1>1, <1>2, <1>4
<1>5. CASE Throw(r)
  BY <1>3, <1>4, <1>5 DEF Throw
\* Two workflows do not share an id.
<1>6. ASSUME NEW turn \in AuthorisedTurns
      PROVE  /\ turn \in Turn
             /\ \A s \in FlowSteps : StandsIn(flows, s, turn.id) => s = turn.step
  <2>1. PICK s \in FlowSteps : \E i \in Undecided(flows[s]) : turn = TurnOf(s, i)
    BY DEF AuthorisedTurns
  <2>2. turn.step = s /\ turn.id = flows[s].id
    BY <2>1 DEF TurnOf
  <2>3. QED
    BY <1>2, <2>2, TurnsType DEF SoundFlows, StandsIn
\* A snapshot just taken is sound.
<1>7. ASSUME AwaitsValidation
      PROVE  /\ LoadedSnapshot \in Snapshot
             /\ LoadedSnapshot.id < nextFlow
             /\ LoadedSnapshot.open = Undecided(flows[LoadedSnapshot.step])
  <2>1. purchase.currentStep \in FlowSteps
    BY <1>7 DEF AwaitsValidation
  <2>2. QED
    BY <1>7, <2>1, SnapshotType, Reading DEF GoodFlows, LoadedSnapshot
\* Nothing else a request keeps matters while it has no list of writes.
<1>8. ASSUME NEW y, NEW snapshot \in Snapshot, y.todo = << >>, ~y.allSigned,
             y.seen = snapshot, snapshot.id < nextFlow,
             snapshot.open = Undecided(flows[snapshot.step]),
             \A s \in FlowSteps : StandsIn(flows, s, y.turn.id) => s = y.turn.step
      PROVE  Sound(y)
  BY <1>8 DEF SoundRequest
<1>9. req[r].allSigned => req[r].seen.id # 0
  BY <1>2 DEF SoundRequest
<1>10. \A s \in FlowSteps : StandsIn(flows, s, req[r].turn.id) => s = req[r].turn.step
  BY <1>2 DEF SoundRequest
<1>11. CASE ValidateAuthFirst(r)
  <2>1. PICK turn \in AuthorisedTurns :
            req' = [req EXCEPT ![r].op = "validate", ![r].turn = turn]
    BY <1>11 DEF ValidateAuthFirst
  <2> DEFINE y == [req[r] EXCEPT !.op = "validate", !.turn = turn]
  <2>2. req' = [req EXCEPT ![r] = y]
    BY <1>1, <2>1
  <2>3. req[r] = Idle
    BY <1>11 DEF ValidateAuthFirst, Starts
  <2>4. /\ y.turn = turn /\ y.todo = << >> /\ y.seen = req[r].seen
        /\ y.allSigned = FALSE
    BY <1>1, <2>3 DEF Request, Idle
  <2> HIDE DEF y
  <2>5. Sound(y)
    BY <1>2, <1>6, <2>4 DEF SoundRequest
  <2>6. QED
    BY <1>4, <2>2, <2>5
<1>12. CASE ValidateLoadFirst(r)
  <2> DEFINE y == [req[r] EXCEPT !.op = "validate", !.seen = LoadedSnapshot]
  <2>1. req' = [req EXCEPT ![r] = y] /\ AwaitsValidation
    BY <1>1, <1>12 DEF ValidateLoadFirst
  <2>2. req[r] = Idle
    BY <1>12 DEF ValidateLoadFirst, Starts
  <2>3. /\ y.turn = req[r].turn /\ y.todo = << >> /\ y.seen = LoadedSnapshot
        /\ y.allSigned = FALSE
    BY <1>1, <2>2 DEF Request, Idle
  <2> HIDE DEF y
  <2>4. Sound(y)
    BY <1>7, <1>8, <1>10, <2>1, <2>3
  <2>5. QED
    BY <1>4, <2>1, <2>4
<1>13. CASE ValidateLoad(r) /\ ~Throw(r)
  <2>1. AwaitsValidation
    BY <1>13 DEF ValidateLoad
  <2>2. PICK w \in ValidationWrites(req[r].turn, LoadedSnapshot) :
            req' = [req EXCEPT ![r] = Validating(LoadedSnapshot, w)]
    BY <1>13 DEF ValidateLoad
  <2>3. Sound(Validating(LoadedSnapshot, w))
    BY <1>1, <1>2, <1>7, <1>10, <2>1, ValidatingSound
  <2>4. QED
    BY <1>4, <2>2, <2>3
<1>14. CASE ValidateAuth(r) /\ ~Throw(r)
  <2>1. PICK turn \in AuthorisedTurns :
            \E w \in ValidationWrites(turn, req[r].seen) :
                req' = [req EXCEPT ![r] = Validating(req[r].seen, w)]
    BY <1>14 DEF ValidateAuth
  <2>2. PICK w \in ValidationWrites(turn, req[r].seen) :
                req' = [req EXCEPT ![r] = Validating(req[r].seen, w)]
    BY <2>1
  <2>3. /\ req[r].seen.id < nextFlow
        /\ StandsIn(flows, req[r].seen.step, req[r].seen.id)
                => Undecided(flows[req[r].seen.step]) \subseteq req[r].seen.open
    BY <1>2 DEF SoundRequest
  <2>4. Sound(Validating(req[r].seen, w))
    BY <1>1, <1>2, <1>6, <2>3, ValidatingSound
  <2>5. QED
    BY <1>4, <2>2, <2>4
<1>15. CASE RefuseAuth(r)
  <2>1. PICK op \in {"reject", "requestChanges"}, turn \in AuthorisedTurns :
            req' = [req EXCEPT ![r].op = op, ![r].turn.role = turn.role]
    BY <1>15 DEF RefuseAuth
  <2> DEFINE y == [req[r] EXCEPT !.op = op, !.turn.role = turn.role]
  <2>2. req' = [req EXCEPT ![r] = y]
    BY <1>1, <2>1
  <2>3. /\ y.turn.step = req[r].turn.step /\ y.turn.id = req[r].turn.id
        /\ y.todo = req[r].todo /\ y.seen = req[r].seen
        /\ y.allSigned = req[r].allSigned /\ y.op = op
    BY <1>1 DEF Request, Turn
  <2> HIDE DEF y
  <2>4. Sound(y)
    BY <1>2, <2>1, <2>3 DEF SoundRequest
  <2>5. QED
    BY <1>4, <2>2, <2>4
<1>16. CASE RefuseLoad(r) /\ ~Throw(r)
  <2> DEFINE y == [req[r] EXCEPT !.seen = LoadedSnapshot]
  <2>1. req' = [req EXCEPT ![r] = y] /\ AwaitsValidation
    BY <1>1, <1>16 DEF RefuseLoad
  <2>2. req[r].seen.id = 0 /\ req[r].todo = << >>
    BY <1>16 DEF RefuseLoad, NotLoaded
  <2>3. /\ y.turn = req[r].turn /\ y.todo = << >> /\ y.seen = LoadedSnapshot
        /\ y.allSigned = req[r].allSigned
    BY <1>1, <2>2 DEF Request
  <2> HIDE DEF y
  <2>4. ~y.allSigned
    BY <1>9, <2>2, <2>3
  <2>5. Sound(y)
    BY <1>7, <1>8, <1>10, <2>1, <2>3, <2>4
  <2>6. QED
    BY <1>4, <2>1, <2>5
<1>17. CASE RefuseTurn(r) /\ ~Throw(r)
  <2> DEFINE s == req[r].seen.step
             decision == DecisionOf(req[r].op)
             list(i) == << Mark(s, flows[s].id, i, decision), Close(decision) >>
  <2>1. PICK i \in 1..Len(flows[s].validators) :
            req' = [req EXCEPT ![r] = Planned(req[r].op, list(i))]
    BY <1>17 DEF RefuseTurn
  <2> DEFINE y == Planned(req[r].op, list(i))
  <2>2. /\ y.turn = NoTurn /\ y.todo = list(i) /\ y.seen = NotLoaded
        /\ y.allSigned = FALSE /\ y.op # "validate"
    BY <1>17 DEF Planned, Idle, RefuseTurn
  <2>3. \A j \in 1..Len(list(i)) : ~Advances(list(i)[j])
    <3>1. /\ Len(list(i)) = 2
          /\ list(i)[1] = Mark(s, flows[s].id, i, decision)
          /\ list(i)[2] = Close(decision)
      OBVIOUS
    <3>2. /\ ~Advances(Mark(s, flows[s].id, i, decision))
          /\ ~Advances(Close(decision))
      BY DEF Advances, Mark, Close, Update
    <3> HIDE DEF list
    <3>3. QED
      BY <3>1, <3>2
  <2>4. NoTurn.id = 0 /\ NotLoaded.id = 0 /\ NotLoaded.open = {}
    BY DEF NoTurn, NotLoaded
  <2> HIDE DEF y, list
  <2>5. Sound(y)
    BY <1>1, <2>2, <2>3, <2>4 DEF SoundRequest, StandsIn
  <2>6. QED
    BY <1>4, <2>1, <2>5 DEF y
<1>18. QED
  BY <1>5, <1>11, <1>12, <1>13, <1>14, <1>15, <1>16, <1>17 DEF ApprovalNext

LEMMA RunsSound ==
    ASSUME TypeOK, SnapshotsStaySound, NEW r \in Requests, RunsPlain(r)
    PROVE  \A q \in Requests : SoundRequest(req'[q], flows, nextFlow)
<1>1. PICK op \in Endpoints \ ApprovalOps, w \in Seq(Plain) : Runs(r, op, w)
  BY DEF RunsPlain
<1>2. /\ flows \in FlowTable /\ nextFlow \in Nat \ {0}
      /\ req \in [Requests -> Request]
  BY DEF TypeOK, FlowTable
<1>3. op \in Endpoints \ {"validate"}
  BY <1>1 DEF ApprovalOps
<1>4. SoundRequest(Planned(op, w), flows, nextFlow)
  BY <1>2, <1>3, PlannedSound
<1>5. QED
  BY <1>1, <1>2, <1>4, ReadingSound DEF Runs

LEMMA InitSound == Init => SnapshotsStaySound
<1>1. SUFFICES ASSUME NEW start \in StartSteps, NEW op \in StartTypes,
                      NEW amount \in Amounts,
                      InitAt(start, op, amount),
                      req = [r \in Requests |-> Idle], Init
               PROVE  SnapshotsStaySound
  BY DEF Init
<1>2. flows \in FlowTable /\ nextFlow \in Nat \ {0}
  BY <1>1, InitType DEF TypeOK, FlowTable
<1>3. ASSUME NEW s \in FlowSteps
      PROVE  \/ flows[s] = NoFlow
             \/ flows[s].id = StepNumber[s] /\ Undecided(flows[s]) = {}
  <2>1. CASE StepBefore(s, start)
    <3> DEFINE roles == RequireValidators(s, op, amount)
               w == SignedFlow(s, op, amount)
    <3>1. flows[s] = w
      BY <1>1, <2>1 DEF InitAt
    <3>2. /\ w.id = StepNumber[s]
          /\ w.validators = [i \in 1..Len(roles) |->
                                [role |-> roles[i], decision |-> "VALIDATED"]]
      BY DEF SignedFlow
    <3>3. roles \in Seq(Roles)
      BY <1>1, StartAssumption, AmountsAssumption, RequireValidatorsType, SuccessorsType
    <3> HIDE DEF roles, w
    <3>4. Len(w.validators) = Len(roles)
      BY <3>2, <3>3
    <3>5. Undecided(w) = {}
      BY <3>2, <3>4 DEF Undecided
    <3>6. QED
      BY <3>1, <3>2, <3>5
  <2>2. CASE ~StepBefore(s, start)
    BY <1>1, <2>2 DEF InitAt
  <2>3. QED
    BY <2>1, <2>2
<1>4. \A s \in FlowSteps, t \in FlowSteps : StepNumber[s] = StepNumber[t] => s = t
  BY DEF StepNumber, Steps, FlowSteps
<1>5. SoundFlows(flows)
  BY <1>3, <1>4, NoFlowSound DEF SoundFlows
<1>6. SoundRequest(Idle, flows, nextFlow)
  <2>1. "reject" \in Endpoints \ {"validate"} /\ << >> \in Seq(Plain)
    BY DEF Endpoints
  <2>2. QED
    BY <1>2, <2>1, PlannedSound
<1>7. QED
  BY <1>1, <1>5, <1>6, ReadingSound

-----------------------------------------------------------------------------
(* The theorems.                                                           *)

LEMMA StepSound ==
    ASSUME TypeOK, TurnsStayGood, SnapshotsStaySound, [Next]_vars
    PROVE  SnapshotsStaySound'
<1>1. /\ TypeOK' /\ TurnsStayGood'
      /\ Progress(flows, nextFlow, flows', nextFlow')
  BY StepType, StepGood
<1>2. /\ flows \in FlowTable /\ flows' \in FlowTable
      /\ nextFlow \in Nat \ {0} /\ nextFlow' \in Nat \ {0}
      /\ req' \in [Requests -> Request]
  BY <1>1 DEF TypeOK, FlowTable
<1>3. ASSUME UNCHANGED << flows, nextFlow >>,
             \A q \in Requests : SoundRequest(req'[q], flows, nextFlow)
      PROVE  SnapshotsStaySound'
  BY <1>3, ReadingSound
<1>4. CASE UNCHANGED vars
  BY <1>3, <1>4, ReadingSound DEF vars
<1>5. CASE \E r \in Requests : ApprovalNext(r)
  <2>1. PICK r \in Requests : ApprovalNext(r)
    BY <1>5
  <2>2. UNCHANGED << flows, nextFlow >>
    BY <2>1 DEF ApprovalNext, ValidateAuthFirst, ValidateLoadFirst,
                ValidateLoad, ValidateAuth, RefuseAuth, RefuseLoad, RefuseTurn
  <2>3. QED
    BY <1>3, <2>1, <2>2, ApprovalSound
<1>6. CASE \E r \in Requests : RunsPlain(r)
  <2>1. PICK r \in Requests : RunsPlain(r)
    BY <1>6
  <2>2. UNCHANGED << flows, nextFlow >>
    BY <2>1 DEF RunsPlain, Runs
  <2>3. QED
    BY <1>3, <2>1, <2>2, RunsSound
<1>7. CASE \E r \in Requests : Continue(r)
  BY <1>1, <1>7, ContinueSoundFlows, ContinueSoundRequests, ReadingSound
<1>8. CASE \E r \in Requests : Fail(r)
  <2>1. PICK r \in Requests : Fail(r)
    BY <1>8
  <2>2. UNCHANGED << flows, nextFlow >>
    BY <2>1 DEF Fail
  <2>3. SoundRequest(Idle, flows, nextFlow)
    <3>1. "reject" \in Endpoints \ {"validate"} /\ << >> \in Seq(Plain)
      BY DEF Endpoints
    <3>2. QED
      BY <1>2, <3>1, PlannedSound
  <2>4. \A q \in Requests : SoundRequest(req'[q], flows, nextFlow)
    BY <2>1, <2>3, ReadingSound DEF Fail, Throw, TypeOK
  <2>5. QED
    BY <1>3, <2>2, <2>4
<1>9. QED
  BY <1>4, <1>5, <1>6, <1>7, <1>8, InertIsStill, AuthoringRuns,
     SourcingRuns, DocumentsRuns,
     OrderedIsPlain DEF Next

\* What a request has seen of a workflow errs on the safe side until it is done,
\* whatever the other requests do meanwhile.
THEOREM SnapshotsAlwaysSound == Spec => []SnapshotsStaySound
<1>1. Init => TypeOK /\ TurnsStayGood /\ SnapshotsStaySound
  BY InitType, InitGood, InitSound
<1>2. TypeOK /\ TurnsStayGood /\ SnapshotsStaySound /\ [Next]_vars
        => TypeOK' /\ TurnsStayGood' /\ SnapshotsStaySound'
  BY StepType, StepGood, StepSound
<1>3. QED
  BY <1>1, <1>2, PTL DEF Spec

\* No workflow is flagged complete while a validator is left to decide.
THEOREM FlagsNeverEarly == Spec => []CompleteFlagSound
<1>1. SnapshotsStaySound => CompleteFlagSound
  BY DEF SnapshotsStaySound
<1>2. QED
  BY <1>1, SnapshotsAlwaysSound, PTL

\* No validation moves a purchase by a workflow somebody has yet to sign.
THEOREM NeverMovesEarly == Spec => []MovesOnlyWhenSigned
<1>1. SnapshotsStaySound => MovesOnlyWhenSigned
  <2>1. SUFFICES ASSUME SnapshotsStaySound, NEW r \in Requests,
                        req[r].op = "validate", Pending(r, "mark") = {},
                        Moves(r), Stands(req[r].seen.step, req[r].seen.id)
                 PROVE  Undecided(flows[req[r].seen.step]) = {}
    BY DEF MovesOnlyWhenSigned
  <2>2. Undecided(flows[req[r].seen.step])
            \subseteq Awaited(r, req[r].seen.step, req[r].seen.id)
    BY <2>1 DEF SnapshotsStaySound, SnapshotSound
  <2>3. Awaited(r, req[r].seen.step, req[r].seen.id) = {}
    BY <2>1 DEF Awaited
  <2>4. QED
    BY <2>2, <2>3
<1>2. QED
  BY <1>1, SnapshotsAlwaysSound, PTL

=============================================================================
