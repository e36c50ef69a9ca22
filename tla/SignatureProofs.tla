-------------------------- MODULE SignatureProofs --------------------------
(***************************************************************************)
(* Proofs of what the signatures of a purchase amount to as long as its    *)
(* requests do not overlap: the workflow that a purchase leaves a step     *)
(* with is the one that its amount and its type need by then, and who is   *)
(* still to sign can.  As in LifecycleProofs, an invariant says of each    *)
(* kind of list what is left to establish; this one is about the chain of  *)
(* validators.                                                             *)
(***************************************************************************)
EXTENDS LifecycleProofs

-----------------------------------------------------------------------------
(* Who has signed what the purchase leaves behind, and who is still to.    *)
(*                                                                         *)
(* The workflow of the present step asks the roles of the matrix, for the  *)
(* amount and the type the purchase has: no handler touches either while   *)
(* validators are asked.  Those of a draft or of a refused purchase change,*)
(* but its workflows are deleted before any validator is asked again.      *)

\* Whose signatures the purchase, as it is now, needs at its step.
RolesNeeded(p) ==
    RequireValidators(p.currentStep, p.operationType, p.amount)

\* The workflow of the present step is there.
AtFlow(p, f) == p.currentStep \in FlowSteps /\ Has(f, p.currentStep)

\* The workflow of the present step asks those, and nobody has refused.
RightRoles(p, f) ==
    LET chain == f[p.currentStep].validators
        roles == RolesNeeded(p)
    IN  /\ Len(chain) = Len(roles)
        /\ \A i \in 1..Len(roles) : /\ chain[i].role = roles[i]
                                    /\ chain[i].decision \in {"none", "VALIDATED"}

\* It was created last, so that the authorisation goes by it.
Newest(p, f) == \A s \in FlowSteps : f[s].id <= f[p.currentStep].id

\* It waits for somebody.
SomebodyLeft(p, f) == Undecided(f[p.currentStep]) # {}

\* No step to come has a workflow; no step at all.
NothingAhead(p, f) ==
    \A s \in FlowSteps : StepBefore(p.currentStep, s) => ~Has(f, s)

NoChain(f) == \A s \in FlowSteps : ~Has(f, s)

\* Validators are at work, by the status.
Asked(p) ==
    \/ p.status \in {"PENDING_APPROVAL", "IN_DEROGATION"}
    \/ p.status = "PUBLISHED" /\ p.currentStep = "DA"

\* Nobody is to sign, or to bring papers.
OffDesk == Refusals \cup {"DRAFT"}

\* What holds between two requests.
Backed(p, f) ==
    /\ NothingAhead(p, f)
    /\ p.status = "DRAFT" => NoChain(f)
    /\ p.status \notin OffDesk =>
        /\ AtFlow(p, f) => RightRoles(p, f) /\ Newest(p, f)
        /\ Asked(p) => AtFlow(p, f) /\ SomebodyLeft(p, f)
        /\ ~(p.currentStep = "DA" /\ p.status = "AWAITING_DOCUMENTS")

\* Kinds of writes.
OpensChain(w, step, p, signed) ==
    /\ w.do = "createFlow" /\ w.step = step
    /\ w.roles = RolesNeeded(p) /\ w.signed = signed
Signs(w, p) ==
    w.do = "mark" /\ w.step = p.currentStep /\ w.decision = "VALIDATED"
Sets(w, status) == SetsStatus(w, status) /\ w.operationType = Keep
Enters(w) ==
    /\ MovesStep(w)
    /\ w.status \in {"AWAITING_DOCUMENTS", "PUBLISHED", "VALIDATED"}

\* Writes that need no signature, for a purchase like p.
Harmless(w, p) ==
    \/ OnPapers(w)
    \/ w.do = "deletePurchase"
    \/ (OnItems(w) \/ OnFields(w)) /\ p.status \in {"DRAFT", "CHANGE_REQUESTED"}
    \/ /\ Sets(w, "AWAITING_DOCUMENTS")
       /\ p.currentStep # "DA" /\ p.status \notin OffDesk
    \/ Enters(w) /\ p.currentStep \notin FlowSteps

\* Where a request can be, by the kind of its list.  A validation that has
\* read half of what it reads has read what is there.
Resting(x, p, f) ==
    /\ x.todo = << >>
    /\ Backed(p, f)
    /\ x.op = "validate" /\ x.turn # NoTurn =>
        LET turn == x.turn
        IN  /\ turn.id # 0 /\ turn.id = f[turn.step].id
            /\ \A s \in FlowSteps : f[s].id <= turn.id
            /\ turn.order \in Undecided(f[turn.step])
    /\ x.op = "validate" /\ x.turn = NoTurn =>
        /\ p.status \in OpenStatuses /\ AtFlow(p, f)
        /\ x.seen.step = p.currentStep /\ x.seen.status = p.status
        /\ x.seen.id = f[p.currentStep].id
        /\ x.seen.open = Undecided(f[p.currentStep])

Minding(x, p, f) ==
    /\ Backed(p, f)
    /\ x.op \notin ApprovalOps
    /\ \A i \in 1..Len(x.todo) : Harmless(x.todo[i], p)

Asking(x, p, f) ==
    LET n == Len(x.todo)
    IN  /\ NothingAhead(p, f)
        /\ p.currentStep \in FlowSteps \ {"DA"}
        /\ n >= 1
        /\ \E status \in {"PENDING_APPROVAL", "IN_DEROGATION"} :
                Sets(x.todo[n], status)
        /\ n >= 2 => /\ OpensChain(x.todo[n - 1], p.currentStep, p, FALSE)
                     /\ Backed(p, f)
        /\ \A i \in 1..(n - 2) :
                \/ OnPapers(x.todo[i])
                \/ /\ x.todo[i].do = "deleteFlows"
                   /\ p.status \in {"PUBLISHED", "AWAITING_DOCUMENTS"}
        /\ n = 1 => /\ AtFlow(p, f) /\ RightRoles(p, f)
                    /\ Newest(p, f) /\ SomebodyLeft(p, f)

Announcing(x, p, f) ==
    LET n == Len(x.todo)
    IN  /\ p.status \in {"DRAFT", "CHANGE_REQUESTED"}
        /\ p.currentStep \in FlowSteps
        /\ NothingAhead(p, f)
        /\ n \in 1..4
        /\ Sets(x.todo[n], "PUBLISHED")
        /\ n >= 2 => OpensChain(x.todo[n - 1], "DA", p, TRUE)
        /\ n >= 3 => Reopens(x.todo[n - 2]) /\ x.todo[n - 2].operationType = Keep
        /\ n = 4 => DropsFlows(x.todo[1])
        /\ n \in 2..3 => NoChain(f)
        /\ n = 1 => /\ \A s \in FlowSteps \ {"DA"} : ~Has(f, s)
                    /\ p.currentStep = "DA" =>
                        AtFlow(p, f) /\ RightRoles(p, f) /\ SomebodyLeft(p, f)

Reworking(x, p, f) ==
    LET n == Len(x.todo)
    IN  /\ p.status \in {"DRAFT", "CHANGE_REQUESTED"}
        /\ NothingAhead(p, f)
        /\ n >= 1
        /\ DropsFlows(x.todo[n])
        /\ \A i \in 1..(n - 1) : ToDraft(x.todo[i]) \/ OnItems(x.todo[i])

\* A validation that leaves somebody to sign writes the status back.
Countersigning(x, p, f) ==
    LET n == Len(x.todo)
    IN  /\ Backed(p, f)
        /\ p.status \in OpenStatuses /\ AtFlow(p, f)
        /\ n >= 1
        /\ Sets(x.todo[n], p.status)
        /\ \A i \in 1..(n - 1) : Signs(x.todo[i], p) \/ Advances(x.todo[i])
        /\ \E k \in Undecided(f[p.currentStep]) :
            \A i \in 1..(n - 1) : Marks(x.todo[i]) => x.todo[i].order # k

\* The last one moves the purchase.
LastSigning(x, p, f) ==
    LET n == Len(x.todo)
    IN  /\ NothingAhead(p, f)
        /\ AtFlow(p, f) /\ RightRoles(p, f)
        /\ p.status \in OpenStatuses
        /\ x.op = "validate"
        /\ x.seen.step = p.currentStep
        /\ x.seen.id = f[p.currentStep].id
        /\ n >= 1
        /\ Enters(x.todo[n])
        /\ \A i \in 1..(n - 1) :
            \/ /\ Signs(x.todo[i], p) \/ Advances(x.todo[i])
               /\ x.todo[i].step = p.currentStep
               /\ x.todo[i].id = f[p.currentStep].id
            \/ Sets(x.todo[i], "PUBLISHED")

TurningDown(x, p, f) ==
    LET n == Len(x.todo)
    IN  /\ NothingAhead(p, f)
        /\ n \in 1..2
        /\ Refuses(x.todo[n])
        /\ n = 2 => Backed(p, f) /\ Marks(x.todo[1])

Vouched(x, p, f) ==
    \/ Resting(x, p, f)
    \/ Minding(x, p, f)
    \/ Asking(x, p, f)
    \/ Announcing(x, p, f)
    \/ Reworking(x, p, f)
    \/ Countersigning(x, p, f)
    \/ LastSigning(x, p, f)
    \/ TurningDown(x, p, f)

AllVouched ==
    purchase.exists => \A r \in Requests : Vouched(req[r], purchase, flows)

LEMMA OnlyOneVouched ==
    ASSUME OneRequest, TypeOK, NEW r \in Requests, NEW y,
           req' = [req EXCEPT ![r] = y],
           purchase'.exists => Vouched(y, purchase', flows')
    PROVE  AllVouched'
<1>1. \A q \in Requests : q = r
  BY DEF OneRequest
<1>2. req'[r] = y
  BY DEF TypeOK
<1>3. QED
  BY <1>1, <1>2 DEF AllVouched

LEMMA IdleVouched ==
    ASSUME NEW p, NEW f, Backed(p, f)
    PROVE  Vouched(Idle, p, f)
  BY DEF Vouched, Resting, Idle

\* Every step with signatures has three to five.
LEMMA RolesEnough ==
    ASSUME NEW step \in FlowSteps, NEW op \in OperationTypes, NEW amount \in Nat
    PROVE  /\ RequireValidators(step, op, amount) \in Seq(Roles)
           /\ Len(RequireValidators(step, op, amount)) >= 3
           /\ Len(RequireValidators(step, op, amount)) <= 5
<1> DEFINE rules == StepRules(step, op)
           First(i) == /\ IsAmountInRange(amount, rules[i])
                       /\ \A j \in 1..(i - 1) : ~IsAmountInRange(amount, rules[j])
           Long(s) == Len(s) >= 3 /\ Len(s) <= 5
<1>1. /\ Long(FieldChain(op)) /\ Long(DirectionChain(op))
      /\ Long(<< "OM", "CFO", "CEO", "DEMANDEUR" >>)
      /\ Long(<< "OM", "DP", "CFO", "CEO", "DEMANDEUR" >>)
      /\ Long(<< "DEMANDEUR", "OM", "CFO", "DP", "CEO" >>)
      /\ Long(<< "OM", "RFR", "CPR" >>)
      /\ Long(<< "ACHETEUR", "OM", "CFO" >>)
  <2>1. Long(FieldChain(op))
    <3>1. /\ Long(<< "DEMANDEUR", "OM", "RFR", "CPR" >>)
          /\ Long(<< "DEMANDEUR", "RFR", "CPR" >>)
      OBVIOUS
    <3> HIDE DEF Long
    <3>2. QED
      BY <3>1 DEF FieldChain
  <2>2. Long(DirectionChain(op))
    <3>1. /\ Long(<< "DEMANDEUR", "OM", "CFO", "CEO" >>)
          /\ Long(<< "DEMANDEUR", "DP", "CFO", "CEO" >>)
      OBVIOUS
    <3> HIDE DEF Long
    <3>2. QED
      BY <3>1 DEF DirectionChain
  <2>3. QED
    BY <2>1, <2>2
<1> HIDE DEF Long
<1>2. \A s : /\ DOMAIN Always(s) = {1}
             /\ Long(s) => \A i \in DOMAIN Always(s) : Long(Always(s)[i].roles)
  BY DEF Always, Rule
<1>3. \A s, t : /\ DOMAIN ByAmount(s, t) = {1, 2}
                /\ Long(s) /\ Long(t) =>
                    \A i \in DOMAIN ByAmount(s, t) : Long(ByAmount(s, t)[i].roles)
  BY DEF ByAmount, Rule
<1>4. 1 \in DOMAIN rules /\ \A i \in DOMAIN rules : Long(rules[i].roles)
  <2>1. CASE step = "DA"
    <3>1. rules = ByAmount(FieldChain(op), DirectionChain(op))
      BY <2>1 DEF StepRules
    <3> HIDE DEF rules
    <3>2. QED
      BY <1>1, <1>3, <3>1
  <2>2. CASE step = "QR"
    <3>1. \/ rules = Always(<< "OM", "CFO", "CEO", "DEMANDEUR" >>)
          \/ rules = Always(<< "OM", "DP", "CFO", "CEO", "DEMANDEUR" >>)
      BY <2>2 DEF StepRules
    <3> HIDE DEF rules
    <3>2. QED
      BY <1>1, <1>2, <3>1
  <2>3. CASE step = "PV"
    <3>1. \/ rules = ByAmount(FieldChain(op), DirectionChain(op))
          \/ rules = ByAmount(FieldChain(op),
                              << "DEMANDEUR", "OM", "CFO", "DP", "CEO" >>)
      BY <2>3 DEF StepRules
    <3> HIDE DEF rules
    <3>2. QED
      BY <1>1, <1>3, <3>1
  <2>4. CASE step = "BC"
    <3>1. rules = Always(<< "OM", "RFR", "CPR" >>)
      BY <2>4 DEF StepRules
    <3> HIDE DEF rules
    <3>2. QED
      BY <1>1, <1>2, <3>1
  <2>5. CASE step = "DAP"
    <3>1. rules = Always(<< "ACHETEUR", "OM", "CFO" >>)
      BY <2>5 DEF StepRules
    <3> HIDE DEF rules
    <3>2. QED
      BY <1>1, <1>2, <3>1
  <2>6. QED
    BY <2>1, <2>2, <2>3, <2>4, <2>5 DEF FlowSteps
<1>5. RequireValidators(step, op, amount)
        = IF \E i \in DOMAIN rules : First(i)
          THEN rules[CHOOSE i \in DOMAIN rules : First(i)].roles
          ELSE rules[1].roles
  BY DEF RequireValidators
<1> HIDE DEF rules, First
<1>6. Long(RequireValidators(step, op, amount))
  BY <1>4, <1>5
<1>7. RequireValidators(step, op, amount) \in Seq(Roles)
  BY RequireValidatorsType, SuccessorsType
<1>8. QED
  BY <1>6, <1>7 DEF Long

\* The matrix leaves nothing to the order of its rules, nor to the rule that
\* the code falls back to when none fits: of every configured step, each
\* amount selects exactly one rule, whose roles are the ones required, and no
\* role is asked twice: the authorisation goes by roles, so that somebody whose
\* role comes twice would sign for two.
THEOREM MatrixIsExact ==
    ASSUME NEW step \in ConfiguredSteps, NEW op \in OperationTypes,
           NEW amount \in Nat
    PROVE  LET rules == StepRules(step, op)
               roles == RequireValidators(step, op, amount)
           IN  /\ \E i \in DOMAIN rules :
                    /\ IsAmountInRange(amount, rules[i])
                    /\ roles = rules[i].roles
                    /\ \A j \in DOMAIN rules :
                            IsAmountInRange(amount, rules[j]) => j = i
               /\ \A k, l \in DOMAIN roles : roles[k] = roles[l] => k = l
<1> DEFINE rules == StepRules(step, op)
           First(i) == /\ IsAmountInRange(amount, rules[i])
                       /\ \A j \in 1..(i - 1) : ~IsAmountInRange(amount, rules[j])
           Distinct(s) == \A k, l \in DOMAIN s : s[k] = s[l] => k = l
           Only(i) == /\ i \in DOMAIN rules
                      /\ IsAmountInRange(amount, rules[i])
                      /\ \A j \in DOMAIN rules :
                            IsAmountInRange(amount, rules[j]) => j = i
<1>1. /\ Distinct(FieldChain(op)) /\ Distinct(DirectionChain(op))
      /\ Distinct(<< "OM", "CFO", "CEO", "DEMANDEUR" >>)
      /\ Distinct(<< "OM", "DP", "CFO", "CEO", "DEMANDEUR" >>)
      /\ Distinct(<< "DEMANDEUR", "OM", "CFO", "DP", "CEO" >>)
      /\ Distinct(<< "OM", "RFR", "CPR" >>)
      /\ Distinct(<< "ACHETEUR", "OM", "CFO" >>)
  <2>1. Distinct(FieldChain(op))
    <3>1. /\ Distinct(<< "DEMANDEUR", "OM", "RFR", "CPR" >>)
          /\ Distinct(<< "DEMANDEUR", "RFR", "CPR" >>)
      OBVIOUS
    <3> HIDE DEF Distinct
    <3>2. QED
      BY <3>1 DEF FieldChain
  <2>2. Distinct(DirectionChain(op))
    <3>1. /\ Distinct(<< "DEMANDEUR", "OM", "CFO", "CEO" >>)
          /\ Distinct(<< "DEMANDEUR", "DP", "CFO", "CEO" >>)
      OBVIOUS
    <3> HIDE DEF Distinct
    <3>2. QED
      BY <3>1 DEF DirectionChain
  <2>3. Distinct(<< "OM", "CFO", "CEO", "DEMANDEUR" >>)
    OBVIOUS
  <2>4. Distinct(<< "OM", "DP", "CFO", "CEO", "DEMANDEUR" >>)
    OBVIOUS
  <2>5. Distinct(<< "DEMANDEUR", "OM", "CFO", "DP", "CEO" >>)
    OBVIOUS
  <2>6. Distinct(<< "OM", "RFR", "CPR" >>) /\ Distinct(<< "ACHETEUR", "OM", "CFO" >>)
    OBVIOUS
  <2> HIDE DEF Distinct
  <2>7. QED
    BY <2>1, <2>2, <2>3, <2>4, <2>5, <2>6
<1> HIDE DEF Distinct
<1>2. ASSUME NEW s, Distinct(s), rules = Always(s)
      PROVE  \E i : Only(i) /\ Distinct(rules[i].roles)
  <2>1. /\ DOMAIN rules = {1} /\ rules[1].roles = s
        /\ IsAmountInRange(amount, rules[1])
    BY <1>2 DEF Always, Rule, IsAmountInRange
  <2> HIDE DEF rules
  <2>2. QED
    BY <1>2, <2>1
<1>3. ASSUME NEW s, NEW t, Distinct(s), Distinct(t), rules = ByAmount(s, t)
      PROVE  \E i : Only(i) /\ Distinct(rules[i].roles)
  <2>1. /\ DOMAIN rules = {1, 2}
        /\ rules[1] = Rule({}, {Threshold}, s)
        /\ rules[2] = Rule({Threshold}, {}, t)
    BY <1>3 DEF ByAmount
  <2> HIDE DEF rules
  <2>2. /\ rules[1].roles = s /\ rules[2].roles = t
        /\ IsAmountInRange(amount, rules[1]) <=> amount < Threshold
        /\ IsAmountInRange(amount, rules[2]) <=> amount >= Threshold
    BY <2>1 DEF Rule, IsAmountInRange
  <2>3. CASE amount < Threshold
    <3>1. ~(amount >= Threshold)
      BY <2>3 DEF Threshold
    <3>2. QED
      BY <1>3, <2>1, <2>2, <2>3, <3>1
  <2>4. CASE amount >= Threshold
    <3>1. ~(amount < Threshold)
      BY <2>4 DEF Threshold
    <3>2. QED
      BY <1>3, <2>1, <2>2, <2>4, <3>1
  <2>5. QED
    BY <2>3, <2>4 DEF Threshold
<1>4. PICK i : Only(i) /\ Distinct(rules[i].roles)
  <2>1. CASE step \in {"DA", "INVOICE"}
    <3>1. rules = ByAmount(FieldChain(op), DirectionChain(op))
      BY <2>1 DEF StepRules
    <3> HIDE DEF rules, Only
    <3>2. QED
      BY <1>1, <1>3, <3>1
  <2>2. CASE step = "QR"
    <3>1. \/ rules = Always(<< "OM", "CFO", "CEO", "DEMANDEUR" >>)
          \/ rules = Always(<< "OM", "DP", "CFO", "CEO", "DEMANDEUR" >>)
      BY <2>2 DEF StepRules
    <3> HIDE DEF rules, Only
    <3>2. QED
      BY <1>1, <1>2, <3>1
  <2>3. CASE step = "PV"
    <3>1. \/ rules = ByAmount(FieldChain(op), DirectionChain(op))
          \/ rules = ByAmount(FieldChain(op),
                              << "DEMANDEUR", "OM", "CFO", "DP", "CEO" >>)
      BY <2>3 DEF StepRules
    <3> HIDE DEF rules, Only
    <3>2. QED
      BY <1>1, <1>3, <3>1
  <2>4. CASE step = "BC"
    <3>1. rules = Always(<< "OM", "RFR", "CPR" >>)
      BY <2>4 DEF StepRules
    <3> HIDE DEF rules, Only
    <3>2. QED
      BY <1>1, <1>2, <3>1
  <2>5. CASE step = "DAP"
    <3>1. rules = Always(<< "ACHETEUR", "OM", "CFO" >>)
      BY <2>5 DEF StepRules
    <3> HIDE DEF rules, Only
    <3>2. QED
      BY <1>1, <1>2, <3>1
  <2>6. QED
    BY <2>1, <2>2, <2>3, <2>4, <2>5 DEF ConfiguredSteps
<1>5. RequireValidators(step, op, amount)
        = IF \E j \in DOMAIN rules : First(j)
          THEN rules[CHOOSE j \in DOMAIN rules : First(j)].roles
          ELSE rules[1].roles
  BY DEF RequireValidators
<1>6. DOMAIN rules \in {{1}, {1, 2}}
  BY DEF StepRules, Always, ByAmount, ConfiguredSteps
<1> HIDE DEF rules
<1>7. First(i)
  <2>1. ASSUME NEW j \in 1..(i - 1) PROVE ~IsAmountInRange(amount, rules[j])
    <3>1. j \in DOMAIN rules /\ j # i
      BY <1>4, <1>6
    <3>2. QED
      BY <1>4, <3>1
  <2>2. QED
    BY <1>4, <2>1
<1> HIDE DEF First
<1>8. (CHOOSE j \in DOMAIN rules : First(j)) = i
  <2>1. \A j \in DOMAIN rules : First(j) => j = i
    BY <1>4 DEF First
  <2>2. QED
    BY <1>4, <1>7, <2>1
<1>9. RequireValidators(step, op, amount) = rules[i].roles
  BY <1>4, <1>5, <1>7, <1>8
<1>10. QED
  BY <1>4, <1>9 DEF rules, Distinct

\* A workflow just created: nobody has signed it, or the first role has.
LEMMA NewFlowRoles ==
    ASSUME NEW id, NEW roles \in Seq(Roles), Len(roles) >= 2,
           NEW w, \/ w = NewFlow(id, roles, FALSE)
                  \/ w = NewFlow(id, roles, TRUE)
    PROVE  /\ w.id = id /\ Len(w.validators) = Len(roles)
           /\ \A i \in 1..Len(roles) :
                /\ w.validators[i].role = roles[i]
                /\ w.validators[i].decision \in {"none", "VALIDATED"}
           /\ Undecided(w) # {}
<1> DEFINE n == Len(roles)
           blank == [i \in 1..n |-> [role |-> roles[i], decision |-> "none"]]
           signed == [i \in 1..n |->
                        [role |-> roles[i],
                         decision |-> IF i = 1 THEN "VALIDATED" ELSE "none"]]
           chain == w.validators
<1>1. n \in Nat
  OBVIOUS
<1>2. w.id = id /\ chain \in {blank, signed}
  <2>1. CASE w = NewFlow(id, roles, FALSE)
    BY <2>1 DEF NewFlow
  <2>2. CASE w = NewFlow(id, roles, TRUE)
    BY <2>2 DEF NewFlow
  <2>3. QED
    BY <2>1, <2>2
<1>3. Len(blank) = n /\ Len(signed) = n
  BY <1>1
<1>4. \A i \in 1..n : /\ blank[i].role = roles[i] /\ blank[i].decision = "none"
                      /\ signed[i].role = roles[i]
                      /\ signed[i].decision = IF i = 1 THEN "VALIDATED" ELSE "none"
  OBVIOUS
<1> HIDE DEF blank, signed, n
<1>5. 2 \in 1..n
  BY <1>1 DEF n
<1>6. /\ Len(chain) = n
      /\ \A i \in 1..n : /\ chain[i].role = roles[i]
                          /\ chain[i].decision \in {"none", "VALIDATED"}
      /\ chain[2].decision = "none"
  BY <1>2, <1>3, <1>4, <1>5
<1>7. 2 \in Undecided(w)
  BY <1>5, <1>6 DEF Undecided
<1>8. QED
  BY <1>2, <1>6, <1>7 DEF n

-----------------------------------------------------------------------------
(* What a write does to the workflows and to what they must ask.           *)

\* Between the workflows f and g there is at most one more signature, k of
\* step s.
Advanced(f, g, s, k) ==
    \A t \in FlowSteps :
        /\ g[t].id = f[t].id
        /\ Len(g[t].validators) = Len(f[t].validators)
        /\ \A i \in 1..Len(f[t].validators) :
            LET old == f[t].validators[i]
                new == g[t].validators[i]
            IN  /\ new.role = old.role
                /\ \/ new.decision = old.decision
                   \/ t = s /\ i = k /\ new.decision = "VALIDATED"

LEMMA AdvancedKeeps ==
    ASSUME NEW p, NEW f \in FlowTable, NEW g \in FlowTable, NEW s, NEW k,
           Advanced(f, g, s, k)
    PROVE  /\ NothingAhead(p, f) => NothingAhead(p, g)
           /\ NoChain(f) => NoChain(g)
           /\ AtFlow(p, g) <=> AtFlow(p, f)
           /\ p.currentStep \in FlowSteps =>
                /\ g[p.currentStep].id = f[p.currentStep].id
                /\ RightRoles(p, f) => RightRoles(p, g)
                /\ Newest(p, f) => Newest(p, g)
                /\ \A i \in Undecided(f[p.currentStep]) :
                        i # k => i \in Undecided(g[p.currentStep])
<1>1. \A t \in FlowSteps : Has(g, t) <=> Has(f, t)
  BY DEF Advanced, Has
<1>2. ASSUME p.currentStep \in FlowSteps
      PROVE  /\ g[p.currentStep].id = f[p.currentStep].id
             /\ RightRoles(p, f) => RightRoles(p, g)
             /\ Newest(p, f) => Newest(p, g)
             /\ \A i \in Undecided(f[p.currentStep]) :
                     i # k => i \in Undecided(g[p.currentStep])
  <2> DEFINE t == p.currentStep
             old == f[t].validators
             new == g[t].validators
  <2>1. /\ g[t].id = f[t].id
        /\ Len(new) = Len(old)
        /\ \A i \in 1..Len(old) :
            /\ new[i].role = old[i].role
            /\ \/ new[i].decision = old[i].decision
               \/ i = k /\ new[i].decision = "VALIDATED"
    BY <1>2 DEF Advanced
  <2>2. RightRoles(p, f) => RightRoles(p, g)
    <3> DEFINE roles == RolesNeeded(p)
    <3> HIDE DEF roles
    <3>1. RightRoles(p, f) =>
            /\ Len(old) = Len(roles)
            /\ \A i \in 1..Len(roles) :
                    old[i].role = roles[i] /\ old[i].decision \in {"none", "VALIDATED"}
      BY DEF RightRoles, roles
    <3>2. /\ Len(new) = Len(roles)
          /\ \A i \in 1..Len(roles) :
                    new[i].role = roles[i] /\ new[i].decision \in {"none", "VALIDATED"}
          => RightRoles(p, g)
      BY DEF RightRoles, roles
    <3> HIDE DEF t, old, new
    <3>3. QED
      BY <2>1, <3>1, <3>2
  <2>3. Newest(p, f) => Newest(p, g)
    BY <2>1 DEF Newest, Advanced
  <2>4. \A i \in Undecided(f[t]) : i # k => i \in Undecided(g[t])
    BY <2>1 DEF Undecided
  <2>5. QED
    BY <2>1, <2>2, <2>3, <2>4
<1>3. QED
  BY <1>1, <1>2 DEF NothingAhead, NoChain, AtFlow

\* Backing outlives a signature, as long as it was not the last one.
LEMMA AdvancedBacked ==
    ASSUME NEW p, NEW f \in FlowTable, NEW g \in FlowTable, NEW s, NEW k,
           Advanced(f, g, s, k), Backed(p, f),
           AtFlow(p, f) => \E i \in Undecided(f[p.currentStep]) : i # k
    PROVE  Backed(p, g)
<1>1. /\ NothingAhead(p, g)
      /\ NoChain(f) => NoChain(g)
      /\ AtFlow(p, g) <=> AtFlow(p, f)
      /\ p.currentStep \in FlowSteps =>
            /\ RightRoles(p, f) => RightRoles(p, g)
            /\ Newest(p, f) => Newest(p, g)
            /\ \A i \in Undecided(f[p.currentStep]) :
                    i # k => i \in Undecided(g[p.currentStep])
  BY AdvancedKeeps DEF Backed
<1>2. AtFlow(p, f) => p.currentStep \in FlowSteps
  BY DEF AtFlow
<1>3. AtFlow(p, f) => SomebodyLeft(p, g)
  BY <1>1, <1>2 DEF SomebodyLeft
<1>4. QED
  BY <1>1, <1>2, <1>3 DEF Backed

\* The purchase enters a step that has no workflow yet.
LEMMA EntersBacked ==
    ASSUME NEW p \in Purchase, NEW f, NothingAhead(p, f),
           NEW w, Enters(w), StepNumber[w.step] = StepNumber[p.currentStep] + 1,
           NEW q \in Purchase, q.currentStep = w.step, q.status = w.status
    PROVE  Backed(q, f)
<1>1. /\ \A s \in Steps : StepNumber[s] \in Nat \ {0}
      /\ FlowSteps \subseteq Steps /\ StepNumber["DA"] = 1
      /\ p.currentStep \in Steps /\ q.currentStep \in Steps
  BY SuccessorsType DEF StepNumber, Steps, Purchase
<1>2. StepBefore(p.currentStep, q.currentStep) /\ q.currentStep # "DA"
  BY <1>1 DEF StepBefore
<1>3. \A s \in FlowSteps : StepBefore(q.currentStep, s) => StepBefore(p.currentStep, s)
  BY <1>1 DEF StepBefore
<1>4. NothingAhead(q, f)
  BY <1>3 DEF NothingAhead
<1>5. ~AtFlow(q, f)
  BY <1>2 DEF AtFlow, NothingAhead
<1>6. q.status # "DRAFT" /\ ~Asked(q)
  BY <1>2 DEF Enters, Asked
<1>7. QED
  BY <1>2, <1>4, <1>5, <1>6 DEF Backed

\* Workflows are deleted, for a purchase nobody is asked about.
LEMMA DroppedBacked ==
    ASSUME NEW p, NEW f \in FlowTable, NEW g \in FlowTable,
           \A s \in FlowSteps : g[s] = f[s] \/ g[s] = NoFlow,
           Backed(p, f), p.status \in OffDesk \/ ~Asked(p)
    PROVE  Backed(p, g)
<1>1. \A s \in FlowSteps : /\ Has(g, s) => g[s] = f[s]
                           /\ g[s].id <= f[s].id
  BY DEF Has, NoFlow, FlowTable, Workflow
<1>2. \A s \in FlowSteps : Has(g, s) => Has(f, s)
  BY <1>1 DEF Has
<1>3. NothingAhead(p, g) /\ (p.status = "DRAFT" => NoChain(g))
  BY <1>2 DEF Backed, NothingAhead, NoChain
<1>4. ASSUME p.status \notin OffDesk, AtFlow(p, g)
      PROVE  RightRoles(p, g) /\ Newest(p, g)
  <2> DEFINE t == p.currentStep
  <2>1. t \in FlowSteps /\ g[t] = f[t] /\ Has(f, t)
    BY <1>1, <1>2, <1>4 DEF AtFlow
  <2>2. RightRoles(p, f) /\ Newest(p, f)
    BY <1>4, <2>1 DEF Backed, AtFlow
  <2>3. RightRoles(p, g)
    BY <2>1, <2>2 DEF RightRoles
  <2>4. \A s \in FlowSteps : f[s].id \in Nat /\ g[s].id \in Nat
    BY DEF FlowTable, Workflow
  <2>5. Newest(p, g)
    BY <1>1, <2>1, <2>2, <2>4 DEF Newest
  <2>6. QED
    BY <2>3, <2>5
<1>5. QED
  BY <1>3, <1>4 DEF Backed

\* What one write does to the row and to the workflows.
LEMMA ChainEffects ==
    ASSUME TypeOK, NEW r \in Requests, Continue(r), purchase'.exists
    PROVE  LET w == Head(req[r].todo)
               p == purchase
               q == purchase'
           IN  /\ p.exists
               /\ w.do = "update" =>
                    /\ q.operationType = Patch(p.operationType, w.operationType)
                    /\ q.amount = p.amount
               /\ w.do # "update" /\ ~OnItems(w) => q = p
               /\ w.do = "createFlow" /\ ~Has(flows, w.step) =>
                    /\ GoesOn(r)
                    /\ flows' = [flows EXCEPT ![w.step] =
                                    NewFlow(nextFlow, w.roles, w.signed)]
               /\ w.do = "deleteFlows" =>
                    flows' = [s \in FlowSteps |-> IF s \in w.steps
                                                  THEN NoFlow ELSE flows[s]]
               /\ Marks(w) => (Over(r) /\ flows' = flows) \/ GoesOn(r)
               /\ Marks(w) /\ w.decision = "VALIDATED" =>
                    \/ Over(r) /\ flows' = flows
                    \/ GoesOn(r) /\ Advanced(flows, flows', w.step, w.order)
               /\ Advances(w) =>
                    \/ Over(r) /\ flows' = flows
                    \/ HasLess(r) /\ Advanced(flows, flows', w.step, 0)
                    \/ GoesOn(r) /\ Advanced(flows, flows', w.step, 0)
               /\ Marks(w) \/ Advances(w) =>
                    w.step \in FlowSteps /\ (Stands(w.step, w.id) => GoesOn(r) \/ HasLess(r))
<1> DEFINE w == Head(req[r].todo)
<1>1. /\ flows \in FlowTable /\ purchase \in Purchase
      /\ req \in [Requests -> Request] /\ req[r] \in Request
      /\ req[r].todo # << >> /\ w \in Write
  <2>1. req[r].todo # << >>
    BY WriteEffects
  <2>2. QED
    BY <2>1 DEF TypeOK, FlowTable, Request
<1>2. Done(r) => GoesOn(r)
  BY <1>1, DoneGoesOn
<1>3. Throw(r) => Over(r)
  BY DEF Throw, Over
<1>4. ASSUME UNCHANGED flows
      PROVE  \A s, k : Advanced(flows, flows', s, k)
  BY <1>4 DEF Advanced
<1>5. CASE CheckPapers(r) \/ WritePapers(r)
  <2>1. w.do \in PaperWrites \cup {"require"} /\ UNCHANGED << purchase, flows >>
    BY <1>5 DEF CheckPapers, WritePapers, Awaits
  <2>2. QED
    BY <2>1 DEF PaperWrites, Marks, Advances
<1>6. CASE UpdatePurchase(r)
  <2>1. w.do = "update" /\ UNCHANGED flows
    BY <1>6 DEF UpdatePurchase, Awaits
  <2>2. /\ purchase.exists
        /\ purchase'.operationType = Patch(purchase.operationType, w.operationType)
        /\ purchase'.amount = purchase.amount
    BY <1>1, <1>6 DEF UpdatePurchase, Purchase
  <2>3. QED
    BY <2>1, <2>2 DEF Marks, Advances
<1>7. CASE RemovePurchase(r)
  <2>1. ~purchase'.exists
    BY <1>1, <1>7 DEF RemovePurchase, Awaits, Purchase
  <2>2. QED
    BY <2>1
<1>8. CASE RemoveItems(r) \/ InsertItems(r)
  <2>1. w.do \in {"deleteItems", "createItems"} /\ UNCHANGED flows
    BY <1>8 DEF RemoveItems, InsertItems, Awaits
  <2>2. purchase.exists
    BY <1>1, <1>8 DEF RemoveItems, InsertItems, Purchase
  <2>3. QED
    BY <2>1, <2>2 DEF OnItems, Marks, Advances
<1>9. CASE RemoveFlows(r)
  <2>1. w.do = "deleteFlows" /\ UNCHANGED purchase
    BY <1>9 DEF RemoveFlows, Awaits
  <2>2. QED
    BY <1>9, <2>1 DEF RemoveFlows, Marks, Advances
<1>10. CASE InsertFlow(r)
  <2>1. w.do = "createFlow" /\ UNCHANGED purchase
    BY <1>10 DEF InsertFlow, Awaits
  <2>2. ASSUME ~Has(flows, w.step)
        PROVE  /\ GoesOn(r)
               /\ flows' = [flows EXCEPT ![w.step] =
                                NewFlow(nextFlow, w.roles, w.signed)]
    BY <1>2, <1>10, <2>1, <2>2 DEF InsertFlow, Has, Exists
  <2>3. QED
    BY <2>1, <2>2 DEF Marks, Advances
<1>11. CASE MarkValidator(r)
  <2>1. /\ w.do = "mark" /\ UNCHANGED purchase /\ w.step \in FlowSteps
        /\ Stands(w.step, w.id) => Done(r)
        /\ ~Stands(w.step, w.id) => Throw(r) /\ flows' = flows
    BY <1>1, <1>11, WriteFields DEF MarkValidator, Awaits
  <2>2. ASSUME w.decision = "VALIDATED"
        PROVE  \/ Over(r) /\ flows' = flows
               \/ GoesOn(r) /\ Advanced(flows, flows', w.step, w.order)
    <3>1. CASE ~Stands(w.step, w.id)
      BY <1>3, <1>11, <3>1 DEF MarkValidator
    <3>2. CASE Stands(w.step, w.id)
      <4> DEFINE s == w.step
                 k == w.order
                 old == flows[s].validators
                 new == flows'[s].validators
      <4>1. flows' = [flows EXCEPT ![s].validators[k].decision = "VALIDATED"]
        BY <1>11, <2>2, <3>2 DEF MarkValidator
      <4>2. s \in FlowSteps
        BY <2>1
      <4>3. /\ flows[s] \in Workflow /\ old \in Seq(Validator)
        BY <1>1, <4>2 DEF FlowTable, Workflow
      <4> HIDE DEF s, k
      <4>4. /\ \A t \in FlowSteps : t # s => flows'[t] = flows[t]
            /\ flows'[s] = [flows[s] EXCEPT !.validators =
                                [old EXCEPT ![k].decision = "VALIDATED"]]
        BY <1>1, <4>1, <4>2 DEF FlowTable
      <4>5. /\ flows'[s].id = flows[s].id
            /\ new = [old EXCEPT ![k].decision = "VALIDATED"]
        BY <4>3, <4>4 DEF Workflow
      <4> HIDE DEF old, new
      <4>6. /\ Len(new) = Len(old)
            /\ \A i \in 1..Len(old) :
                /\ new[i].role = old[i].role
                /\ \/ new[i].decision = old[i].decision
                   \/ i = k /\ new[i].decision = "VALIDATED"
        <5>1. new \in Seq(Validator)
          BY <4>2, ContinueType DEF TypeOK, Workflow, new
        <5>2. Len(new) = Len(old)
          <6>1. DOMAIN new = DOMAIN old
            BY <4>5
          <6>2. 1..Len(new) = 1..Len(old) /\ Len(new) \in Nat /\ Len(old) \in Nat
            BY <4>3, <5>1, <6>1
          <6>3. QED
            BY <6>2
        <5>3. \A i \in 1..Len(old) : old[i] \in Validator
          BY <4>3, ElementOfSeq
        <5>4. SUFFICES ASSUME NEW i \in 1..Len(old)
                       PROVE  /\ new[i].role = old[i].role
                              /\ \/ new[i].decision = old[i].decision
                                 \/ i = k /\ new[i].decision = "VALIDATED"
          BY <5>2
        <5>5. old[i] \in Validator /\ i \in DOMAIN old
          BY <4>3, <5>3
        <5>6. CASE i = k
          <6>1. new[i] = [old[i] EXCEPT !.decision = "VALIDATED"]
            BY <4>5, <5>5, <5>6
          <6>2. QED
            BY <5>5, <5>6, <6>1 DEF Validator
        <5>7. CASE i # k
          BY <4>5, <5>5, <5>7
        <5>8. QED
          BY <5>6, <5>7
      <4>7. Advanced(flows, flows', s, k)
        <5>1. ASSUME NEW t \in FlowSteps, t # s
              PROVE  flows'[t] = flows[t]
          BY <4>4, <5>1
        <5>2. /\ flows'[s].id = flows[s].id
              /\ Len(flows'[s].validators) = Len(flows[s].validators)
              /\ \A i \in 1..Len(flows[s].validators) :
                    /\ flows'[s].validators[i].role = flows[s].validators[i].role
                    /\ \/ flows'[s].validators[i].decision
                            = flows[s].validators[i].decision
                       \/ i = k /\ flows'[s].validators[i].decision = "VALIDATED"
          BY <4>5, <4>6 DEF old, new
        <5>3. QED
          BY <5>1, <5>2, Zenon DEF Advanced
      <4>8. QED
        BY <1>2, <2>1, <3>2, <4>7 DEF s, k
    <3>3. QED
      BY <3>1, <3>2
  <2>3. QED
    BY <1>2, <1>3, <2>1, <2>2 DEF Marks, Advances
<1>12. CASE ReadFlowToAdvance(r)
  <2>1. w.do = "readFlow" /\ UNCHANGED << purchase, flows >> /\ w.step \in FlowSteps
    BY <1>1, <1>12, WriteFields DEF ReadFlowToAdvance, Awaits
  <2>2. ASSUME Stands(w.step, w.id)
        PROVE  HasLess(r)
    <3> DEFINE y == [req[r] EXCEPT !.allSigned = Complete(flows[w.step]),
                                   !.todo = Tail(req[r].todo)]
    <3>1. req' = [req EXCEPT ![r] = y]
      BY <1>1, <1>12, <2>2 DEF ReadFlowToAdvance
    <3>2. Goes(req[r], y)
      BY <1>1 DEF Goes, Request
    <3> HIDE DEF y
    <3>3. QED
      BY <3>1, <3>2 DEF HasLess
  <2>3. ~Stands(w.step, w.id) => Over(r)
    BY <1>3, <1>12 DEF ReadFlowToAdvance
  <2>4. QED
    BY <1>4, <2>1, <2>2, <2>3 DEF Marks, Advances
<1>13. CASE WriteFlowAdvance(r)
  <2>1. /\ w.do = "advanceFlow" /\ UNCHANGED purchase /\ w.step \in FlowSteps
        /\ Stands(w.step, w.id) => Done(r)
        /\ ~Stands(w.step, w.id) => Throw(r) /\ UNCHANGED flows
    BY <1>1, <1>13, WriteFields DEF WriteFlowAdvance, Awaits
  <2>2. ASSUME Stands(w.step, w.id)
        PROVE  Advanced(flows, flows', w.step, 0)
    <3>1. flows' = [flows EXCEPT ![w.step].isComplete = req[r].allSigned]
      BY <1>13, <2>2 DEF WriteFlowAdvance
    <3>2. \A t \in FlowSteps : /\ flows'[t].id = flows[t].id
                               /\ flows'[t].validators = flows[t].validators
      BY <1>1, <2>1, <3>1 DEF FlowTable, Workflow
    <3>3. QED
      BY <3>2 DEF Advanced
  <2>3. QED
    BY <1>2, <1>3, <2>1, <2>2 DEF Marks, Advances
<1>14. QED
  BY <1>5, <1>6, <1>7, <1>8, <1>9, <1>10, <1>11, <1>12, <1>13 DEF Continue

LEMMA AfterTypes ==
    ASSUME TypeOK, NEW r \in Requests, Continue(r)
    PROVE  /\ purchase \in Purchase /\ purchase' \in Purchase
           /\ flows \in FlowTable /\ flows' \in FlowTable
           /\ nextFlow \in Nat \ {0} /\ req[r] \in Request
  BY ContinueType DEF TypeOK, FlowTable

\* An update of a purchase that is there.
LEMMA UpdateEffects ==
    ASSUME TypeOK, NEW r \in Requests, Continue(r), purchase'.exists,
           Head(req[r].todo).do = "update"
    PROVE  LET w == Head(req[r].todo)
               p == purchase
               q == purchase'
           IN  /\ GoesOn(r) /\ flows' = flows
               /\ q.currentStep = Patch(p.currentStep, w.step)
               /\ q.status = Patch(p.status, w.status)
               /\ q.operationType = Patch(p.operationType, w.operationType)
               /\ q.amount = p.amount
  BY WriteEffects, ChainEffects

-----------------------------------------------------------------------------
(* The next write of each kind of list.                                    *)

\* Nothing that needs a signature happens.
LEMMA MindingContinues ==
    ASSUME TypeOK, StepsOrdered, NEW r \in Requests, Continue(r), purchase'.exists,
           Minding(req[r], purchase, flows)
    PROVE  /\ Vouched(req'[r], purchase', flows')
           /\ \/ purchase'.currentStep = purchase.currentStep
              \/ purchase.currentStep \notin FlowSteps
<1> DEFINE x == req[r]
           y == req'[r]
           n == Len(x.todo)
           w == Head(x.todo)
           p == purchase
           q == purchase'
           Rest(v) == \A i \in 1..Len(y.todo) : Harmless(y.todo[i], v)
<1>1. /\ n \in Nat /\ n >= 1 /\ w = x.todo[1]
      /\ y = Idle \/ Goes(x, y)
      /\ GoesOn(r) /\ n = 1 => y = Idle
      /\ \A i \in 1..Len(y.todo) : y.todo[i] = x.todo[i + 1] /\ i + 1 \in 2..n
  BY LeftAfter
<1>2. p \in Purchase /\ q \in Purchase
  BY AfterTypes
<1>3. Backed(p, flows) /\ x.op \notin ApprovalOps /\ \A i \in 1..n : Harmless(x.todo[i], p)
  BY DEF Minding
<1>4. 1 \in 1..n /\ \A i \in 2..n : i \in 1..n
  BY <1>1
<1>5. Harmless(w, p) /\ Rest(p)
  BY <1>1, <1>3, <1>4
<1>6. ASSUME Backed(q, flows'), Rest(q)
      PROVE  Vouched(y, q, flows')
  <2> HIDE DEF x, y, q
  <2>1. Goes(x, y) => y.op = x.op
    BY DEF Goes
  <2>2. QED
    BY <1>1, <1>3, <1>6, <2>1, IdleVouched DEF Vouched, Minding
<1>7. ASSUME q.status = p.status, q.currentStep = p.currentStep
      PROVE  Rest(q)
  BY <1>5, <1>7 DEF Harmless
<1>8. CASE OnPapers(w)
  <2>1. q = p /\ flows' = flows
    BY <1>8, WriteEffects
  <2>2. QED
    BY <1>3, <1>6, <1>7, <2>1
<1>9. CASE w.do = "deletePurchase"
  <2>1. purchase'.exists = purchase.exists /\ ~purchase'.exists
    <3>1. RemovePurchase(r)
      BY <1>9 DEF Continue, CheckPapers, UpdatePurchase, RemoveItems,
           InsertItems, RemoveFlows, InsertFlow, MarkValidator,
           ReadFlowToAdvance, WriteFlowAdvance, WritePapers, Awaits, PaperWrites
    <3>2. QED
      BY <1>2, <3>1 DEF RemovePurchase, Purchase
  <2>2. QED
    BY <2>1
<1>10. CASE (OnItems(w) \/ OnFields(w)) /\ p.status \in {"DRAFT", "CHANGE_REQUESTED"}
  <2>1. q.status = p.status /\ q.currentStep = p.currentStep /\ flows' = flows
    <3>1. CASE OnItems(w)
      BY <3>1, WriteEffects DEF OnItems, SameStanding
    <3>2. CASE OnFields(w)
      BY <3>2, UpdateEffects DEF OnFields, Patch
    <3>3. QED
      BY <1>10, <3>1, <3>2
  <2>2. p.status \in OffDesk
    BY <1>10 DEF OffDesk, Refusals
  <2>3. Backed(q, flows')
    BY <1>3, <2>1, <2>2 DEF Backed, NothingAhead
  <2>4. QED
    BY <1>6, <1>7, <2>1, <2>3
<1>11. CASE /\ Sets(w, "AWAITING_DOCUMENTS")
            /\ p.currentStep # "DA" /\ p.status \notin OffDesk
  <2>1. /\ q.status = "AWAITING_DOCUMENTS" /\ q.currentStep = p.currentStep
        /\ q.operationType = p.operationType /\ q.amount = p.amount
        /\ flows' = flows
    BY <1>11, UpdateEffects DEF Sets, SetsStatus, Patch, Keep
  <2>2. q.status \notin OffDesk /\ ~Asked(q) /\ q.status # "DRAFT"
    BY <2>1 DEF OffDesk, Refusals, Asked
  <2>3. Backed(q, flows')
    BY <1>3, <1>11, <2>1, <2>2 DEF Backed, NothingAhead, AtFlow, RightRoles,
       RolesNeeded, Newest
  <2>4. Rest(q)
    BY <1>5, <1>11, <2>1, <2>2 DEF Harmless, OffDesk, Refusals
  <2>5. QED
    BY <1>6, <2>1, <2>3, <2>4
<1>12. CASE Enters(w) /\ p.currentStep \notin FlowSteps
  <2>1. MovesStep(w) /\ w.do = "update"
    BY <1>12 DEF Enters, MovesStep
  <2>2. n = 1 /\ StepNumber[w.step] = StepNumber[p.currentStep] + 1
    <3>1. OrderedRequest(x, p.currentStep)
      BY DEF StepsOrdered
    <3>2. QED
      BY <1>1, <1>4, <2>1, <3>1 DEF OrderedRequest
  <2>3. y = Idle /\ q.currentStep = w.step /\ q.status = w.status /\ flows' = flows
    BY <1>1, <1>12, <2>1, <2>2, UpdateEffects DEF Enters, MovesStep, Patch, Keep
  <2>4. Backed(q, flows)
    BY <1>2, <1>3, <1>12, <2>2, <2>3, EntersBacked DEF Backed
  <2>5. QED
    BY <1>12, <2>3, <2>4, IdleVouched
<1>13. QED
  BY <1>5, <1>8, <1>9, <1>10, <1>11, <1>12 DEF Harmless

\* A revision makes a draft without workflows.
LEMMA ReworkingContinues ==
    ASSUME TypeOK, NEW r \in Requests, Continue(r), purchase'.exists,
           Reworking(req[r], purchase, flows)
    PROVE  /\ Vouched(req'[r], purchase', flows')
           /\ purchase'.currentStep = purchase.currentStep
<1> DEFINE x == req[r]
           y == req'[r]
           n == Len(x.todo)
           w == Head(x.todo)
           p == purchase
           q == purchase'
<1>1. /\ n \in Nat /\ n >= 1 /\ w = x.todo[1]
      /\ GoesOn(r) /\ n >= 2 => Goes(x, y)
      /\ GoesOn(r) /\ n = 1 => y = Idle
      /\ Goes(x, y) => Len(y.todo) = n - 1
      /\ \A i \in 1..Len(y.todo) : y.todo[i] = x.todo[i + 1] /\ i + 1 \in 2..n
  BY LeftAfter
<1>2. /\ p.status \in {"DRAFT", "CHANGE_REQUESTED"}
      /\ NothingAhead(p, flows)
      /\ DropsFlows(x.todo[n])
      /\ \A i \in 1..(n - 1) : ToDraft(x.todo[i]) \/ OnItems(x.todo[i])
  BY DEF Reworking
<1>3. CASE n = 1
  <2>1. w.do = "deleteFlows" /\ w.steps = FlowSteps
    BY <1>1, <1>2, <1>3 DEF DropsFlows
  <2>2. q = p /\ y = Idle /\ NoChain(flows')
    BY <1>1, <1>3, <2>1, WriteEffects DEF NoChain
  <2>3. Backed(q, flows')
    BY <1>2, <2>2 DEF Backed, OffDesk, Refusals, NothingAhead, NoChain
  <2>4. QED
    BY <2>2, <2>3, IdleVouched
<1>4. CASE n >= 2
  <2>1. ToDraft(w) \/ OnItems(w)
    <3>1. 1 \in 1..(n - 1)
      BY <1>1, <1>4
    <3>2. QED
      BY <1>1, <1>2, <3>1
  <2>2. /\ GoesOn(r) /\ flows' = flows
        /\ q.currentStep = p.currentStep
        /\ q.status \in {"DRAFT", "CHANGE_REQUESTED"}
    <3>1. CASE ToDraft(w)
      BY <3>1, UpdateEffects DEF ToDraft, Patch, Keep
    <3>2. CASE OnItems(w)
      BY <1>2, <3>2, WriteEffects, ChainEffects DEF OnItems, SameStanding
    <3>3. QED
      BY <2>1, <3>1, <3>2
  <2> DEFINE m == Len(y.todo)
  <2>3. /\ m = n - 1 /\ m >= 1
        /\ \A i \in 1..m : y.todo[i] = x.todo[i + 1]
    BY <1>1, <1>4, <2>2
  <2> HIDE DEF m, n
  <2>4. y.todo[m] = x.todo[n]
    <3>1. m \in 1..m /\ m + 1 = n
      BY <1>1, <2>3
    <3>2. QED
      BY <2>3, <3>1
  <2>5. \A i \in 1..(m - 1) : ToDraft(y.todo[i]) \/ OnItems(y.todo[i])
    <3>1. \A i \in 1..(m - 1) : i \in 1..m /\ i + 1 \in 1..(n - 1)
      BY <1>1, <2>3
    <3>2. QED
      BY <1>2, <2>3, <3>1
  <2>6. NothingAhead(q, flows')
    BY <1>2, <2>2 DEF NothingAhead
  <2>7. Reworking(y, q, flows')
    BY <1>2, <2>2, <2>3, <2>4, <2>5, <2>6 DEF Reworking, m
  <2>8. QED
    BY <2>2, <2>7 DEF Vouched
<1> HIDE DEF x, y, n, w, p, q
<1>5. n = 1 \/ n >= 2
  BY <1>1
<1>6. QED
  BY <1>3, <1>4, <1>5 DEF p, q, y

\* The workflow of the present step is opened, with the next id.
Opened(p, f, g, id) ==
    /\ p.currentStep \in FlowSteps
    /\ id \in Nat \ {0} /\ \A s \in FlowSteps : f[s].id < id
    /\ \/ g = [f EXCEPT ![p.currentStep] = NewFlow(id, RolesNeeded(p), FALSE)]
       \/ g = [f EXCEPT ![p.currentStep] = NewFlow(id, RolesNeeded(p), TRUE)]

LEMMA OpenedFlow ==
    ASSUME NEW p \in Purchase, NEW f \in FlowTable, NEW g, NEW id, Opened(p, f, g, id)
    PROVE  /\ AtFlow(p, g) /\ RightRoles(p, g) /\ Newest(p, g) /\ SomebodyLeft(p, g)
           /\ NothingAhead(p, f) => NothingAhead(p, g)
<1> DEFINE t == p.currentStep
           roles == RolesNeeded(p)
<1>1. PICK w : /\ g = [f EXCEPT ![t] = w]
               /\ \/ w = NewFlow(id, roles, FALSE)
                  \/ w = NewFlow(id, roles, TRUE)
  BY DEF Opened
<1>2. t \in FlowSteps /\ id \in Nat /\ id # 0 /\ \A s \in FlowSteps : f[s].id < id
  BY DEF Opened
<1>3. /\ roles \in Seq(Roles) /\ Len(roles) >= 3
      /\ t \in Steps /\ StepNumber[t] \in Nat
  <2>1. p.operationType \in OperationTypes /\ p.amount \in Nat /\ t \in Steps
    BY DEF Purchase
  <2>2. QED
    BY <1>2, <2>1, RolesEnough, SuccessorsType DEF RolesNeeded
<1>4. g[t] = w /\ \A s \in FlowSteps : s # t => g[s] = f[s]
  BY <1>2, <1>1 DEF FlowTable
<1> HIDE DEF t, roles
<1>5. Len(roles) >= 2
  BY <1>3
<1>6. /\ w.id = id /\ Len(w.validators) = Len(roles)
      /\ \A i \in 1..Len(roles) :
            /\ w.validators[i].role = roles[i]
            /\ w.validators[i].decision \in {"none", "VALIDATED"}
      /\ Undecided(w) # {}
  BY <1>3, <1>5, <1>1, NewFlowRoles
<1>7. AtFlow(p, g)
  BY <1>2, <1>4, <1>6 DEF AtFlow, Has, t
<1>8. RightRoles(p, g)
  BY <1>2, <1>4, <1>6 DEF RightRoles, t, roles
<1>9. SomebodyLeft(p, g)
  BY <1>2, <1>4, <1>6 DEF SomebodyLeft, t
<1>10. Newest(p, g)
  <2>1. \A s \in FlowSteps : f[s].id \in Nat
    BY DEF FlowTable, Workflow
  <2>2. \A s \in FlowSteps : g[s].id <= id
    BY <1>2, <1>4, <1>6, <2>1
  <2>3. QED
    BY <1>2, <1>4, <1>6, <2>2 DEF Newest, t
<1>11. ~StepBefore(t, t)
  BY <1>3 DEF StepBefore
<1>12. NothingAhead(p, f) => NothingAhead(p, g)
  BY <1>4, <1>11 DEF NothingAhead, Has, t
<1>13. QED
  BY <1>7, <1>8, <1>9, <1>10, <1>12

\* Ids are given in turn.
LEMMA YoungIds ==
    ASSUME TypeOK, TurnsStayGood
    PROVE  /\ nextFlow \in Nat \ {0}
           /\ \A s \in FlowSteps : flows[s].id < nextFlow
  BY DEF TypeOK, TurnsStayGood

\* A submission opens the workflow of the step before it sets the status.
LEMMA AskingOn ==
    ASSUME NEW x \in Request, NEW y, Goes(x, y), NEW p, NEW f, NEW g,
           Asking(x, p, f), Len(x.todo) >= 3, Backed(p, g)
    PROVE  Asking(y, p, g)
<1> DEFINE n == Len(x.todo)
           m == Len(y.todo)
<1>1. /\ n \in Nat /\ m = n - 1
      /\ \A i \in 1..m : y.todo[i] = x.todo[i + 1]
  <2>1. x.todo # << >>
    BY DEF Goes
  <2>2. QED
    BY <2>1, LessToDo
<1>2. /\ p.currentStep \in FlowSteps \ {"DA"}
      /\ \E status \in {"PENDING_APPROVAL", "IN_DEROGATION"} : Sets(x.todo[n], status)
      /\ n >= 2 => OpensChain(x.todo[n - 1], p.currentStep, p, FALSE)
      /\ \A i \in 1..(n - 2) :
            \/ OnPapers(x.todo[i])
            \/ /\ x.todo[i].do = "deleteFlows"
               /\ p.status \in {"PUBLISHED", "AWAITING_DOCUMENTS"}
  BY DEF Asking
<1>3. n >= 3
  OBVIOUS
<1> HIDE DEF n, m
<1>4. /\ m \in 1..m /\ m + 1 = n /\ m >= 2 /\ m # 1 /\ n >= 2 /\ m >= 1
      /\ m - 1 \in 1..m /\ (m - 1) + 1 = n - 1
      /\ \A i \in 1..(m - 2) : i \in 1..m /\ i + 1 \in 1..(n - 2)
  BY <1>1, <1>3
<1>5. y.todo[m] = x.todo[n] /\ y.todo[m - 1] = x.todo[n - 1]
  BY <1>1, <1>4
<1>6. \A i \in 1..(m - 2) :
            \/ OnPapers(y.todo[i])
            \/ /\ y.todo[i].do = "deleteFlows"
               /\ p.status \in {"PUBLISHED", "AWAITING_DOCUMENTS"}
  <2> TAKE i \in 1..(m - 2)
  <2>1. i \in 1..m /\ i + 1 \in 1..(n - 2)
    BY <1>4
  <2>2. y.todo[i] = x.todo[i + 1]
    BY <1>1, <2>1
  <2>3. \/ OnPapers(x.todo[i + 1])
        \/ /\ x.todo[i + 1].do = "deleteFlows"
           /\ p.status \in {"PUBLISHED", "AWAITING_DOCUMENTS"}
    BY <1>2, <2>1
  <2>4. QED
    BY <2>2, <2>3
<1>7. NothingAhead(p, g)
  BY DEF Backed
<1>8. QED
  BY <1>2, <1>4, <1>5, <1>6, <1>7 DEF Asking, m

LEMMA AskingContinues ==
    ASSUME TypeOK, TurnsStayGood, NEW r \in Requests, Continue(r), purchase'.exists,
           Asking(req[r], purchase, flows)
    PROVE  /\ Vouched(req'[r], purchase', flows')
           /\ purchase'.currentStep = purchase.currentStep
<1> DEFINE x == req[r]
           y == req'[r]
           n == Len(x.todo)
           w == Head(x.todo)
           p == purchase
           q == purchase'
<1>1. /\ n \in Nat /\ n >= 1 /\ w = x.todo[1]
      /\ y = Idle \/ Goes(x, y)
      /\ GoesOn(r) /\ n >= 2 => Goes(x, y)
      /\ GoesOn(r) /\ n = 1 => y = Idle
      /\ Over(r) => y = Idle
      /\ Goes(x, y) => Len(y.todo) = n - 1
      /\ \A i \in 1..Len(y.todo) : y.todo[i] = x.todo[i + 1] /\ i + 1 \in 2..n
  BY LeftAfter
<1>2. /\ NothingAhead(p, flows)
      /\ p.currentStep \in FlowSteps \ {"DA"}
      /\ \E status \in {"PENDING_APPROVAL", "IN_DEROGATION"} : Sets(x.todo[n], status)
      /\ n >= 2 => /\ OpensChain(x.todo[n - 1], p.currentStep, p, FALSE)
                   /\ Backed(p, flows)
      /\ \A i \in 1..(n - 2) :
            \/ OnPapers(x.todo[i])
            \/ /\ x.todo[i].do = "deleteFlows"
               /\ p.status \in {"PUBLISHED", "AWAITING_DOCUMENTS"}
      /\ n = 1 => /\ AtFlow(p, flows) /\ RightRoles(p, flows)
                  /\ Newest(p, flows) /\ SomebodyLeft(p, flows)
  BY DEF Asking
<1>3. p \in Purchase /\ flows \in FlowTable /\ flows' \in FlowTable /\ x \in Request
  BY AfterTypes
<1>4. CASE n = 1
  <2>1. PICK status \in {"PENDING_APPROVAL", "IN_DEROGATION"} : Sets(w, status)
    BY <1>1, <1>2, <1>4
  <2>2. /\ GoesOn(r) /\ flows' = flows
        /\ q.status = status /\ q.currentStep = p.currentStep
        /\ q.operationType = p.operationType /\ q.amount = p.amount
    BY <2>1, UpdateEffects DEF Sets, SetsStatus, Patch, Keep
  <2>3. Backed(q, flows')
    BY <1>2, <1>4, <2>2 DEF Backed, NothingAhead, AtFlow, RightRoles, RolesNeeded,
       Newest, SomebodyLeft
  <2>4. QED
    BY <1>1, <1>4, <2>2, <2>3, IdleVouched
<1>5. CASE n = 2
  <2>1. OpensChain(w, p.currentStep, p, FALSE) /\ Backed(p, flows)
    <3> HIDE DEF x, n, w, p
    <3>1. n - 1 = 1 /\ n >= 2
      BY <1>5
    <3>2. QED
      BY <1>1, <1>2, <3>1
  <2>2. w.do = "createFlow" /\ w.step = p.currentStep /\ q = p
    BY <2>1, WriteEffects DEF OpensChain
  <2>3. CASE Has(flows, p.currentStep)
    <3>1. Over(r) /\ flows' = flows
      BY <2>2, <2>3, WriteEffects DEF Has, Exists
    <3>2. QED
      BY <1>1, <2>1, <2>2, <3>1, IdleVouched
  <2>4. CASE ~Has(flows, p.currentStep)
    <3>1. /\ GoesOn(r)
          /\ flows' = [flows EXCEPT ![p.currentStep] =
                            NewFlow(nextFlow, RolesNeeded(p), FALSE)]
      BY <2>1, <2>2, <2>4, ChainEffects DEF OpensChain
    <3>2. /\ AtFlow(p, flows') /\ RightRoles(p, flows')
          /\ Newest(p, flows') /\ SomebodyLeft(p, flows')
          /\ NothingAhead(p, flows')
      <4>1. p.currentStep \in FlowSteps
        BY <1>2
      <4>2. Opened(p, flows, flows', nextFlow)
        BY <3>1, <4>1, YoungIds DEF Opened
      <4>3. QED
        BY <1>2, <1>3, <4>2, OpenedFlow
    <3> DEFINE m == Len(y.todo)
    <3>3. m = 1 /\ y.todo[1] = x.todo[n]
      <4> HIDE DEF x, y, n
      <4>1. QED
        BY <1>1, <1>5, <3>1 DEF n, y
    <3> HIDE DEF m, n
    <3>4. /\ m >= 1 /\ ~(m >= 2) /\ \A i \in 1..(m - 2) : FALSE
      BY <3>3
    <3>5. Asking(y, p, flows')
      BY <1>2, <3>2, <3>3, <3>4 DEF Asking, m
    <3>6. QED
      BY <2>2, <3>5 DEF Vouched
  <2>5. QED
    BY <2>3, <2>4
<1>6. CASE n >= 3
  <2>1. Backed(p, flows)
    <3> HIDE DEF x, n, p
    <3>1. n >= 2
      BY <1>1, <1>6
    <3>2. QED
      BY <1>2, <3>1
  <2>2. \/ OnPapers(w)
        \/ w.do = "deleteFlows" /\ p.status \in {"PUBLISHED", "AWAITING_DOCUMENTS"}
    <3>1. 1 \in 1..(n - 2)
      BY <1>1, <1>6
    <3>2. QED
      BY <1>1, <1>2, <3>1
  <2>3. q = p /\ Backed(p, flows')
    <3>1. CASE OnPapers(w)
      BY <2>1, <3>1, WriteEffects
    <3>2. CASE w.do = "deleteFlows" /\ p.status \in {"PUBLISHED", "AWAITING_DOCUMENTS"}
      <4>1. \A s \in FlowSteps : flows'[s] = flows[s] \/ flows'[s] = NoFlow
        <5>1. flows' = [s \in FlowSteps |-> IF s \in w.steps
                                            THEN NoFlow ELSE flows[s]]
          BY <3>2, ChainEffects
        <5>2. QED
          BY <5>1
      <4>2. ~Asked(p)
        BY <1>2, <3>2 DEF Asked
      <4>3. QED
        BY <1>3, <2>1, <3>2, <4>1, <4>2, WriteEffects, DroppedBacked
    <3>3. QED
      BY <2>2, <3>1, <3>2
  <2>4. CASE y = Idle
    BY <2>3, <2>4, IdleVouched
  <2>5. CASE Goes(x, y)
    BY <1>3, <1>6, <2>3, <2>5, AskingOn DEF Vouched
  <2>6. QED
    BY <1>1, <2>3, <2>4, <2>5
<1> HIDE DEF x, y, n, w, p, q
<1>7. n = 1 \/ n = 2 \/ n >= 3
  BY <1>1
<1>8. QED
  BY <1>4, <1>5, <1>6, <1>7 DEF p, q, y

\* A publication opens the workflow of DA, for a purchase that has none.
LEMMA AnnouncingOn ==
    ASSUME NEW x \in Request, NEW y, Goes(x, y), NEW p, NEW f, NEW q, NEW g,
           Announcing(x, p, f), Len(x.todo) >= 2,
           q.status = p.status, q.currentStep = p.currentStep,
           RolesNeeded(q) = RolesNeeded(p),
           NothingAhead(q, g),
           Len(x.todo) \in 3..4 => NoChain(g),
           Len(x.todo) = 2 =>
                /\ \A s \in FlowSteps \ {"DA"} : ~Has(g, s)
                /\ q.currentStep = "DA" =>
                        AtFlow(q, g) /\ RightRoles(q, g) /\ SomebodyLeft(q, g)
    PROVE  Announcing(y, q, g)
<1> DEFINE n == Len(x.todo)
           m == Len(y.todo)
<1>1. /\ n \in Nat /\ m = n - 1
      /\ \A k \in 0..3 : k < m => y.todo[m - k] = x.todo[n - k]
  BY FromTheEnd
<1>2. /\ p.status \in {"DRAFT", "CHANGE_REQUESTED"}
      /\ p.currentStep \in FlowSteps
      /\ n \in 1..4
      /\ Sets(x.todo[n], "PUBLISHED")
      /\ n >= 2 => OpensChain(x.todo[n - 1], "DA", p, TRUE)
      /\ n >= 3 => Reopens(x.todo[n - 2]) /\ x.todo[n - 2].operationType = Keep
  BY DEF Announcing
<1>3. n >= 2
  OBVIOUS
<1>4. /\ n \in 3..4 => NoChain(g)
      /\ n = 2 => /\ \A s \in FlowSteps \ {"DA"} : ~Has(g, s)
                  /\ q.currentStep = "DA" =>
                        AtFlow(q, g) /\ RightRoles(q, g) /\ SomebodyLeft(q, g)
  OBVIOUS
<1> HIDE DEF n, m
<1>5. /\ m \in 1..3 /\ m \in 1..4 /\ m # 4
      /\ m >= 2 => n >= 3
      /\ m >= 3 => n >= 3
      /\ m \in 2..3 => n \in 3..4
      /\ m = 1 => n = 2
  BY <1>1, <1>2, <1>3
<1>6. /\ y.todo[m] = x.todo[n]
      /\ m >= 2 => y.todo[m - 1] = x.todo[n - 1]
      /\ m >= 3 => y.todo[m - 2] = x.todo[n - 2]
  <2>1. m - 0 = m /\ n - 0 = n
    BY <1>1, <1>5
  <2>2. 0 < m /\ (m >= 2 => 1 < m) /\ (m >= 3 => 2 < m)
    BY <1>5
  <2>3. QED
    BY <1>1, <2>1, <2>2
<1>7. /\ Sets(y.todo[m], "PUBLISHED")
      /\ m >= 2 => OpensChain(y.todo[m - 1], "DA", q, TRUE)
      /\ m >= 3 => Reopens(y.todo[m - 2]) /\ y.todo[m - 2].operationType = Keep
  BY <1>2, <1>3, <1>5, <1>6 DEF OpensChain
<1>8. QED
  BY <1>2, <1>4, <1>5, <1>7 DEF Announcing, m

LEMMA AnnouncingContinues ==
    ASSUME TypeOK, TurnsStayGood, NEW r \in Requests, Continue(r), purchase'.exists,
           Announcing(req[r], purchase, flows)
    PROVE  /\ Vouched(req'[r], purchase', flows')
           /\ purchase'.currentStep = purchase.currentStep
<1> DEFINE x == req[r]
           y == req'[r]
           n == Len(x.todo)
           w == Head(x.todo)
           p == purchase
           q == purchase'
<1>1. /\ n \in Nat /\ n >= 1 /\ w = x.todo[1]
      /\ GoesOn(r) /\ n >= 2 => Goes(x, y)
      /\ GoesOn(r) /\ n = 1 => y = Idle
  BY LeftAfter
<1>2. /\ p.status \in {"DRAFT", "CHANGE_REQUESTED"}
      /\ p.currentStep \in FlowSteps
      /\ NothingAhead(p, flows)
      /\ n \in 1..4
      /\ Sets(x.todo[n], "PUBLISHED")
      /\ n >= 2 => OpensChain(x.todo[n - 1], "DA", p, TRUE)
      /\ n >= 3 => Reopens(x.todo[n - 2]) /\ x.todo[n - 2].operationType = Keep
      /\ n = 4 => DropsFlows(x.todo[1])
      /\ n \in 2..3 => NoChain(flows)
      /\ n = 1 => /\ \A s \in FlowSteps \ {"DA"} : ~Has(flows, s)
                  /\ p.currentStep = "DA" =>
                      AtFlow(p, flows) /\ RightRoles(p, flows) /\ SomebodyLeft(p, flows)
  BY DEF Announcing
<1>3. p \in Purchase /\ flows \in FlowTable /\ flows' \in FlowTable /\ x \in Request
  BY AfterTypes
<1>4. "DA" \in FlowSteps
  BY DEF FlowSteps
<1>5. ASSUME n >= 2, GoesOn(r),
             q.status = p.status, q.currentStep = p.currentStep,
             RolesNeeded(q) = RolesNeeded(p), NothingAhead(q, flows'),
             n \in 3..4 => NoChain(flows'),
             n = 2 => /\ \A s \in FlowSteps \ {"DA"} : ~Has(flows', s)
                      /\ q.currentStep = "DA" =>
                            /\ AtFlow(q, flows') /\ RightRoles(q, flows')
                            /\ SomebodyLeft(q, flows')
      PROVE  Vouched(y, q, flows')
  <2>1. Goes(x, y)
    BY <1>1, <1>5
  <2>2. Announcing(y, q, flows')
    <3> DEFINE g == flows'
    <3> HIDE DEF g, q, y
    <3>1. QED
      BY <1>3, <1>5, <2>1, AnnouncingOn DEF g
  <2>3. QED
    BY <2>2 DEF Vouched
<1>6. CASE n = 4
  <2>1. w.do = "deleteFlows" /\ w.steps = FlowSteps
    BY <1>1, <1>2, <1>6 DEF DropsFlows
  <2>2. q = p /\ GoesOn(r) /\ NoChain(flows')
    BY <2>1, WriteEffects DEF NoChain
  <2>3. NothingAhead(q, flows')
    BY <2>2 DEF NoChain, NothingAhead
  <2>4. QED
    BY <1>5, <1>6, <2>2, <2>3
<1>7. CASE n = 3
  <2>1. Reopens(w) /\ w.operationType = Keep
    <3>1. n - 2 = 1 /\ n >= 3
      BY <1>7
    <3> HIDE DEF x, n, w, p
    <3>2. QED
      BY <1>1, <1>2, <3>1
  <2>2. /\ GoesOn(r) /\ flows' = flows
        /\ q.currentStep = p.currentStep /\ q.status = p.status
        /\ q.operationType = p.operationType /\ q.amount = p.amount
    BY <2>1, UpdateEffects DEF Reopens, Patch, Keep
  <2>3. RolesNeeded(q) = RolesNeeded(p) /\ NothingAhead(q, flows')
    BY <1>2, <2>2 DEF RolesNeeded, NothingAhead
  <2>4. NoChain(flows')
    BY <1>2, <1>7, <2>2
  <2>5. QED
    BY <1>5, <1>7, <2>2, <2>3, <2>4
<1>8. CASE n = 2
  <2>1. OpensChain(w, "DA", p, TRUE) /\ NoChain(flows)
    <3>1. n - 1 = 1 /\ n >= 2 /\ n \in 2..3
      BY <1>8
    <3> HIDE DEF x, n, w, p
    <3>2. QED
      BY <1>1, <1>2, <3>1
  <2>2. /\ q = p /\ GoesOn(r)
        /\ flows' = [flows EXCEPT !["DA"] = NewFlow(nextFlow, RolesNeeded(p), TRUE)]
    <3>1. w.do = "createFlow" /\ ~Has(flows, w.step)
      BY <1>4, <2>1 DEF OpensChain, NoChain
    <3>2. QED
      BY <2>1, <3>1, WriteEffects, ChainEffects DEF OpensChain
  <2>3. \A s \in FlowSteps \ {"DA"} : ~Has(flows', s)
    BY <1>3, <2>1, <2>2 DEF NoChain, Has, FlowTable
  <2>4. ASSUME q.currentStep = "DA"
        PROVE  AtFlow(q, flows') /\ RightRoles(q, flows') /\ SomebodyLeft(q, flows')
    <3>1. Opened(p, flows, flows', nextFlow)
      BY <1>2, <2>2, <2>4, YoungIds DEF Opened
    <3>2. QED
      BY <1>3, <2>2, <3>1, OpenedFlow
  <2>5. NothingAhead(q, flows')
    <3>1. \A s \in Steps : ~StepBefore(s, "DA")
      BY DEF StepBefore, StepNumber, Steps
    <3>2. p.currentStep \in Steps
      BY <1>3 DEF Purchase
    <3>3. QED
      BY <2>2, <2>3, <3>1, <3>2 DEF NothingAhead
  <2>6. n >= 2 /\ n \notin 3..4
    BY <1>8
  <2> HIDE DEF x, n
  <2>7. QED
    BY <1>5, <2>2, <2>3, <2>4, <2>5, <2>6
<1>9. CASE n = 1
  <2>1. Sets(w, "PUBLISHED")
    BY <1>1, <1>2, <1>9
  <2>2. /\ GoesOn(r) /\ flows' = flows
        /\ q.status = "PUBLISHED" /\ q.currentStep = p.currentStep
        /\ q.operationType = p.operationType /\ q.amount = p.amount
    BY <2>1, UpdateEffects DEF Sets, SetsStatus, Patch, Keep
  <2>3. /\ \A s \in FlowSteps \ {"DA"} : ~Has(flows, s)
        /\ p.currentStep = "DA" =>
              AtFlow(p, flows) /\ RightRoles(p, flows) /\ SomebodyLeft(p, flows)
    BY <1>2, <1>9
  <2>4. NothingAhead(q, flows)
    BY <1>2, <2>2 DEF NothingAhead
  <2>5. AtFlow(q, flows) => RightRoles(q, flows) /\ Newest(q, flows)
    <3>1. SUFFICES ASSUME AtFlow(q, flows)
                   PROVE  RightRoles(q, flows) /\ Newest(q, flows)
      OBVIOUS
    <3>2. q.currentStep = "DA" /\ p.currentStep = "DA"
      BY <2>2, <2>3, <3>1 DEF AtFlow
    <3>3. RightRoles(q, flows)
      BY <2>2, <2>3, <3>2 DEF RightRoles, RolesNeeded
    <3>4. \A s \in FlowSteps : flows[s].id \in Nat /\ (s # "DA" => flows[s].id = 0)
      BY <1>3, <2>3 DEF FlowTable, Workflow, Has
    <3>5. Newest(q, flows)
      BY <1>4, <3>2, <3>4 DEF Newest
    <3>6. QED
      BY <3>3, <3>5
  <2>6. Asked(q) => AtFlow(q, flows) /\ SomebodyLeft(q, flows)
    BY <2>2, <2>3 DEF Asked, AtFlow, SomebodyLeft
  <2>7. Backed(q, flows)
    BY <2>2, <2>4, <2>5, <2>6 DEF Backed
  <2>8. QED
    BY <1>1, <1>9, <2>2, <2>7, IdleVouched
<1> HIDE DEF x, y, n, w, p, q
<1>10. n = 1 \/ n = 2 \/ n = 3 \/ n = 4
  BY <1>2
<1>11. QED
  BY <1>6, <1>7, <1>8, <1>9, <1>10 DEF p, q, y

\* A list and what is left of it: the same end, and before it nothing new.
LEMMA RestOfList ==
    ASSUME NEW x \in Request, NEW y, Goes(x, y), Len(x.todo) >= 2
    PROVE  LET n == Len(x.todo)
               m == Len(y.todo)
           IN  /\ m \in Nat /\ m >= 1 /\ m = n - 1
               /\ y.todo[m] = x.todo[n]
               /\ \A i \in 1..(m - 1) : y.todo[i] = x.todo[i + 1] /\ i + 1 \in 1..(n - 1)
               /\ y.op = x.op /\ y.seen = x.seen
<1> DEFINE n == Len(x.todo)
           m == Len(y.todo)
<1>1. /\ n \in Nat /\ n >= 2 /\ m = n - 1
      /\ \A i \in 1..m : y.todo[i] = x.todo[i + 1]
  <2>1. x.todo # << >>
    BY DEF Goes
  <2>2. QED
    BY <2>1, LessToDo
<1> HIDE DEF n, m
<1>2. /\ m \in Nat /\ m >= 1 /\ m \in 1..m /\ m + 1 = n
      /\ \A i \in 1..(m - 1) : i \in 1..m /\ i + 1 \in 1..(n - 1)
  BY <1>1
<1>3. y.todo[m] = x.todo[n]
  BY <1>1, <1>2
<1>4. y.op = x.op /\ y.seen = x.seen
  BY DEF Goes
<1>5. QED
  BY <1>1, <1>2, <1>3, <1>4 DEF n, m

LEMMA HasLessGoes ==
    ASSUME TypeOK, NEW r \in Requests, HasLess(r)
    PROVE  Goes(req[r], req'[r])
<1>1. PICK z : Goes(req[r], z) /\ req' = [req EXCEPT ![r] = z]
  BY DEF HasLess
<1>2. req'[r] = z
  BY <1>1 DEF TypeOK
<1>3. QED
  BY <1>1, <1>2

\* Somebody is left to sign, whatever this validation still signs.
LEMMA CountersigningContinues ==
    ASSUME TypeOK, NEW r \in Requests, Continue(r), purchase'.exists,
           Countersigning(req[r], purchase, flows)
    PROVE  /\ Vouched(req'[r], purchase', flows')
           /\ purchase'.currentStep = purchase.currentStep
<1> DEFINE x == req[r]
           y == req'[r]
           n == Len(x.todo)
           w == Head(x.todo)
           p == purchase
           q == purchase'
           s == p.currentStep
<1>1. /\ n \in Nat /\ n >= 1 /\ w = x.todo[1]
      /\ y = Idle \/ Goes(x, y)
      /\ GoesOn(r) /\ n = 1 => y = Idle
      /\ Over(r) => y = Idle
  BY LeftAfter
<1>2. /\ Backed(p, flows)
      /\ p.status \in OpenStatuses /\ AtFlow(p, flows)
      /\ Sets(x.todo[n], p.status)
      /\ \A i \in 1..(n - 1) : Signs(x.todo[i], p) \/ Advances(x.todo[i])
      /\ \E k \in Undecided(flows[s]) :
            \A i \in 1..(n - 1) : Marks(x.todo[i]) => x.todo[i].order # k
  BY DEF Countersigning
<1>3. p \in Purchase /\ flows \in FlowTable /\ flows' \in FlowTable /\ x \in Request
  BY AfterTypes
<1>4. CASE n = 1
  <2>1. Sets(w, p.status)
    BY <1>1, <1>2, <1>4
  <2>2. p.status # Keep
    BY <1>2 DEF OpenStatuses, Keep
  <2>3. /\ GoesOn(r) /\ flows' = flows
        /\ q.status = p.status /\ q.currentStep = p.currentStep
        /\ q.operationType = p.operationType /\ q.amount = p.amount
    BY <2>1, <2>2, UpdateEffects DEF Sets, SetsStatus, Patch
  <2>4. Backed(q, flows')
    BY <1>2, <2>3 DEF Backed, NothingAhead, AtFlow, RightRoles, RolesNeeded,
       Newest, SomebodyLeft, Asked
  <2>5. QED
    BY <1>1, <1>4, <2>3, <2>4, IdleVouched
<1>5. CASE n >= 2
  <2>1. Signs(w, p) \/ Advances(w)
    <3>1. 1 \in 1..(n - 1)
      BY <1>1, <1>5
    <3>2. QED
      BY <1>1, <1>2, <3>1
  <2>2. PICK k \in Undecided(flows[s]) :
            \A i \in 1..(n - 1) : Marks(x.todo[i]) => x.todo[i].order # k
    BY <1>2
  <2>3. k \in Nat /\ k # 0
    BY DEF Undecided
  <2>4. q = p
    BY <2>1, ChainEffects DEF Signs, Advances, OnItems
  <2>5. \/ Over(r) /\ flows' = flows
        \/ \E j : j # k /\ Advanced(flows, flows', w.step, j)
    <3>1. CASE Signs(w, p)
      <4>1. w.order # k
        <5>1. 1 \in 1..(n - 1)
          BY <1>1, <1>5
        <5>2. QED
          BY <1>1, <2>2, <3>1, <5>1 DEF Signs, Marks
      <4>2. QED
        BY <3>1, <4>1, ChainEffects DEF Signs, Marks
    <3>2. CASE Advances(w)
      BY <2>3, <3>2, ChainEffects
    <3>3. QED
      BY <2>1, <3>1, <3>2
  <2>6. CASE Over(r) /\ flows' = flows
    BY <1>1, <1>2, <2>4, <2>6, IdleVouched
  <2>7. CASE \E j : j # k /\ Advanced(flows, flows', w.step, j)
    <3>1. PICK j : j # k /\ Advanced(flows, flows', w.step, j)
      BY <2>7
    <3>2. Backed(p, flows') /\ AtFlow(p, flows') /\ k \in Undecided(flows'[s])
      <4>1. s \in FlowSteps
        BY <1>2 DEF AtFlow
      <4> DEFINE g == flows'
                 t == w.step
      <4>2. g \in FlowTable /\ Advanced(flows, g, t, j)
        BY <1>3, <3>1
      <4> HIDE DEF g, t, p
      <4>3. Backed(p, g)
        BY <1>2, <1>3, <3>1, <4>2, AdvancedBacked
      <4>4. AtFlow(p, g) /\ k \in Undecided(g[s])
        BY <1>2, <1>3, <3>1, <4>1, <4>2, AdvancedKeeps
      <4>5. QED
        BY <4>3, <4>4 DEF g
    <3>3. CASE y = Idle
      BY <2>4, <3>2, <3>3, IdleVouched
    <3>4. CASE Goes(x, y)
      <4> DEFINE m == Len(y.todo)
      <4>1. /\ m >= 1 /\ y.todo[m] = x.todo[n]
            /\ \A i \in 1..(m - 1) :
                    y.todo[i] = x.todo[i + 1] /\ i + 1 \in 1..(n - 1)
        BY <1>3, <1>5, <3>4, RestOfList
      <4> HIDE DEF m, n, y, x, p
      <4>2. /\ \A i \in 1..(m - 1) : Signs(y.todo[i], p) \/ Advances(y.todo[i])
            /\ \A i \in 1..(m - 1) : Marks(y.todo[i]) => y.todo[i].order # k
        BY <1>2, <2>2, <4>1
      <4>3. Sets(y.todo[m], p.status)
        BY <1>2, <4>1
      <4>4. Countersigning(y, p, flows')
        BY <1>2, <3>2, <4>1, <4>2, <4>3 DEF Countersigning, m
      <4>5. QED
        BY <2>4, <4>4 DEF Vouched, p, y
    <3>5. QED
      BY <1>1, <3>3, <3>4
  <2>8. QED
    BY <2>5, <2>6, <2>7
<1> HIDE DEF x, y, n, w, p, q
<1>6. n = 1 \/ n >= 2
  BY <1>1
<1>7. QED
  BY <1>4, <1>5, <1>6 DEF p, q, y

\* A workflow of the right roles that waits for nobody.
LEMMA SignedByAll ==
    ASSUME NEW p, NEW f \in FlowTable, p.currentStep \in FlowSteps, RightRoles(p, f),
           Undecided(f[p.currentStep]) = {}
    PROVE  ApprovedBy(f[p.currentStep], RolesNeeded(p))
<1> DEFINE chain == f[p.currentStep].validators
           roles == RolesNeeded(p)
<1>1. chain \in Seq(Validator)
  BY DEF FlowTable, Workflow
<1>2. \A i \in 1..Len(chain) : chain[i] \in Validator /\ chain[i].decision # "none"
  BY <1>1, ElementOfSeq DEF Undecided
<1>3. /\ Len(chain) = Len(roles)
      /\ \A i \in 1..Len(roles) : /\ chain[i].role = roles[i]
                                  /\ chain[i].decision \in {"none", "VALIDATED"}
  BY DEF RightRoles
<1> HIDE DEF chain, roles
<1>4. \A i \in 1..Len(roles) :
            chain[i] = [role |-> roles[i], decision |-> "VALIDATED"]
  BY <1>2, <1>3 DEF Validator
<1>5. QED
  BY <1>3, <1>4 DEF ApprovedBy, chain, roles

\* The last validation of a step.
LEMMA LastSigningContinues ==
    ASSUME TypeOK, StepsOrdered, MovesOnlyWhenSigned,
           NEW r \in Requests, Continue(r), purchase'.exists,
           LastSigning(req[r], purchase, flows)
    PROVE  /\ Vouched(req'[r], purchase', flows')
           /\ \/ purchase'.currentStep = purchase.currentStep
              \/ ApprovedBy(flows[purchase.currentStep], RolesNeeded(purchase))
<1> DEFINE x == req[r]
           y == req'[r]
           n == Len(x.todo)
           w == Head(x.todo)
           p == purchase
           q == purchase'
           s == p.currentStep
           Own(v) == /\ v.step = s
                     /\ v.id = flows[s].id
<1>1. /\ n \in Nat /\ n >= 1 /\ w = x.todo[1]
      /\ GoesOn(r) /\ n >= 2 => Goes(x, y)
      /\ GoesOn(r) /\ n = 1 => y = Idle
  BY LeftAfter
<1>2. /\ NothingAhead(p, flows)
      /\ AtFlow(p, flows) /\ RightRoles(p, flows)
      /\ p.status \in OpenStatuses
      /\ x.op = "validate"
      /\ x.seen.step = s /\ x.seen.id = flows[s].id
      /\ Enters(x.todo[n])
      /\ \A i \in 1..(n - 1) :
            \/ (Signs(x.todo[i], p) \/ Advances(x.todo[i])) /\ Own(x.todo[i])
            \/ Sets(x.todo[i], "PUBLISHED")
  BY DEF LastSigning
<1>3. p \in Purchase /\ q \in Purchase /\ flows \in FlowTable /\ flows' \in FlowTable /\ x \in Request
  BY AfterTypes
<1>4. s \in FlowSteps /\ flows[s].id # 0
  BY <1>2 DEF AtFlow, Has
<1>5. CASE n = 1
  <2>1. Enters(w) /\ MovesStep(w) /\ w.do = "update"
    BY <1>1, <1>2, <1>5 DEF Enters, MovesStep
  <2>2. StepNumber[w.step] = StepNumber[s] + 1
    <3>1. OrderedRequest(x, s)
      BY DEF StepsOrdered
    <3>2. 1 \in 1..n
      BY <1>1
    <3>3. QED
      BY <1>1, <2>1, <3>1, <3>2 DEF OrderedRequest
  <2>3. /\ y = Idle /\ flows' = flows
        /\ q.currentStep = w.step /\ q.status = w.status
    BY <1>1, <1>5, <2>1, UpdateEffects DEF Enters, MovesStep, Patch, Keep
  <2>4. Backed(q, flows)
    BY <1>2, <1>3, <2>1, <2>2, <2>3, EntersBacked
  <2>5. Undecided(flows[s]) = {}
    <3>1. \A i \in 1..n : i = 1
      BY <1>5
    <3>2. Pending(r, "mark") = {}
      BY <1>1, <2>1, <3>1 DEF Pending
    <3>3. Moves(r)
      <4>1. 1 \in Pending(r, "update")
        BY <1>1, <2>1 DEF Pending
      <4>2. QED
        BY <1>1, <2>1, <4>1 DEF Moves, MovesStep
    <3>4. Stands(x.seen.step, x.seen.id)
      BY <1>2, <1>4 DEF Stands
    <3>5. QED
      BY <1>2, <3>2, <3>3, <3>4 DEF MovesOnlyWhenSigned
  <2>6. ApprovedBy(flows[s], RolesNeeded(p))
    BY <1>2, <1>3, <1>4, <2>5, SignedByAll
  <2>7. QED
    BY <2>3, <2>4, <2>6, IdleVouched
<1>6. CASE n >= 2
  <2>1. \/ (Signs(w, p) \/ Advances(w)) /\ Own(w)
        \/ Sets(w, "PUBLISHED")
    <3>1. 1 \in 1..(n - 1)
      BY <1>1, <1>6
    <3>2. QED
      BY <1>1, <1>2, <3>1
  <2>2. ASSUME Goes(x, y), q.currentStep = s, q.status \in OpenStatuses,
               NothingAhead(q, flows'), AtFlow(q, flows'), RightRoles(q, flows'),
               flows'[s].id = flows[s].id
        PROVE  Vouched(y, q, flows')
    <3> DEFINE m == Len(y.todo)
    <3>1. /\ m >= 1 /\ y.todo[m] = x.todo[n]
          /\ \A i \in 1..(m - 1) :
                  y.todo[i] = x.todo[i + 1] /\ i + 1 \in 1..(n - 1)
          /\ y.op = x.op /\ y.seen = x.seen
      BY <1>3, <1>6, <2>2, RestOfList
    <3>2. \A v : Signs(v, p) => Signs(v, q)
      BY <2>2 DEF Signs
    <3>3. \A i \in 1..(m - 1) :
            \/ /\ Signs(y.todo[i], q) \/ Advances(y.todo[i])
               /\ y.todo[i].step = s /\ y.todo[i].id = flows[s].id
            \/ Sets(y.todo[i], "PUBLISHED")
      <4> HIDE DEF m, n, y, x, p, q, s
      <4>1. QED
        BY <1>2, <3>1, <3>2
    <3> HIDE DEF m, n, y, x, p, q, s
    <3>4. LastSigning(y, q, flows')
      BY <1>2, <2>2, <3>1, <3>3 DEF LastSigning, m
    <3>5. QED
      BY <3>4 DEF Vouched
  <2>3. CASE (Signs(w, p) \/ Advances(w)) /\ Own(w)
    <3>1. Marks(w) \/ Advances(w)
      BY <2>3 DEF Signs, Marks
    <3>2. Goes(x, y)
      <4>1. Stands(w.step, w.id)
        BY <1>4, <2>3 DEF Stands
      <4>2. GoesOn(r) \/ HasLess(r)
        BY <3>1, <4>1, ChainEffects
      <4>3. QED
        BY <1>1, <1>6, <4>2, HasLessGoes
    <3>3. q = p
      BY <3>1, ChainEffects DEF Marks, Advances, OnItems
    <3>4. flows' = flows \/ \E j : Advanced(flows, flows', w.step, j)
      BY <2>3, <3>1, ChainEffects DEF Signs, Marks
    <3>5. /\ NothingAhead(p, flows') /\ AtFlow(p, flows') /\ RightRoles(p, flows')
          /\ flows'[s].id = flows[s].id
      <4>1. CASE flows' = flows
        BY <1>2, <4>1
      <4>2. CASE \E j : Advanced(flows, flows', w.step, j)
        <5>1. PICK j : Advanced(flows, flows', w.step, j)
          BY <4>2
        <5> DEFINE g == flows'
                   t == w.step
        <5>2. g \in FlowTable /\ Advanced(flows, g, t, j)
          BY <1>3, <5>1
        <5> HIDE DEF g, t, p
        <5>3. NothingAhead(p, g) /\ AtFlow(p, g) /\ RightRoles(p, g)
              /\ g[s].id = flows[s].id
          BY <1>2, <1>3, <1>4, <5>2, AdvancedKeeps
        <5>4. QED
          BY <5>3 DEF g
      <4>3. QED
        BY <3>4, <4>1, <4>2
    <3>6. QED
      BY <1>2, <2>2, <3>2, <3>3, <3>5
  <2>4. CASE Sets(w, "PUBLISHED")
    <3>1. /\ GoesOn(r) /\ flows' = flows
          /\ q.status = "PUBLISHED" /\ q.currentStep = p.currentStep
          /\ q.operationType = p.operationType /\ q.amount = p.amount
      BY <2>4, UpdateEffects DEF Sets, SetsStatus, Patch, Keep
    <3>2. NothingAhead(q, flows') /\ AtFlow(q, flows') /\ RightRoles(q, flows')
      BY <1>2, <3>1 DEF NothingAhead, AtFlow, RightRoles, RolesNeeded
    <3>3. Goes(x, y)
      BY <1>1, <1>6, <3>1
    <3>4. q.status \in OpenStatuses
      BY <3>1 DEF OpenStatuses
    <3>5. QED
      BY <2>2, <3>1, <3>2, <3>3, <3>4
  <2>5. QED
    BY <2>1, <2>3, <2>4
<1> HIDE DEF x, y, n, w, p, q, s
<1>7. n = 1 \/ n >= 2
  BY <1>1
<1>8. QED
  BY <1>5, <1>6, <1>7 DEF p, q, y, s

\* A refusal marks the validator, then the purchase.
LEMMA TurningDownContinues ==
    ASSUME TypeOK, NEW r \in Requests, Continue(r), purchase'.exists,
           TurningDown(req[r], purchase, flows)
    PROVE  /\ Vouched(req'[r], purchase', flows')
           /\ purchase'.currentStep = purchase.currentStep
<1> DEFINE x == req[r]
           y == req'[r]
           n == Len(x.todo)
           w == Head(x.todo)
           p == purchase
           q == purchase'
<1>1. /\ n \in Nat /\ n >= 1 /\ w = x.todo[1]
      /\ GoesOn(r) /\ n >= 2 => Goes(x, y)
      /\ GoesOn(r) /\ n = 1 => y = Idle
      /\ Over(r) => y = Idle
  BY LeftAfter
<1>2. /\ NothingAhead(p, flows)
      /\ n \in 1..2
      /\ Refuses(x.todo[n])
      /\ n = 2 => Backed(p, flows) /\ Marks(x.todo[1])
  BY DEF TurningDown
<1>3. x \in Request
  BY AfterTypes
<1>4. CASE n = 1
  <2>1. Refuses(w)
    BY <1>1, <1>2, <1>4
  <2>2. w.status # Keep
    BY <2>1 DEF Refuses, Refusals, Keep
  <2>3. /\ GoesOn(r) /\ flows' = flows
        /\ q.currentStep = p.currentStep /\ q.status \in Refusals
    BY <2>1, <2>2, UpdateEffects DEF Refuses, Patch
  <2>4. NothingAhead(q, flows')
    BY <1>2, <2>3 DEF NothingAhead
  <2>5. Backed(q, flows')
    BY <2>3, <2>4 DEF Backed, OffDesk, Refusals
  <2>6. QED
    BY <1>1, <1>4, <2>3, <2>5, IdleVouched
<1>5. CASE n = 2
  <2>1. Marks(w) /\ Backed(p, flows)
    BY <1>1, <1>2, <1>5
  <2>2. /\ q = p /\ SameFlows(flows, flows')
        /\ (Over(r) /\ flows' = flows) \/ GoesOn(r)
    BY <2>1, WriteEffects, ChainEffects DEF Marks, OnItems
  <2>3. CASE Over(r) /\ flows' = flows
    BY <1>1, <2>1, <2>2, <2>3, IdleVouched
  <2>4. CASE GoesOn(r)
    <3> DEFINE m == Len(y.todo)
    <3>1. n >= 2
      BY <1>5
    <3>2. Goes(x, y)
      BY <1>1, <2>4, <3>1
    <3>3. m = n - 1 /\ y.todo[m] = x.todo[n]
      BY <1>3, <3>1, <3>2, RestOfList
    <3> HIDE DEF m, n
    <3>4. m = 1 /\ m \in 1..2 /\ m # 2
      BY <1>5, <3>3
    <3>5. NothingAhead(p, flows')
      BY <1>2, <2>2 DEF SameFlows, NothingAhead, Has
    <3>6. TurningDown(y, p, flows')
      BY <1>2, <3>3, <3>4, <3>5 DEF TurningDown, m
    <3>7. QED
      BY <2>2, <3>6 DEF Vouched
  <2>5. QED
    BY <2>2, <2>3, <2>4
<1> HIDE DEF x, y, n, w, p, q
<1>6. n = 1 \/ n = 2
  BY <1>2
<1>7. QED
  BY <1>4, <1>5, <1>6 DEF p, q, y

-----------------------------------------------------------------------------
(* One more write of a request that is vouched for.                        *)

LEMMA ContinueVouched ==
    ASSUME OneRequest, TypeOK, StepsOrdered, TurnsStayGood, MovesOnlyWhenSigned,
           AllVouched, NEW r \in Requests, Continue(r)
    PROVE  /\ AllVouched'
           /\ \/ purchase'.currentStep = purchase.currentStep
              \/ purchase.currentStep \notin FlowSteps
              \/ ApprovedBy(flows[purchase.currentStep], RolesNeeded(purchase))
<1> DEFINE x == req[r]
<1>1. CASE ~purchase'.exists
  <2>1. AllVouched'
    BY <1>1 DEF AllVouched
  <2>2. purchase'.currentStep = purchase.currentStep
    <3>1. CASE Head(x.todo).do = "update"
      BY <1>1, <3>1, WriteEffects
    <3>2. CASE Head(x.todo).do = "deletePurchase"
      BY <1>1, <3>2, WriteEffects
    <3>3. CASE Head(x.todo).do \notin {"update", "deletePurchase"}
      BY <3>3, WriteEffects DEF SameStanding
    <3>4. QED
      BY <3>1, <3>2, <3>3
  <2>3. QED
    BY <2>1, <2>2
<1>2. CASE purchase'.exists
  <2>1. purchase.exists /\ x.todo # << >>
    BY <1>2, ChainEffects, WriteEffects
  <2>2. Vouched(x, purchase, flows)
    BY <2>1 DEF AllVouched
  <2>3. req' = [req EXCEPT ![r] = req'[r]]
    BY LeftAfter
  <2>4. /\ Vouched(req'[r], purchase', flows')
        /\ \/ purchase'.currentStep = purchase.currentStep
           \/ purchase.currentStep \notin FlowSteps
           \/ ApprovedBy(flows[purchase.currentStep], RolesNeeded(purchase))
    <3>1. CASE Resting(x, purchase, flows)
      BY <2>1, <3>1 DEF Resting
    <3>2. CASE Minding(x, purchase, flows)
      BY <1>2, <3>2, MindingContinues
    <3>3. CASE Asking(x, purchase, flows)
      BY <1>2, <3>3, AskingContinues
    <3>4. CASE Announcing(x, purchase, flows)
      BY <1>2, <3>4, AnnouncingContinues
    <3>5. CASE Reworking(x, purchase, flows)
      BY <1>2, <3>5, ReworkingContinues
    <3>6. CASE Countersigning(x, purchase, flows)
      BY <1>2, <3>6, CountersigningContinues
    <3>7. CASE LastSigning(x, purchase, flows)
      BY <1>2, <3>7, LastSigningContinues
    <3>8. CASE TurningDown(x, purchase, flows)
      BY <1>2, <3>8, TurningDownContinues
    <3>9. QED
      BY <2>2, <3>1, <3>2, <3>3, <3>4, <3>5, <3>6, <3>7, <3>8 DEF Vouched
  <2> DEFINE y == req'[r]
  <2>5. Vouched(y, purchase', flows') /\ req' = [req EXCEPT ![r] = y]
    BY <2>3, <2>4
  <2> HIDE DEF y
  <2>6. AllVouched'
    BY <2>5, OnlyOneVouched
  <2>7. QED
    BY <2>4, <2>6
<1>3. QED
  BY <1>1, <1>2

\* At rest a vouched purchase is backed.
LEMMA AtRestBacked ==
    ASSUME NEW x, NEW p, NEW f, Vouched(x, p, f), x.todo = << >>
    PROVE  /\ Backed(p, f)
           /\ x.op \in ApprovalOps => Resting(x, p, f)
<1>1. Len(x.todo) = 0
  BY EmptySeq
<1>2. Resting(x, p, f) \/ Minding(x, p, f)
  BY <1>1 DEF Vouched, Asking, Announcing, Reworking, Countersigning, LastSigning, TurningDown
<1>3. QED
  BY <1>2 DEF Resting, Minding

\* A free request starts on a purchase that is backed.
LEMMA StartsBacked ==
    ASSUME AllVouched, NEW r \in Requests, req[r] = Idle, purchase.exists
    PROVE  Backed(purchase, flows)
<1>1. Vouched(req[r], purchase, flows) /\ req[r].todo = << >>
  BY DEF AllVouched, Idle
<1>2. QED
  BY <1>1, AtRestBacked

\* A list that is vouched for starts a request that is.
LEMMA RunsVouched ==
    ASSUME OneRequest, TypeOK, NEW r \in Requests, NEW op, NEW w, Runs(r, op, w),
           \A y : y.op = op /\ y.todo = w => Vouched(y, purchase, flows)
    PROVE  AllVouched'
<1> DEFINE y == Planned(op, w)
<1>1. y.op = op /\ y.todo = w
  BY DEF Planned, Idle
<1>2. /\ req' = [req EXCEPT ![r] = y]
      /\ purchase' = purchase /\ flows' = flows
  BY DEF Runs
<1> HIDE DEF y
<1>3. Vouched(y, purchase', flows')
  BY <1>1, <1>2
<1>4. QED
  BY <1>2, <1>3, OnlyOneVouched

LEMMA RunsMinding ==
    ASSUME OneRequest, TypeOK, NEW r \in Requests,
           NEW op \in Endpoints \ ApprovalOps, NEW w, Runs(r, op, w),
           Backed(purchase, flows), \A i \in 1..Len(w) : Harmless(w[i], purchase)
    PROVE  AllVouched'
<1>1. \A y : y.op = op /\ y.todo = w => Minding(y, purchase, flows)
  BY DEF Minding
<1>2. \A y : y.op = op /\ y.todo = w => Vouched(y, purchase, flows)
  BY <1>1 DEF Vouched
<1>3. QED
  BY <1>2, RunsVouched

-----------------------------------------------------------------------------
(* The creator's requests.                                                 *)

\* The publication's list opens the workflow of DA for the roles of the
\* present step.
LEMMA PublicationOpens ==
    ASSUME purchase.currentStep \in FlowSteps
    PROVE  LET w == PublicationWrites
               n == Len(w)
           IN  /\ n = IF purchase.status = "CHANGE_REQUESTED" THEN 4 ELSE 2
               /\ Sets(w[n], "PUBLISHED")
               /\ OpensChain(w[n - 1], "DA", purchase, TRUE)
               /\ n = 4 => /\ Reopens(w[2]) /\ w[2].operationType = Keep
                           /\ DropsFlows(w[1])
<1> DEFINE create == CreateFlow("DA", RolesNeeded(purchase), TRUE)
           status == SetStatus("PUBLISHED")
           drop == DeleteFlows(FlowSteps)
           reopen == Update(Keep, Keep, "clear", Keep)
<1>1. purchase.currentStep \in ConfiguredSteps
  BY DEF FlowSteps, ConfiguredSteps
<1>2. /\ Sets(status, "PUBLISHED") /\ OpensChain(create, "DA", purchase, TRUE)
      /\ Reopens(reopen) /\ reopen.operationType = Keep /\ DropsFlows(drop)
  BY DEF Sets, SetsStatus, SetStatus, Update, OpensChain, CreateFlow, Reopens,
         DropsFlows, DeleteFlows, Keep
<1>3. PublicationWrites =
        (IF purchase.status = "CHANGE_REQUESTED" THEN << drop, reopen >> ELSE << >>)
            \o << create, status >>
  BY <1>1 DEF PublicationWrites, RolesNeeded
<1> HIDE DEF create, status, drop, reopen
<1>4. /\ << drop, reopen >> \o << create, status >> = << drop, reopen, create, status >>
      /\ << >> \o << create, status >> = << create, status >>
  BY JoinedLists
<1>5. CASE purchase.status = "CHANGE_REQUESTED"
  <2> DEFINE w == << drop, reopen, create, status >>
  <2>1. PublicationWrites = w
    BY <1>3, <1>4, <1>5
  <2>2. Len(w) = 4 /\ w[1] = drop /\ w[2] = reopen /\ w[3] = create /\ w[4] = status
    OBVIOUS
  <2> HIDE DEF w
  <2>3. /\ Sets(w[4], "PUBLISHED") /\ OpensChain(w[3], "DA", purchase, TRUE)
        /\ Reopens(w[2]) /\ w[2].operationType = Keep /\ DropsFlows(w[1])
    BY <1>2, <2>2
  <2> DEFINE n == Len(w)
  <2>4. n = 4 /\ n - 1 = 3
    BY <2>2
  <2> HIDE DEF n
  <2>5. /\ n = IF purchase.status = "CHANGE_REQUESTED" THEN 4 ELSE 2
        /\ Sets(w[n], "PUBLISHED")
        /\ OpensChain(w[n - 1], "DA", purchase, TRUE)
        /\ n = 4 => /\ Reopens(w[2]) /\ w[2].operationType = Keep
                    /\ DropsFlows(w[1])
    BY <1>5, <2>3, <2>4
  <2>6. QED
    BY <2>1, <2>5 DEF n
<1>6. CASE purchase.status # "CHANGE_REQUESTED"
  <2> DEFINE w == << create, status >>
  <2>1. PublicationWrites = w
    BY <1>3, <1>4, <1>6
  <2>2. Len(w) = 2 /\ w[1] = create /\ w[2] = status
    OBVIOUS
  <2> HIDE DEF w
  <2>3. Sets(w[2], "PUBLISHED") /\ OpensChain(w[1], "DA", purchase, TRUE)
    BY <1>2, <2>2
  <2> DEFINE n == Len(w)
  <2>4. n = 2 /\ n - 1 = 1 /\ ~(n = 4)
    BY <2>2
  <2> HIDE DEF n
  <2>5. /\ n = IF purchase.status = "CHANGE_REQUESTED" THEN 4 ELSE 2
        /\ Sets(w[n], "PUBLISHED")
        /\ OpensChain(w[n - 1], "DA", purchase, TRUE)
        /\ n = 4 => /\ Reopens(w[2]) /\ w[2].operationType = Keep
                    /\ DropsFlows(w[1])
    BY <1>6, <2>3, <2>4
  <2>6. QED
    BY <2>1, <2>5 DEF n
<1>7. QED
  BY <1>5, <1>6

LEMMA AuthoringVouched ==
    ASSUME OneRequest, TypeOK, AllOrderly, AllVouched,
           NEW r \in Requests, AuthoringNext(r)
    PROVE  AllVouched'
<1>1. req[r] = Idle /\ purchase.exists
  BY DEF AuthoringNext, AddPurchaseItems, UpdatePurchaseFields,
     PublishPurchaseForValidation, UpdateAndRepublishPurchase,
     DeleteDraftPurchase, StartsFlow, Starts
<1>2. Settled(purchase, flows) /\ Backed(purchase, flows)
  BY <1>1, IdleSettled, StartsBacked
<1>3. {"addPurchaseItems", "updatePurchase", "publish", "updateAndRepublish",
       "deleteDraft"} \subseteq Endpoints \ ApprovalOps
  BY DEF Endpoints, ApprovalOps
<1>4. CASE AddPurchaseItems(r)
  <2>1. PICK amount \in ItemLists : Runs(r, "addPurchaseItems", ReplaceItems(amount))
    BY <1>4 DEF AddPurchaseItems
  <2>2. purchase.status \in {"DRAFT", "CHANGE_REQUESTED"}
    BY <1>4 DEF AddPurchaseItems, Editable
  <2> DEFINE w == ReplaceItems(amount)
  <2>3. \A i \in 1..Len(w) : OnItems(w[i])
    BY ItemsLists
  <2>4. Runs(r, "addPurchaseItems", w)
    BY <2>1
  <2> HIDE DEF w
  <2>5. \A i \in 1..Len(w) : Harmless(w[i], purchase)
    BY <2>2, <2>3 DEF Harmless
  <2>6. QED
    BY <1>2, <1>3, <2>4, <2>5, RunsMinding
<1>5. CASE UpdatePurchaseFields(r)
  <2>1. PICK op \in OperationTypes :
            Runs(r, "updatePurchase", << Update(Keep, Keep, Keep, op) >>)
    BY <1>5 DEF UpdatePurchaseFields
  <2>2. purchase.status \in {"DRAFT", "CHANGE_REQUESTED"}
    BY <1>5 DEF UpdatePurchaseFields, Editable
  <2> DEFINE v == Update(Keep, Keep, Keep, op)
             w == << v >>
  <2>3. OnFields(v)
    BY DEF OnFields, Update
  <2>4. Runs(r, "updatePurchase", w)
    BY <2>1
  <2> HIDE DEF v
  <2>5. \A i \in 1..Len(w) : OnFields(w[i])
    BY <2>3
  <2> HIDE DEF w
  <2>6. \A i \in 1..Len(w) : Harmless(w[i], purchase)
    BY <2>2, <2>5 DEF Harmless
  <2>7. QED
    BY <1>2, <1>3, <2>4, <2>6, RunsMinding
<1>6. CASE PublishPurchaseForValidation(r)
  <2> DEFINE w == PublicationWrites
             n == Len(w)
  <2>1. Runs(r, "publish", w) /\ purchase.status \in {"DRAFT", "CHANGE_REQUESTED"}
    BY <1>6 DEF PublishPurchaseForValidation, Editable
  <2>2. purchase.currentStep \in FlowSteps
    BY <1>2, <2>1 DEF Settled, Refusals
  <2>3. /\ n = IF purchase.status = "CHANGE_REQUESTED" THEN 4 ELSE 2
        /\ Sets(w[n], "PUBLISHED")
        /\ OpensChain(w[n - 1], "DA", purchase, TRUE)
        /\ n = 4 => /\ Reopens(w[2]) /\ w[2].operationType = Keep
                    /\ DropsFlows(w[1])
    BY <2>2, PublicationOpens
  <2>4. n = 2 => NoChain(flows)
    BY <1>2, <2>1, <2>3 DEF Backed
  <2>5. NothingAhead(purchase, flows)
    BY <1>2 DEF Backed
  <2> HIDE DEF w, n
  <2>6. ASSUME NEW y, y.op = "publish", y.todo = w
        PROVE  Announcing(y, purchase, flows)
    <3>1. n = 2 \/ n = 4
      BY <2>3
    <3>2. CASE n = 2
      <4>1. /\ n \in 1..4 /\ n \notin 3..3 /\ ~(n >= 3) /\ n # 4 /\ n # 1
        BY <3>2
      <4>2. QED
        BY <2>1, <2>2, <2>3, <2>4, <2>5, <2>6, <3>2, <4>1 DEF Announcing, n
    <3>3. CASE n = 4
      <4>1. /\ n \in 1..4 /\ n \notin 2..3 /\ n # 1 /\ n - 2 = 2
        BY <3>3
      <4>2. QED
        BY <2>1, <2>2, <2>3, <2>5, <2>6, <3>3, <4>1 DEF Announcing, n
    <3>4. QED
      BY <3>1, <3>2, <3>3
  <2>7. \A y : y.op = "publish" /\ y.todo = w => Vouched(y, purchase, flows)
    BY <2>6 DEF Vouched
  <2>8. QED
    BY <2>1, <2>7, RunsVouched
<1>7. CASE UpdateAndRepublishPurchase(r)
  <2>1. PICK op \in OperationTypes,
             items \in { << >> } \cup { ReplaceItems(a) : a \in ItemLists } :
            Runs(r, "updateAndRepublish", RevisionWrites(op, items))
    BY <1>7 DEF UpdateAndRepublishPurchase
  <2> DEFINE w == RevisionWrites(op, items)
             n == Len(w)
  <2>2. /\ n \in {2, 4} /\ ToDraft(w[1]) /\ DropsFlows(w[n])
        /\ \A i \in 2..(n - 1) : OnItems(w[i])
    BY RevisionLists
  <2>3. Runs(r, "updateAndRepublish", w)
    BY <2>1
  <2>4. purchase.status = "CHANGE_REQUESTED" /\ NothingAhead(purchase, flows)
    BY <1>2, <1>7 DEF Backed, UpdateAndRepublishPurchase
  <2> HIDE DEF w
  <2>5. /\ n >= 1
        /\ \A i \in 1..(n - 1) : i = 1 \/ i \in 2..(n - 1)
    <3> HIDE DEF n
    <3>1. QED
      BY <2>2
  <2>6. \A i \in 1..(n - 1) : ToDraft(w[i]) \/ OnItems(w[i])
    BY <2>2, <2>5
  <2>7. \A y : y.op = "updateAndRepublish" /\ y.todo = w => Reworking(y, purchase, flows)
    BY <2>2, <2>4, <2>5, <2>6 DEF Reworking
  <2>8. \A y : y.op = "updateAndRepublish" /\ y.todo = w => Vouched(y, purchase, flows)
    BY <2>7 DEF Vouched
  <2>9. QED
    BY <2>3, <2>8, RunsVouched
<1>8. CASE DeleteDraftPurchase(r)
  <2> DEFINE w == << DeletePurchase >>
  <2>1. Runs(r, "deleteDraft", w)
    BY <1>8 DEF DeleteDraftPurchase
  <2>2. \A i \in 1..Len(w) : w[i].do = "deletePurchase"
    BY DEF DeletePurchase
  <2> HIDE DEF w
  <2>3. \A i \in 1..Len(w) : Harmless(w[i], purchase)
    BY <2>2 DEF Harmless
  <2>4. QED
    BY <1>2, <1>3, <2>1, <2>3, RunsMinding
<1>9. QED
  BY <1>4, <1>5, <1>6, <1>7, <1>8 DEF AuthoringNext

-----------------------------------------------------------------------------
(* The buyer's requests.                                                   *)

\* The request goes on to ask the validators of the present step.
LEMMA RunsAsking ==
    ASSUME OneRequest, TypeOK, NEW r \in Requests, NEW op, NEW w, NEW n \in Nat,
           Runs(r, op, w), Len(w) = n, n >= 2,
           Backed(purchase, flows), purchase.currentStep \in FlowSteps \ {"DA"},
           \E status \in {"PENDING_APPROVAL", "IN_DEROGATION"} : Sets(w[n], status),
           OpensChain(w[n - 1], purchase.currentStep, purchase, FALSE),
           \A i \in 1..(n - 2) :
                \/ OnPapers(w[i])
                \/ /\ w[i].do = "deleteFlows"
                   /\ purchase.status \in {"PUBLISHED", "AWAITING_DOCUMENTS"}
    PROVE  AllVouched'
<1>1. NothingAhead(purchase, flows)
  BY DEF Backed
<1>2. n >= 1 /\ n # 1
  OBVIOUS
<1>3. \A y : y.op = op /\ y.todo = w => Asking(y, purchase, flows)
  BY <1>1, <1>2 DEF Asking
<1>4. \A y : y.op = op /\ y.todo = w => Vouched(y, purchase, flows)
  BY <1>3 DEF Vouched
<1>5. QED
  BY <1>4, RunsVouched

\* Nor do the papers need a signature.
LEMMA RunsPapers ==
    ASSUME OneRequest, TypeOK, NEW r \in Requests,
           NEW op \in Endpoints \ ApprovalOps, NEW w, Runs(r, op, w),
           Backed(purchase, flows), \A i \in 1..Len(w) : OnPapers(w[i])
    PROVE  AllVouched'
<1>1. \A i \in 1..Len(w) : Harmless(w[i], purchase)
  BY DEF Harmless
<1>2. QED
  BY <1>1, RunsMinding

LEMMA AskingKinds ==
    /\ \A status : Sets(SetStatus(status), status)
    /\ \A step : step = purchase.currentStep
            => OpensChain(ChainFor(step), step, purchase, FALSE)
  BY DEF Sets, SetsStatus, SetStatus, Update, Keep, OpensChain, ChainFor,
         CreateFlow, RolesNeeded

LEMMA SourcingVouched ==
    ASSUME OneRequest, TypeOK, AllOrderly, AllVouched,
           Operations \cap Careless = {}, NEW r \in Requests, SourcingNext(r)
    PROVE  AllVouched'
<1>1. ~(\/ UploadQuotes(r) \/ ValidateQuotesAndProceed(r)
        \/ RequestQuoteDerogation(r) \/ ValidateDerogation(r))
  BY DEF UploadQuotes, ValidateQuotesAndProceed, RequestQuoteDerogation,
         ValidateDerogation, Starts, Careless
<1>2. req[r] = Idle /\ purchase.exists
  BY DEF SourcingNext, UploadQuotes, DeleteQuote,
     SubmitQuotesForValidation, ValidateQuotesAndProceed,
     RequestQuoteDerogation, ValidateDerogation, CreatePV, UpdatePV,
     StartsFlow, Starts
<1>3. Backed(purchase, flows)
  BY <1>2, StartsBacked
<1>4. {"deleteQuote", "submitQuotes", "createPV", "updatePV"}
            \subseteq Endpoints \ ApprovalOps
  BY DEF Endpoints, ApprovalOps
<1>5. CASE DeleteQuote(r)
  <2>1. PICK v : OnPapers(v) /\ Runs(r, "deleteQuote", << v >>)
    BY <1>5, PaperKinds DEF DeleteQuote, RemoveAttachmentWrites
  <2> DEFINE w == << v >>
  <2>2. \A i \in 1..Len(w) : OnPapers(w[i])
    BY <2>1, PaperList
  <2>3. Runs(r, "deleteQuote", w)
    BY <2>1
  <2> HIDE DEF w
  <2>4. QED
    BY <1>3, <1>4, <2>2, <2>3, RunsPapers
<1>6. CASE SubmitQuotesForValidation(r)
  <2> DEFINE create == ChainFor("QR")
  <2>1. PICK short \in BOOLEAN :
            Runs(r, "submitQuotes",
                (IF short THEN << CreateDerogation("VALIDATED") >> ELSE << >>)
                \o << create,
                      SetStatus(IF short THEN "IN_DEROGATION"
                                         ELSE "PENDING_APPROVAL") >>)
    BY <1>6 DEF SubmitQuotesForValidation, ChainFor
  <2> DEFINE name == IF short THEN "IN_DEROGATION" ELSE "PENDING_APPROVAL"
             status == SetStatus(name)
             derog == CreateDerogation("VALIDATED")
  <2>2. purchase.currentStep = "QR"
    BY <1>6 DEF SubmitQuotesForValidation, AtStep
  <2>3. OpensChain(create, purchase.currentStep, purchase, FALSE)
    BY <2>2, AskingKinds
  <2>4. name \in {"PENDING_APPROVAL", "IN_DEROGATION"}
    OBVIOUS
  <2> HIDE DEF name
  <2>5. Sets(status, name) /\ OnPapers(derog)
    BY AskingKinds, PaperKinds
  <2>6. Runs(r, "submitQuotes",
             (IF short THEN << derog >> ELSE << >>) \o << create, status >>)
    BY <2>1 DEF name
  <2> HIDE DEF create, status, derog
  <2>7. purchase.currentStep \in FlowSteps \ {"DA"}
    BY <2>2 DEF FlowSteps
  <2>8. CASE short
    <3> DEFINE w == << derog, create, status >>
    <3>1. Runs(r, "submitQuotes", w)
      <4>1. << derog >> \o << create, status >> = << derog, create, status >>
        BY JoinedLists
      <4>2. (IF short THEN << derog >> ELSE << >>) \o << create, status >>
            = << derog, create, status >>
        BY <2>8, <4>1
      <4>3. QED
        BY <2>6, <4>2
    <3>2. Len(w) = 3 /\ w[1] = derog /\ w[2] = create /\ w[3] = status
      OBVIOUS
    <3> HIDE DEF w
    <3>3. /\ \E s \in {"PENDING_APPROVAL", "IN_DEROGATION"} : Sets(w[3], s)
          /\ OpensChain(w[2], purchase.currentStep, purchase, FALSE)
          /\ OnPapers(w[1])
      BY <2>3, <2>4, <2>5, <3>2
    <3> DEFINE n == 3
    <3>4. /\ n \in Nat /\ n >= 2 /\ n - 1 = 2
          /\ \A i \in 1..(n - 2) : i = 1
      OBVIOUS
    <3>5. /\ Len(w) = n
          /\ \E s \in {"PENDING_APPROVAL", "IN_DEROGATION"} : Sets(w[n], s)
          /\ OpensChain(w[n - 1], purchase.currentStep, purchase, FALSE)
          /\ \A i \in 1..(n - 2) : OnPapers(w[i])
      BY <3>2, <3>3, <3>4
    <3> HIDE DEF n
    <3>6. QED
      BY <1>3, <2>7, <3>1, <3>4, <3>5, RunsAsking
  <2>9. CASE ~short
    <3> DEFINE w == << create, status >>
    <3>1. Runs(r, "submitQuotes", w)
      <4>1. << >> \o << create, status >> = << create, status >>
        BY JoinedLists
      <4>2. (IF short THEN << derog >> ELSE << >>) \o << create, status >>
            = << create, status >>
        BY <2>9, <4>1
      <4>3. QED
        BY <2>6, <4>2
    <3>2. Len(w) = 2 /\ w[1] = create /\ w[2] = status
      OBVIOUS
    <3> HIDE DEF w
    <3>3. /\ \E s \in {"PENDING_APPROVAL", "IN_DEROGATION"} : Sets(w[2], s)
          /\ OpensChain(w[1], purchase.currentStep, purchase, FALSE)
      BY <2>3, <2>4, <2>5, <3>2
    <3> DEFINE n == 2
    <3>4. /\ n \in Nat /\ n >= 2 /\ n - 1 = 1
          /\ \A i \in 1..(n - 2) : FALSE
      OBVIOUS
    <3>5. /\ Len(w) = n
          /\ \E s \in {"PENDING_APPROVAL", "IN_DEROGATION"} : Sets(w[n], s)
          /\ OpensChain(w[n - 1], purchase.currentStep, purchase, FALSE)
          /\ \A i \in 1..(n - 2) : OnPapers(w[i])
      BY <3>2, <3>3, <3>4
    <3> HIDE DEF n
    <3>6. QED
      BY <1>3, <2>7, <3>1, <3>4, <3>5, RunsAsking
  <2>10. QED
    BY <2>8, <2>9
<1>7. CASE CreatePV(r)
  <2>1. PICK v : OnPapers(v) /\ Runs(r, "createPV", << v >>)
    BY <1>7, PaperKinds DEF CreatePV
  <2> DEFINE w == << v >>
  <2>2. \A i \in 1..Len(w) : OnPapers(w[i])
    BY <2>1, PaperList
  <2>3. Runs(r, "createPV", w)
    BY <2>1
  <2> HIDE DEF w
  <2>4. QED
    BY <1>3, <1>4, <2>2, <2>3, RunsPapers
<1>8. CASE UpdatePV(r)
  <2>1. PICK suppliers \in SupplierLists :
            Runs(r, "updatePV", << SavePv("empty") >>
                 \o IF suppliers = "filled" THEN << SavePv("filled") >> ELSE << >>)
    BY <1>8 DEF UpdatePV
  <2> DEFINE a == SavePv("empty")
             b == SavePv("filled")
             w == IF suppliers = "filled" THEN << a, b >> ELSE << a >>
  <2>2. OnPapers(a) /\ OnPapers(b)
    BY PaperKinds
  <2> HIDE DEF a, b
  <2>3. Runs(r, "updatePV", w)
    <3>1. << a >> \o << b >> = << a, b >> /\ << a >> \o << >> = << a >>
      BY JoinedLists
    <3>2. Runs(r, "updatePV", << a >> \o IF suppliers = "filled" THEN << b >> ELSE << >>)
      BY <2>1 DEF a, b
    <3>3. QED
      BY <3>1, <3>2
  <2>4. \A i \in 1..Len(w) : OnPapers(w[i])
    BY <2>2, PaperList
  <2> HIDE DEF w
  <2>5. QED
    BY <1>3, <1>4, <2>3, <2>4, RunsPapers
<1>9. QED
  BY <1>1, <1>5, <1>6, <1>7, <1>8 DEF SourcingNext

-----------------------------------------------------------------------------
(* The documents.                                                          *)

LEMMA EnteringSteps ==
    ASSUME NEW step \in {"BR", "INVOICE", "PROOF_OF_PAYMENT"}
    PROVE  \E move : Enters(move) /\ EnterNext(step) = << move >>
<1> DEFINE next == NextDocumentStep[step]
           move == IF next = "DONE" THEN Update("DONE", "VALIDATED", "set", Keep)
                                    ELSE MoveTo(next, "AWAITING_DOCUMENTS")
<1>1. EnterNext(step) = << move >>
  BY DEF EnterNext
<1>2. next \in {"INVOICE", "DAP", "DONE"}
  BY DEF NextDocumentStep
<1> HIDE DEF next
<1>3. Enters(move)
  BY <1>2 DEF Enters, MovesStep, Update, MoveTo, Keep
<1>4. QED
  BY <1>1, <1>3

LEMMA AskingLists ==
    ASSUME NEW step, step = purchase.currentStep
    PROVE  LET w == AskApproval(step)
           IN  /\ w = << w[1], w[2] >>
               /\ OpensChain(w[1], step, purchase, FALSE)
               /\ Sets(w[2], "PENDING_APPROVAL")
<1> DEFINE chain == ChainFor(step)
           status == SetStatus("PENDING_APPROVAL")
<1>1. OpensChain(chain, step, purchase, FALSE) /\ Sets(status, "PENDING_APPROVAL")
  BY AskingKinds
<1>2. AskApproval(step) = << chain, status >>
  BY DEF AskApproval
<1> HIDE DEF chain, status
<1>3. << chain, status >>[1] = chain /\ << chain, status >>[2] = status
  OBVIOUS
<1>4. QED
  BY <1>1, <1>2, <1>3

LEMMA JoinOneThree ==
    ASSUME NEW a, NEW b, NEW c, NEW d
    PROVE  << a >> \o << b, c, d >> = << a, b, c, d >>
<1>1. << a >> \o << b, c, d >> = << a >> \o (<< b, c >> \o << d >>)
  BY JoinedLists
<1>2. << a >> \o (<< b, c >> \o << d >>) = (<< a >> \o << b, c >>) \o << d >>
  <2>1. /\ << a >> \in Seq({a, b, c, d}) /\ << b, c >> \in Seq({a, b, c, d})
        /\ << d >> \in Seq({a, b, c, d})
    OBVIOUS
  <2>2. QED
    BY <2>1, ConcatAssociative
<1>3. << a >> \o << b, c >> = << a, b, c >> /\ << a, b, c >> \o << d >> = << a, b, c, d >>
  BY JoinedLists
<1>4. QED
  BY <1>1, <1>2, <1>3

LEMMA DocumentsVouched ==
    ASSUME OneRequest, TypeOK, AllOrderly, AllVouched,
           NEW r \in Requests, DocumentsNext(r)
    PROVE  AllVouched'
<1>1. req[r] = Idle /\ purchase.exists
  BY DEF DocumentsNext, UploadBC, UploadDocument, SubmitDocument,
     SubmitForValidation, CreateAttachment, DeleteAttachment, StartsFlow, Starts
<1>2. Backed(purchase, flows)
  BY <1>1, StartsBacked
<1>3. {"uploadBC", "uploadDocument", "submitDocument", "submitForValidation",
       "createAttachment", "deleteAttachment"} \subseteq Endpoints \ ApprovalOps
  BY DEF Endpoints, ApprovalOps
<1>4. DOMAIN DocTypeOf = {"BR", "INVOICE", "DAP", "PROOF_OF_PAYMENT"}
  BY DEF DocTypeOf
<1>5. CASE UploadBC(r)
  <2> DEFINE a == DropDocs("PURCHASE_ORDER")
             b == AddDoc("PURCHASE_ORDER")
             c == DeleteFlows({"BC"})
             d == AskApproval("BC")[1]
             e == AskApproval("BC")[2]
             w == << a, b, c, d, e >>
  <2>1. /\ purchase.currentStep = "BC"
        /\ purchase.status \in {"PUBLISHED", "AWAITING_DOCUMENTS"}
        /\ Runs(r, "uploadBC", << a, b, c >> \o AskApproval("BC"))
    BY <1>5 DEF UploadBC
  <2>2. /\ AskApproval("BC") = << d, e >>
        /\ OpensChain(d, "BC", purchase, FALSE) /\ Sets(e, "PENDING_APPROVAL")
    BY <2>1, AskingLists
  <2>3. OnPapers(a) /\ OnPapers(b) /\ c.do = "deleteFlows"
    BY PaperKinds DEF DeleteFlows
  <2> HIDE DEF a, b, c, d, e
  <2>4. Runs(r, "uploadBC", w)
    <3>1. << a, b, c >> \o << d, e >> = << a, b, c, d, e >>
      BY JoinedLists
    <3>2. QED
      BY <2>1, <2>2, <3>1
  <2>5. /\ Len(w) = 5 /\ w[1] = a /\ w[2] = b /\ w[3] = c
        /\ w[4] = d /\ w[5] = e
    OBVIOUS
  <2> HIDE DEF w
  <2> DEFINE n == 5
  <2>6. /\ n \in Nat /\ n >= 2 /\ n - 1 = 4
        /\ \A i \in 1..(n - 2) : i = 1 \/ i = 2 \/ i = 3
    OBVIOUS
  <2>7. Len(w) = n /\ w[n] = e
    BY <2>5
  <2> HIDE DEF n
  <2>8. /\ \E s \in {"PENDING_APPROVAL", "IN_DEROGATION"} : Sets(w[n], s)
        /\ OpensChain(w[n - 1], purchase.currentStep, purchase, FALSE)
        /\ \A i \in 1..(n - 2) : OnPapers(w[i]) \/ w[i].do = "deleteFlows"
    BY <2>1, <2>2, <2>3, <2>5, <2>6, <2>7
  <2>9. purchase.currentStep \in FlowSteps \ {"DA"}
    BY <2>1 DEF FlowSteps
  <2>10. QED
    BY <1>2, <2>1, <2>4, <2>6, <2>7, <2>8, <2>9, RunsAsking
<1>6. CASE UploadDocument(r)
  <2> DEFINE type == DocTypeOf[purchase.currentStep]
             a == DropDocs(type)
             b == AddDoc(type)
             c == SetStatus("AWAITING_DOCUMENTS")
             w == << a, b, c >>
  <2>1. OnPapers(a) /\ OnPapers(b) /\ Sets(c, "AWAITING_DOCUMENTS")
    BY AskingKinds, PaperKinds
  <2>2. purchase.currentStep # "DA" /\ purchase.status \notin OffDesk
    BY <1>4, <1>6 DEF UploadDocument, OffDesk, Refusals
  <2>3. Runs(r, "uploadDocument", w)
    BY <1>6 DEF UploadDocument
  <2> HIDE DEF a, b, c
  <2>4. Len(w) = 3 /\ w[1] = a /\ w[2] = b /\ w[3] = c
    OBVIOUS
  <2> HIDE DEF w
  <2>5. \A i \in 1..Len(w) : Harmless(w[i], purchase)
    BY <2>1, <2>2, <2>4 DEF Harmless
  <2>6. QED
    BY <1>2, <1>3, <2>3, <2>5, RunsMinding
<1>7. CASE SubmitDocument(r)
  <2> DEFINE step == purchase.currentStep
             a == Require(DocTypeOf[step])
  <2>1. /\ purchase.status = "AWAITING_DOCUMENTS"
        /\ step \in {"BR", "INVOICE", "DAP", "PROOF_OF_PAYMENT"}
    BY <1>4, <1>7 DEF SubmitDocument
  <2>2. OnPapers(a)
    BY PaperKinds
  <2>3. Runs(r, "submitDocument",
             << a >> \o IF step = "DAP"
                        THEN << DeleteFlows({"DAP"}) >> \o AskApproval("DAP")
                        ELSE EnterNext(step))
    BY <1>7 DEF SubmitDocument
  <2> HIDE DEF a
  <2>4. CASE step = "DAP"
    <3> DEFINE b == DeleteFlows({"DAP"})
               c == AskApproval("DAP")[1]
               d == AskApproval("DAP")[2]
               w == << a, b, c, d >>
    <3>1. /\ AskApproval("DAP") = << c, d >>
          /\ OpensChain(c, "DAP", purchase, FALSE) /\ Sets(d, "PENDING_APPROVAL")
          /\ b.do = "deleteFlows"
      BY <2>4, AskingLists DEF DeleteFlows
    <3>2. Runs(r, "submitDocument", << a >> \o (<< b >> \o AskApproval("DAP")))
      BY <2>3, <2>4
    <3> HIDE DEF b, c, d
    <3>3. Runs(r, "submitDocument", << a >> \o << b, c, d >>)
      <4>1. << b >> \o << c, d >> = << b, c, d >>
        BY JoinedLists
      <4>2. QED
        BY <3>1, <3>2, <4>1
    <3>4. << a >> \o << b, c, d >> = w
      BY JoinOneThree
    <3>5. Len(w) = 4 /\ w[1] = a /\ w[2] = b /\ w[3] = c /\ w[4] = d
      OBVIOUS
    <3> HIDE DEF w
    <3> DEFINE n == 4
    <3>6. /\ n \in Nat /\ n >= 2 /\ n - 1 = 3
          /\ \A i \in 1..(n - 2) : i = 1 \/ i = 2
      OBVIOUS
    <3>7. Len(w) = n /\ w[n] = d
      BY <3>5
    <3> HIDE DEF n
    <3>8. /\ \E s \in {"PENDING_APPROVAL", "IN_DEROGATION"} : Sets(w[n], s)
          /\ OpensChain(w[n - 1], purchase.currentStep, purchase, FALSE)
          /\ \A i \in 1..(n - 2) : OnPapers(w[i]) \/ w[i].do = "deleteFlows"
      BY <2>2, <2>4, <3>1, <3>5, <3>6, <3>7
    <3>9. purchase.currentStep \in FlowSteps \ {"DA"}
      BY <2>4 DEF FlowSteps
    <3>10. Runs(r, "submitDocument", w)
      BY <3>3, <3>4
    <3>11. QED
      BY <1>2, <2>1, <3>6, <3>7, <3>8, <3>9, <3>10, RunsAsking
  <2>5. CASE step # "DAP"
    <3>1. PICK move : Enters(move) /\ EnterNext(step) = << move >>
      BY <2>1, <2>5, EnteringSteps
    <3> DEFINE w == << a, move >>
    <3>2. << a >> \o << move >> = w
      BY JoinedLists
    <3>3. Runs(r, "submitDocument", w)
      BY <2>3, <2>5, <3>1, <3>2
    <3>4. Len(w) = 2 /\ w[1] = a /\ w[2] = move
      OBVIOUS
    <3> HIDE DEF w
    <3>5. step \notin FlowSteps
      BY <2>1, <2>5 DEF FlowSteps
    <3>6. \A i \in 1..Len(w) : Harmless(w[i], purchase)
      BY <2>2, <3>1, <3>4, <3>5 DEF Harmless
    <3>7. QED
      BY <1>2, <1>3, <3>3, <3>6, RunsMinding
  <2>6. QED
    BY <2>4, <2>5
<1>8. CASE SubmitForValidation(r)
  <2> DEFINE step == purchase.currentStep
  <2>1. PICK w \in SubmitWrites : Runs(r, "submitForValidation", w)
    BY <1>8 DEF SubmitForValidation
  <2>2. \/ step = "PV" /\ w = << Require("PV") >> \o AskApproval("PV")
        \/ step \in {"BC", "DAP"} /\ w = AskApproval(step)
        \/ step \in {"BR", "INVOICE", "PROOF_OF_PAYMENT"} /\ w = EnterNext(step)
    BY <2>1 DEF SubmitWrites
  <2>3. CASE step = "PV" /\ w = << Require("PV") >> \o AskApproval("PV")
    <3> DEFINE a == Require("PV")
               b == AskApproval("PV")[1]
               c == AskApproval("PV")[2]
    <3>1. /\ AskApproval("PV") = << b, c >>
          /\ OpensChain(b, "PV", purchase, FALSE) /\ Sets(c, "PENDING_APPROVAL")
      BY <2>3, AskingLists
    <3>2. OnPapers(a) /\ w = << a >> \o << b, c >>
      BY <2>3, <3>1, PaperKinds
    <3> HIDE DEF a, b, c
    <3>3. w = << a, b, c >>
      BY <3>2, JoinedLists
    <3>4. Len(w) = 3 /\ w[1] = a /\ w[2] = b /\ w[3] = c
      BY <3>3
    <3> DEFINE n == 3
    <3>5. /\ n \in Nat /\ n >= 2 /\ n - 1 = 2
          /\ \A i \in 1..(n - 2) : i = 1
      OBVIOUS
    <3>6. Len(w) = n /\ w[n] = c
      BY <3>4
    <3> HIDE DEF n
    <3>7. /\ \E s \in {"PENDING_APPROVAL", "IN_DEROGATION"} : Sets(w[n], s)
          /\ OpensChain(w[n - 1], purchase.currentStep, purchase, FALSE)
          /\ \A i \in 1..(n - 2) : OnPapers(w[i])
      BY <2>3, <3>1, <3>2, <3>4, <3>5, <3>6
    <3>8. purchase.currentStep \in FlowSteps \ {"DA"}
      BY <2>3 DEF FlowSteps
    <3>9. QED
      BY <1>2, <2>1, <3>5, <3>6, <3>7, <3>8, RunsAsking
  <2>4. CASE step \in {"BC", "DAP"} /\ w = AskApproval(step)
    <3>1. /\ w = << w[1], w[2] >>
          /\ OpensChain(w[1], step, purchase, FALSE) /\ Sets(w[2], "PENDING_APPROVAL")
      BY <2>4, AskingLists
    <3>2. Len(w) = 2
      BY <3>1
    <3> DEFINE n == 2
    <3>3. /\ n \in Nat /\ n >= 2 /\ n - 1 = 1
          /\ \A i \in 1..(n - 2) : FALSE
      OBVIOUS
    <3>4. Len(w) = n /\ w[n] = w[2]
      BY <3>2
    <3> HIDE DEF n
    <3>5. /\ \E s \in {"PENDING_APPROVAL", "IN_DEROGATION"} : Sets(w[n], s)
          /\ OpensChain(w[n - 1], purchase.currentStep, purchase, FALSE)
          /\ \A i \in 1..(n - 2) : OnPapers(w[i])
      BY <3>1, <3>3, <3>4
    <3>6. purchase.currentStep \in FlowSteps \ {"DA"}
      BY <2>4 DEF FlowSteps
    <3>7. QED
      BY <1>2, <2>1, <3>3, <3>4, <3>5, <3>6, RunsAsking
  <2>5. CASE step \in {"BR", "INVOICE", "PROOF_OF_PAYMENT"} /\ w = EnterNext(step)
    <3>1. PICK move : Enters(move) /\ w = << move >>
      BY <2>5, EnteringSteps
    <3>2. step \notin FlowSteps
      BY <2>5 DEF FlowSteps
    <3>3. Len(w) = 1 /\ w[1] = move
      BY <3>1
    <3>4. \A i \in 1..Len(w) : Harmless(w[i], purchase)
      BY <3>1, <3>2, <3>3 DEF Harmless
    <3>5. QED
      BY <1>2, <1>3, <2>1, <3>4, RunsMinding
  <2>6. QED
    BY <2>2, <2>3, <2>4, <2>5
<1>9. CASE CreateAttachment(r) \/ DeleteAttachment(r)
  <2>1. PICK op \in {"createAttachment", "deleteAttachment"} :
            \E v : OnPapers(v) /\ Runs(r, op, << v >>)
    BY <1>9, PaperKinds DEF CreateAttachment, DeleteAttachment
  <2> PICK v : OnPapers(v) /\ Runs(r, op, << v >>)
    BY <2>1
  <2> DEFINE w == << v >>
  <2>2. \A i \in 1..Len(w) : OnPapers(w[i])
    BY PaperList
  <2>3. Runs(r, op, w)
    OBVIOUS
  <2> HIDE DEF w
  <2>4. QED
    BY <1>2, <1>3, <2>2, <2>3, RunsPapers
<1>10. QED
  BY <1>5, <1>6, <1>7, <1>8, <1>9 DEF DocumentsNext

-----------------------------------------------------------------------------
(* The validators' requests.                                               *)

\* What a validation goes on to write: its mark and the two halves of
\* advanceWorkflow in some order, the status and, with the last signature,
\* the next step.
LEMMA ValidationInOrder ==
    ASSUME NEW turn, NEW seen, NEW w \in ValidationWrites(turn, seen)
    PROVE  LET status == SetStatus(ValidatedStatus(turn, seen))
               next == NextStepMap[seen.step]
           IN  \E a, b, c \in OwnWrites(turn, seen) :
                    w = IF SignsLast(turn, seen)
                        THEN << a, b, c, status, MoveTo(next, StatusOnEntry(next)) >>
                        ELSE << a, b, c, status >>
<1> DEFINE mark == MarkOf(turn)
           read == ReadFlow(seen.step, seen.id)
           write == AdvanceFlow(seen.step, seen.id)
           status == SetStatus(ValidatedStatus(turn, seen))
           next == NextStepMap[seen.step]
           move == MoveTo(next, StatusOnEntry(next))
<1>1. PICK p \in ParallelWrites(turn, seen) :
        w = (p \o << status >>) \o CompletionWrites(turn, seen)
  BY DEF ValidationWrites
<1>2. p \in { << mark, read, write >>, << read, mark, write >>, << read, write, mark >> }
  BY <1>1 DEF ParallelWrites, MarkOf
<1>3. OwnWrites(turn, seen) = {mark, read, write}
  BY DEF OwnWrites
<1>4. CompletionWrites(turn, seen) = IF SignsLast(turn, seen) THEN << move >> ELSE << >>
  BY DEF CompletionWrites
<1> HIDE DEF mark, read, write, status, next, move
<1>5. PICK a \in OwnWrites(turn, seen), b \in OwnWrites(turn, seen),
           c \in OwnWrites(turn, seen) : p = << a, b, c >>
  BY <1>2, <1>3
<1>6. p \o << status >> = << a, b, c, status >>
  BY <1>5, JoinedLists
<1> DEFINE S == {a, b, c, status, move}
<1>7. p \in Seq(S) /\ << status >> \in Seq(S) /\ << move >> \in Seq(S)
  BY <1>5
<1>8. (p \o << status >>) \o << move >> = << a, b, c, status, move >>
  <2>1. (p \o << status >>) \o << move >> = p \o (<< status >> \o << move >>)
    BY <1>7, ConcatAssociative
  <2>2. << status >> \o << move >> = << status, move >>
    BY JoinedLists
  <2>3. << a, b, c >> \o << status, move >> = << a, b, c, status, move >>
    BY JoinedLists
  <2>4. QED
    BY <1>5, <2>1, <2>2, <2>3
<1>9. (p \o << status >>) \o << >> = p \o << status >>
  <2>1. p \o << status >> \in Seq(S)
    BY <1>7, ConcatProperties
  <2>2. QED
    BY <2>1, ConcatEmptySeq
<1>10. w = IF SignsLast(turn, seen) THEN << a, b, c, status, move >>
                                    ELSE << a, b, c, status >>
  BY <1>1, <1>4, <1>6, <1>8, <1>9
<1>11. QED
  BY <1>5, <1>10 DEF status, next, move

\* Both reads of a validation saw the workflow of the present step, as it is.
Ready(turn, seen, p, f) ==
    /\ Backed(p, f) /\ p.status \in OpenStatuses /\ AtFlow(p, f)
    /\ turn.step = p.currentStep /\ turn.id = f[p.currentStep].id
    /\ turn.order \in Undecided(f[p.currentStep])
    /\ seen.step = p.currentStep /\ seen.id = f[p.currentStep].id
    /\ seen.status = p.status /\ seen.open = Undecided(f[p.currentStep])

\* Then its own writes are signatures and advances of that workflow.
LEMMA OwnKinds ==
    ASSUME NEW turn, NEW seen, NEW p, NEW f, Ready(turn, seen, p, f),
           NEW v \in OwnWrites(turn, seen)
    PROVE  /\ Signs(v, p) \/ Advances(v)
           /\ v.step = p.currentStep /\ v.id = f[p.currentStep].id
           /\ Marks(v) => v.order = turn.order
<1>1. CASE v = MarkOf(turn)
  BY <1>1 DEF Ready, MarkOf, Mark, Signs, Marks
<1>2. CASE v = ReadFlow(seen.step, seen.id)
  BY <1>2 DEF Ready, ReadFlow, Advances, Marks
<1>3. CASE v = AdvanceFlow(seen.step, seen.id)
  BY <1>3 DEF Ready, AdvanceFlow, Advances, Marks
<1>4. QED
  BY <1>1, <1>2, <1>3 DEF OwnWrites

LEMMA ValidationVouched ==
    ASSUME NEW turn, NEW seen, NEW p, NEW f, Ready(turn, seen, p, f),
           NEW w \in ValidationWrites(turn, seen),
           NEW y, y.op = "validate", y.seen = seen, y.todo = w
    PROVE  Vouched(y, p, f)
<1> DEFINE status == SetStatus(ValidatedStatus(turn, seen))
           next == NextStepMap[seen.step]
           move == MoveTo(next, StatusOnEntry(next))
<1>1. PICK a \in OwnWrites(turn, seen), b \in OwnWrites(turn, seen),
           c \in OwnWrites(turn, seen) :
            w = IF SignsLast(turn, seen) THEN << a, b, c, status, move >>
                                         ELSE << a, b, c, status >>
  BY ValidationInOrder
<1>2. \A v \in {a, b, c} :
        /\ Signs(v, p) \/ Advances(v)
        /\ v.step = p.currentStep /\ v.id = f[p.currentStep].id
        /\ Marks(v) => v.order = turn.order
  BY OwnKinds
<1>3. Sets(status, ValidatedStatus(turn, seen))
  BY AskingKinds
<1>4. SignsLast(turn, seen) <=> seen.open \subseteq {turn.order}
  BY DEF SignsLast, Ready
<1>5. p.status \notin OffDesk
  BY DEF Ready, OpenStatuses, OffDesk, Refusals
<1>6. NothingAhead(p, f) /\ RightRoles(p, f)
  BY <1>5 DEF Ready, Backed
<1>7. CASE SignsLast(turn, seen)
  <2>1. Enters(move)
    <3>1. seen.step \in FlowSteps
      BY DEF Ready, AtFlow
    <3>2. next # Keep
      BY <3>1 DEF FlowSteps, NextStepMap, Steps, Keep
    <3>3. StatusOnEntry(next) \in {"AWAITING_DOCUMENTS", "PUBLISHED"}
      BY DEF StatusOnEntry
    <3> HIDE DEF next
    <3>4. QED
      BY <3>2, <3>3 DEF Enters, MovesStep, MoveTo, Update
  <2>2. Sets(status, "PUBLISHED")
    BY <1>3, <1>7 DEF ValidatedStatus
  <2> HIDE DEF status, next, move
  <2>3. y.todo = << a, b, c, status, move >>
    BY <1>1, <1>7
  <2> DEFINE z == y.todo
  <2>4. Len(z) = 5 /\ z[1] = a /\ z[2] = b /\ z[3] = c /\ z[4] = status /\ z[5] = move
    BY <2>3
  <2> DEFINE n == Len(z)
  <2> HIDE DEF z
  <2>5. n = 5 /\ n >= 1
    BY <2>4
  <2>6. \A i \in 1..(n - 1) : i = 1 \/ i = 2 \/ i = 3 \/ i = 4
    BY <2>4
  <2> HIDE DEF n
  <2>7. Enters(z[n])
    BY <2>1, <2>4, <2>5
  <2>8. \A i \in 1..(n - 1) :
            \/ /\ Signs(z[i], p) \/ Advances(z[i])
               /\ z[i].step = p.currentStep
               /\ z[i].id = f[p.currentStep].id
            \/ Sets(z[i], "PUBLISHED")
    BY <1>2, <2>2, <2>4, <2>6
  <2>9. LastSigning(y, p, f)
    BY <1>6, <2>5, <2>7, <2>8 DEF LastSigning, Ready, n, z
  <2>10. QED
    BY <2>9 DEF Vouched
<1>8. CASE ~SignsLast(turn, seen)
  <2>1. Sets(status, p.status)
    BY <1>3, <1>8 DEF ValidatedStatus, Ready
  <2>2. PICK k \in Undecided(f[p.currentStep]) : k # turn.order
    BY <1>4, <1>8 DEF Ready
  <2> HIDE DEF status, next, move
  <2>3. y.todo = << a, b, c, status >>
    BY <1>1, <1>8
  <2> DEFINE z == y.todo
  <2>4. Len(z) = 4 /\ z[1] = a /\ z[2] = b /\ z[3] = c /\ z[4] = status
    BY <2>3
  <2> DEFINE n == Len(z)
  <2> HIDE DEF z
  <2>5. n = 4 /\ n >= 1
    BY <2>4
  <2>6. \A i \in 1..(n - 1) : i = 1 \/ i = 2 \/ i = 3
    BY <2>4
  <2> HIDE DEF n
  <2>7. Sets(z[n], p.status)
    BY <2>1, <2>4, <2>5
  <2>8. \A i \in 1..(n - 1) : /\ Signs(z[i], p) \/ Advances(z[i])
                              /\ Marks(z[i]) => z[i].order # k
    BY <1>2, <2>2, <2>4, <2>6
  <2>9. Countersigning(y, p, f)
    BY <2>2, <2>5, <2>7, <2>8 DEF Countersigning, Ready, n, z
  <2>10. QED
    BY <2>9 DEF Vouched
<1>9. QED
  BY <1>7, <1>8

\* The workflow created last is the one of the present step.
LEMMA NewestIsOurs ==
    ASSUME TypeOK, SnapshotsStaySound, Backed(purchase, flows),
           AtFlow(purchase, flows), purchase.status \in OpenStatuses,
           NEW t \in FlowSteps, NEW id, id = flows[t].id, id # 0,
           \A s \in FlowSteps : flows[s].id <= id
    PROVE  t = purchase.currentStep
<1>1. Newest(purchase, flows)
  BY DEF Backed, OpenStatuses, OffDesk, Refusals
<1> DEFINE u == purchase.currentStep
<1>2. u \in FlowSteps /\ Has(flows, u)
  BY DEF AtFlow
<1>3. flows[u].id \in Nat /\ flows[t].id \in Nat
  BY <1>2 DEF TypeOK, Workflow
<1>4. flows[u].id <= flows[t].id /\ flows[t].id <= flows[u].id
  BY <1>1, <1>2 DEF Newest
<1>5. flows[u].id = flows[t].id
  BY <1>3, <1>4
<1>6. QED
  BY <1>2, <1>5 DEF SnapshotsStaySound, Has, Exists


LEMMA AuthorisedIsNewest ==
    ASSUME TypeOK, NEW turn \in AuthorisedTurns
    PROVE  /\ turn.step \in FlowSteps /\ turn.id # 0 /\ turn # NoTurn
           /\ turn.id = flows[turn.step].id
           /\ \A s \in FlowSteps : flows[s].id <= turn.id
           /\ turn.order \in Undecided(flows[turn.step])
<1>1. PICK s \in FlowSteps : /\ IsLatest(s)
                             /\ \E i \in Undecided(flows[s]) : turn = TurnOf(s, i)
  BY DEF AuthorisedTurns
<1>2. PICK i \in Undecided(flows[s]) : turn = TurnOf(s, i)
  BY <1>1
<1>3. turn.step = s /\ turn.id = flows[s].id /\ turn.order = i
  BY <1>2 DEF TurnOf
<1>4. turn.id # 0
  BY <1>1, <1>3 DEF IsLatest, Exists
<1>5. turn # NoTurn
  BY <1>4 DEF NoTurn
<1>6. QED
  BY <1>1, <1>2, <1>3, <1>4, <1>5 DEF IsLatest

LEMMA ApprovalVouched ==
    ASSUME OneRequest, TypeOK, AllOrderly, SnapshotsStaySound, AllVouched,
           NEW r \in Requests, ApprovalNext(r)
    PROVE  AllVouched'
<1>1. /\ req \in [Requests -> Request] /\ req[r] \in Request
      /\ req[r].turn \in Turn /\ req[r].seen \in Snapshot
  BY DEF TypeOK, Request
<1>2. purchase' = purchase /\ flows' = flows
  BY DEF ApprovalNext, ValidateAuthFirst, ValidateLoadFirst, ValidateLoad,
         ValidateAuth, RefuseAuth, RefuseLoad, RefuseTurn
<1>3. SUFFICES ASSUME purchase.exists
               PROVE  AllVouched'
  BY <1>2 DEF AllVouched
<1>4. /\ req[r] = Idle \/ (req[r].todo = << >> /\ req[r].op \in ApprovalOps)
      /\ req[r].todo = << >>
  <2>1. Idle.todo = << >>
    BY DEF Idle
  <2>2. req[r] = Idle \/ (req[r].todo = << >> /\ req[r].op \in ApprovalOps)
    BY DEF ApprovalNext, ValidateAuthFirst, ValidateLoadFirst, ValidateLoad,
           ValidateAuth, RefuseAuth, RefuseLoad, RefuseTurn, Starts, ApprovalOps
  <2>3. QED
    BY <2>1, <2>2
<1>5. /\ Backed(purchase, flows) /\ NothingAhead(purchase, flows)
      /\ req[r].op \in ApprovalOps => Resting(req[r], purchase, flows)
  <2>1. Vouched(req[r], purchase, flows)
    BY <1>3 DEF AllVouched
  <2>2. QED
    BY <1>4, <2>1, AtRestBacked DEF Backed
<1>6. ASSUME NEW y, Vouched(y, purchase, flows), req' = [req EXCEPT ![r] = y]
      PROVE  AllVouched'
  BY <1>2, <1>6, OnlyOneVouched
<1>7. CASE Throw(r)
  BY <1>5, <1>6, <1>7, IdleVouched DEF Throw
<1>8. ASSUME AwaitsValidation
      PROVE  /\ LoadedSnapshot.step = purchase.currentStep
             /\ LoadedSnapshot.status = purchase.status
             /\ LoadedSnapshot.id = flows[purchase.currentStep].id
             /\ LoadedSnapshot.open = Undecided(flows[purchase.currentStep])
             /\ purchase.status \in OpenStatuses
             /\ AtFlow(purchase, flows)
  BY <1>8 DEF AwaitsValidation, LoadedSnapshot, AtFlow, Has, Exists
<1>9. ASSUME NEW turn, NEW seen, Ready(turn, seen, purchase, flows),
             NEW w \in ValidationWrites(turn, seen),
             req' = [req EXCEPT ![r] = Validating(seen, w)]
      PROVE  AllVouched'
  <2> DEFINE y == Validating(seen, w)
  <2>1. y.op = "validate" /\ y.seen = seen /\ y.todo = w
    BY DEF Validating, Planned, Idle
  <2> HIDE DEF y
  <2>2. Vouched(y, purchase, flows)
    BY <1>9, <2>1, ValidationVouched
  <2>3. QED
    BY <1>6, <1>9, <2>2 DEF y
<1>10. CASE ValidateAuthFirst(r)
  <2>1. PICK turn \in AuthorisedTurns :
            req' = [req EXCEPT ![r].op = "validate", ![r].turn = turn]
    BY <1>10 DEF ValidateAuthFirst
  <2> DEFINE y == [req[r] EXCEPT !.op = "validate", !.turn = turn]
  <2>2. req' = [req EXCEPT ![r] = y]
    BY <1>1, <2>1
  <2>3. y.turn = turn /\ y.todo = << >>
    BY <1>1, <1>4 DEF Request
  <2> HIDE DEF y
  <2>4. Resting(y, purchase, flows)
    BY <1>5, <2>3, AuthorisedIsNewest DEF Resting
  <2>5. QED
    BY <1>6, <2>2, <2>4 DEF Vouched
<1>11. CASE ValidateLoadFirst(r)
  <2> DEFINE y == [req[r] EXCEPT !.op = "validate", !.seen = LoadedSnapshot]
  <2>1. req' = [req EXCEPT ![r] = y] /\ AwaitsValidation /\ req[r] = Idle
    BY <1>1, <1>11 DEF ValidateLoadFirst, Starts
  <2>2. y.seen = LoadedSnapshot /\ y.todo = << >> /\ y.turn = NoTurn
    BY <1>1, <1>4, <2>1 DEF Request, Idle
  <2> HIDE DEF y
  <2>3. Resting(y, purchase, flows)
    BY <1>5, <1>8, <2>1, <2>2 DEF Resting
  <2>4. QED
    BY <1>6, <2>1, <2>3 DEF Vouched
<1>12. CASE ValidateLoad(r) /\ ~Throw(r)
  <2> DEFINE turn == req[r].turn
  <2>1. PICK w \in ValidationWrites(turn, LoadedSnapshot) :
            /\ AwaitsValidation
            /\ req' = [req EXCEPT ![r] = Validating(LoadedSnapshot, w)]
    BY <1>12 DEF ValidateLoad
  <2>2. /\ req[r].op = "validate" /\ req[r].seen.id = 0
        /\ Resting(req[r], purchase, flows)
    BY <1>5, <1>12 DEF ValidateLoad, NotLoaded, ApprovalOps
  <2>3. AtFlow(purchase, flows) /\ purchase.status \in OpenStatuses
    BY <1>8, <2>1
  <2>4. turn # NoTurn
    BY <2>2, <2>3 DEF Resting, AtFlow, Has
  <2>5. /\ turn.id # 0 /\ turn.id = flows[turn.step].id
        /\ \A s \in FlowSteps : flows[s].id <= turn.id
        /\ turn.order \in Undecided(flows[turn.step])
        /\ turn.step \in FlowSteps
    BY <1>1, <2>2, <2>4 DEF Resting, Turn
  <2>6. turn.step = purchase.currentStep
    BY <1>5, <2>3, <2>5, NewestIsOurs
  <2>7. Ready(turn, LoadedSnapshot, purchase, flows)
    BY <1>5, <1>8, <2>1, <2>3, <2>5, <2>6 DEF Ready
  <2>8. QED
    BY <1>9, <2>1, <2>7
<1>13. CASE ValidateAuth(r) /\ ~Throw(r)
  <2> DEFINE seen == req[r].seen
  <2>1. PICK turn \in AuthorisedTurns :
            \E w \in ValidationWrites(turn, seen) :
                req' = [req EXCEPT ![r] = Validating(seen, w)]
    BY <1>13 DEF ValidateAuth
  <2>2. /\ req[r].op = "validate" /\ req[r].turn = NoTurn
        /\ Resting(req[r], purchase, flows)
    BY <1>5, <1>13 DEF ValidateAuth, ApprovalOps
  <2>3. /\ purchase.status \in OpenStatuses /\ AtFlow(purchase, flows)
        /\ seen.step = purchase.currentStep /\ seen.status = purchase.status
        /\ seen.id = flows[purchase.currentStep].id
        /\ seen.open = Undecided(flows[purchase.currentStep])
    BY <2>2 DEF Resting
  <2>4. /\ turn.id # 0 /\ turn.id = flows[turn.step].id
        /\ \A s \in FlowSteps : flows[s].id <= turn.id
        /\ turn.order \in Undecided(flows[turn.step])
        /\ turn.step \in FlowSteps
    BY AuthorisedIsNewest
  <2>5. turn.step = purchase.currentStep
    BY <1>5, <2>3, <2>4, NewestIsOurs
  <2>6. Ready(turn, seen, purchase, flows)
    BY <1>5, <2>3, <2>4, <2>5 DEF Ready
  <2>7. QED
    BY <1>9, <2>1, <2>6
<1>14. CASE RefuseAuth(r)
  <2>1. PICK op \in {"reject", "requestChanges"}, turn \in AuthorisedTurns :
            req' = [req EXCEPT ![r].op = op, ![r].turn.role = turn.role]
    BY <1>14 DEF RefuseAuth
  <2> DEFINE y == [req[r] EXCEPT !.op = op, !.turn.role = turn.role]
  <2>2. req' = [req EXCEPT ![r] = y]
    BY <1>1, <2>1
  <2>3. y.todo = << >> /\ y.op = op
    BY <1>1, <1>4 DEF Request
  <2> HIDE DEF y
  <2>4. Resting(y, purchase, flows)
    BY <1>5, <2>1, <2>3 DEF Resting
  <2>5. QED
    BY <1>6, <2>2, <2>4 DEF Vouched
<1>15. CASE RefuseLoad(r) /\ ~Throw(r)
  <2> DEFINE y == [req[r] EXCEPT !.seen = LoadedSnapshot]
  <2>1. req' = [req EXCEPT ![r] = y] /\ req[r].op \in {"reject", "requestChanges"}
    BY <1>1, <1>15 DEF RefuseLoad
  <2>2. y.todo = << >> /\ y.op = req[r].op
    BY <1>1, <1>4 DEF Request
  <2> HIDE DEF y
  <2>3. Resting(y, purchase, flows)
    BY <1>5, <2>1, <2>2 DEF Resting
  <2>4. QED
    BY <1>6, <2>1, <2>3 DEF Vouched
<1>16. CASE RefuseTurn(r) /\ ~Throw(r)
  <2> DEFINE s == req[r].seen.step
             decision == DecisionOf(req[r].op)
             mark(i) == Mark(s, flows[s].id, i, decision)
             close == Close(decision)
  <2>1. PICK i \in 1..Len(flows[s].validators) :
            req' = [req EXCEPT ![r] = Planned(req[r].op, << mark(i), close >>)]
    BY <1>16 DEF RefuseTurn
  <2>2. req[r].op \in {"reject", "requestChanges"}
    BY <1>16 DEF RefuseTurn
  <2>3. Marks(mark(i)) /\ Refuses(close)
    <3>1. decision \in Refusals
      BY <2>2 DEF DecisionOf, Refusals
    <3> HIDE DEF decision
    <3>2. QED
      BY <3>1 DEF Mark, Marks, Close, Update, Refuses
  <2> DEFINE m == mark(i)
             y == Planned(req[r].op, << m, close >>)
  <2>4. y.todo = << m, close >>
    BY DEF Planned, Idle
  <2>5. req' = [req EXCEPT ![r] = y]
    BY <2>1
  <2>6. Marks(m)
    BY <2>3
  <2> HIDE DEF y, m, mark, close, decision
  <2>7. Len(y.todo) = 2 /\ y.todo[1] = m /\ y.todo[2] = close
    BY <2>4
  <2>8. TurningDown(y, purchase, flows)
    BY <1>5, <2>3, <2>6, <2>7 DEF TurningDown
  <2>9. QED
    BY <1>6, <2>5, <2>8 DEF Vouched
<1>17. QED
  BY <1>7, <1>10, <1>11, <1>12, <1>13, <1>14, <1>15, <1>16 DEF ApprovalNext


-----------------------------------------------------------------------------
(* The two properties.                                                     *)

LEMMA InitVouched == Init => AllVouched
<1>1. SUFFICES ASSUME NEW start \in StartSteps, NEW op \in StartTypes,
                      NEW amount \in Amounts, InitAt(start, op, amount),
                      req = [r \in Requests |-> Idle]
               PROVE  AllVouched
  BY DEF Init
<1>2. start \in FlowSteps /\ start \in Steps
  BY StartAssumption DEF FlowSteps, Steps
<1>3. /\ purchase.status = IF start = "DA" THEN "DRAFT" ELSE StatusOnEntry(start)
      /\ purchase.currentStep = start
  BY <1>1 DEF InitAt
<1>4. ASSUME NEW s \in FlowSteps, ~StepBefore(s, start)
      PROVE  ~Has(flows, s)
  <2>1. flows[s] = NoFlow
    BY <1>1, <1>4 DEF InitAt
  <2>2. QED
    BY <2>1 DEF Has, NoFlow
<1>5. \A s \in Steps : StepNumber[s] \in Nat /\ ~(StepNumber[s] < 1)
  <2>1. ASSUME NEW s \in Steps
        PROVE  StepNumber[s] \in Nat /\ ~(StepNumber[s] < 1)
    <3> DEFINE n == StepNumber[s]
    <3>1. n \in Nat \ {0}
      BY SuccessorsType
    <3> HIDE DEF n
    <3>2. n \in Nat /\ ~(n < 1)
      BY <3>1
    <3>3. QED
      BY <3>2 DEF n
  <2>2. QED
    BY <2>1
<1>6. FlowSteps \subseteq Steps
  BY SuccessorsType
<1>7. NothingAhead(purchase, flows) /\ ~Has(flows, start)
  <2>1. \A s \in FlowSteps : StepBefore(start, s) => ~StepBefore(s, start)
    BY <1>2, <1>5, <1>6 DEF StepBefore
  <2>2. ~StepBefore(start, start)
    BY <1>2, <1>5 DEF StepBefore
  <2>3. QED
    BY <1>2, <1>3, <1>4, <2>1, <2>2 DEF NothingAhead
<1>8. CASE start = "DA"
  <2>1. StepNumber["DA"] = 1
    BY DEF StepNumber, Steps
  <2>2. \A s \in FlowSteps : ~StepBefore(s, start)
    BY <1>5, <1>6, <1>8, <2>1 DEF StepBefore
  <2>3. NoChain(flows)
    BY <1>4, <2>2 DEF NoChain
  <2>4. Backed(purchase, flows)
    BY <1>3, <1>7, <1>8, <2>3 DEF Backed, OffDesk
  <2>5. QED
    BY <1>1, <2>4, IdleVouched DEF AllVouched
<1>9. CASE start # "DA"
  <2>1. purchase.status \in {"AWAITING_DOCUMENTS", "PUBLISHED"}
    BY <1>3, <1>9 DEF StatusOnEntry
  <2>2. Backed(purchase, flows)
    BY <1>3, <1>7, <1>9, <2>1 DEF Backed, AtFlow, Asked
  <2>3. QED
    BY <1>1, <2>2, IdleVouched DEF AllVouched
<1>10. QED
  BY <1>8, <1>9

LEMMA StepVouched ==
    ASSUME OneRequest, ~CanFail, Operations \cap Careless = {},
           TypeOK, StepsOrdered, AllOrderly, TurnsStayGood, SnapshotsStaySound,
           MovesOnlyWhenSigned, AllVouched, [Next]_vars
    PROVE  /\ AllVouched'
           /\ ( /\ purchase'.currentStep # purchase.currentStep
                /\ purchase.currentStep \in FlowSteps )
              => ApprovedBy(flows[purchase.currentStep], RolesNeeded(purchase))
<1>1. CASE UNCHANGED vars
  BY <1>1 DEF vars, AllVouched
<1>2. ASSUME NEW r \in Requests, ApprovalNext(r)
      PROVE  AllVouched' /\ purchase' = purchase
  BY <1>2, ApprovalOrderly, ApprovalVouched
<1>3. ASSUME NEW r \in Requests, AuthoringNext(r) \/ SourcingNext(r) \/ DocumentsNext(r)
      PROVE  AllVouched' /\ purchase' = purchase
  <2>1. AllVouched'
    BY <1>3, AuthoringVouched, SourcingVouched, DocumentsVouched
  <2>2. RunsStill(r) \/ RunsAndMoves(r)
    BY <1>3, InertIsStill, AuthoringRuns, SourcingRuns, DocumentsRuns
  <2>3. QED
    BY <2>1, <2>2 DEF RunsStill, RunsAndMoves, Runs
<1>4. CASE \E r \in Requests : Continue(r)
  BY <1>4, ContinueVouched
<1>5. CASE \E r \in Requests : Fail(r)
  BY <1>5 DEF Fail
<1>6. QED
  BY <1>1, <1>2, <1>3, <1>4, <1>5 DEF Next

LEMMA AlwaysVouched ==
    ASSUME OneRequest, ~CanFail, Operations \cap Careless = {}
    PROVE  Spec => [](/\ TypeOK /\ StepsOrdered /\ AllOrderly
                      /\ TurnsStayGood /\ SnapshotsStaySound
                      /\ MovesOnlyWhenSigned /\ AllVouched)
<1> DEFINE Sound == /\ TypeOK /\ StepsOrdered /\ AllOrderly
                    /\ TurnsStayGood /\ SnapshotsStaySound /\ MovesOnlyWhenSigned
<1>1. Spec => []Sound
  BY AlwaysOrderly, TurnsAlwaysGood, SnapshotsAlwaysSound, NeverMovesEarly, PTL
<1>2. Init => AllVouched
  BY InitVouched
<1>3. Sound /\ AllVouched /\ [Next]_vars => AllVouched'
  BY StepVouched
<1>4. QED
  BY <1>1, <1>2, <1>3, PTL DEF Spec

\* A purchase leaves a step that needs signatures only with every signature
\* the matrix asks for: no edit, submission or revision between the request
\* for signatures and the last of them makes the chain that was asked another
\* than the one that is needed.
THEOREM LeavesApproved ==
    ASSUME OneRequest, ~CanFail, Operations \cap Careless = {}
    PROVE  Spec => LeavesStepApproved
<1> DEFINE Leaves ==
        ( /\ purchase'.currentStep # purchase.currentStep
          /\ purchase.currentStep \in FlowSteps )
        => ApprovedBy(flows[purchase.currentStep],
                      RequireValidators(purchase.currentStep,
                                        purchase.operationType,
                                        purchase.amount))
<1>1. /\ TypeOK /\ StepsOrdered /\ AllOrderly
      /\ TurnsStayGood /\ SnapshotsStaySound
      /\ MovesOnlyWhenSigned /\ AllVouched
      /\ [Next]_vars
      => [Leaves]_vars
  BY StepVouched DEF RolesNeeded
<1>2. QED
  BY <1>1, AlwaysVouched, PTL DEF Spec, LeavesStepApproved

\* Of those who are still to decide, one is first.
LEMMA SomebodyIsNext ==
    ASSUME NEW w, Undecided(w) # {}, Len(w.validators) \in Nat, Len(w.validators) <= 5
    PROVE  \E i \in 1..Len(w.validators) : IsNext(w, i)
<1> DEFINE U == Undecided(w)
<1>1. U \subseteq 1..Len(w.validators)
  BY DEF Undecided
<1> HIDE DEF U
<1>2. \A i \in U : i = 1 \/ i = 2 \/ i = 3 \/ i = 4 \/ i = 5
  BY <1>1
<1>3. \E i \in U : \A j \in U : i <= j
  <2>1. CASE 1 \in U
    BY <1>2, <2>1
  <2>2. CASE 1 \notin U /\ 2 \in U
    BY <1>2, <2>2
  <2>3. CASE 1 \notin U /\ 2 \notin U /\ 3 \in U
    BY <1>2, <2>3
  <2>4. CASE 1 \notin U /\ 2 \notin U /\ 3 \notin U /\ 4 \in U
    BY <1>2, <2>4
  <2>5. CASE 1 \notin U /\ 2 \notin U /\ 3 \notin U /\ 4 \notin U
    <3>1. \A i \in U : i = 5
      BY <1>2, <2>5
    <3>2. QED
      BY <3>1 DEF U
  <2>6. QED
    BY <2>1, <2>2, <2>3, <2>4, <2>5
<1>4. QED
  BY <1>1, <1>3 DEF IsNext, U

\* The workflow of the present step is the one the authorisation looks at.
LEMMA PresentIsLatest ==
    ASSUME Backed(purchase, flows), purchase.status \in OpenStatuses,
           AtFlow(purchase, flows)
    PROVE  /\ IsLatest(purchase.currentStep)
           /\ RightRoles(purchase, flows)
  BY DEF Backed, OpenStatuses, OffDesk, Refusals, AtFlow, Newest, IsLatest, Has, Exists

\* Those who are shown the purchase are those whose turn it is.
LEMMA ListedAreAuthorised ==
    ASSUME TypeOK, SnapshotsStaySound, Backed(purchase, flows), purchase.exists
    PROVE  {role \in Roles : IsListed(role)} =
                {turn.role : turn \in {t \in AuthorisedTurns : AwaitsValidation}}
<1> DEFINE step == purchase.currentStep
           flow == flows[step]
<1>1. flows \in [FlowSteps -> Workflow]
  BY DEF TypeOK
<1>2. ASSUME NEW role \in Roles, IsListed(role)
      PROVE  \E turn \in AuthorisedTurns : AwaitsValidation /\ role = turn.role
  <2>1. /\ purchase.status \in OpenStatuses /\ step \in FlowSteps /\ Exists(step)
    BY <1>2 DEF IsListed, IsCandidate, Unfinished
  <2>2. PICK i \in DOMAIN flow.validators :
            IsNext(flow, i) /\ flow.validators[i].role = role
    BY <1>2 DEF IsListed
  <2>3. AwaitsValidation /\ AtFlow(purchase, flows)
    BY <2>1 DEF AwaitsValidation, AtFlow, Has, Exists
  <2>4. IsLatest(step)
    BY <2>1, <2>3, PresentIsLatest
  <2>5. TurnOf(step, i) \in AuthorisedTurns
    <3>1. i \in { j \in Undecided(flow) : IsNext(flow, j) }
      BY <2>2 DEF IsNext
    <3>2. step \in { t \in FlowSteps : IsLatest(t) }
      BY <2>1, <2>4
    <3>3. QED
      BY <3>1, <3>2 DEF AuthorisedTurns
  <2>6. TurnOf(step, i).role = role
    BY <2>2 DEF TurnOf
  <2>7. QED
    BY <2>3, <2>5, <2>6
<1>3. ASSUME NEW turn \in AuthorisedTurns, AwaitsValidation
      PROVE  turn.role \in Roles /\ IsListed(turn.role)
  <2>1. /\ purchase.status \in OpenStatuses /\ step \in FlowSteps
        /\ AtFlow(purchase, flows) /\ Exists(step)
    BY <1>3 DEF AwaitsValidation, AtFlow, Has, Exists
  <2>2. PICK s \in FlowSteps :
            /\ IsLatest(s)
            /\ \E i \in { j \in Undecided(flows[s]) : IsNext(flows[s], j) } :
                    turn = TurnOf(s, i)
    BY DEF AuthorisedTurns
  <2>3. PICK i \in Undecided(flows[s]) : IsNext(flows[s], i) /\ turn = TurnOf(s, i)
    BY <2>2
  <2>4. /\ flows[s].id # 0 /\ \A t \in FlowSteps : flows[t].id <= flows[s].id
    BY <2>2 DEF IsLatest, Exists
  <2>5. s = step
    BY <2>1, <2>4, NewestIsOurs
  <2>6. turn.role = flow.validators[i].role /\ i \in 1..Len(flow.validators)
    BY <2>3, <2>5 DEF TurnOf, Undecided
  <2>7. flow.validators \in Seq(Validator)
    BY <1>1, <2>1 DEF Workflow
  <2>8. turn.role \in Roles /\ i \in DOMAIN flow.validators
    <3> DEFINE chain == flow.validators
    <3>1. chain \in Seq(Validator) /\ i \in 1..Len(chain)
      BY <2>6, <2>7
    <3> HIDE DEF chain
    <3>2. chain[i] \in Validator /\ i \in DOMAIN chain
      BY <3>1, ElementOfSeq
    <3>3. chain[i].role \in Roles
      BY <3>2 DEF Validator
    <3>4. QED
      BY <2>6, <3>2, <3>3 DEF chain
  <2>9. Unfinished(step)
    BY <2>1, <2>3, <2>5 DEF SnapshotsStaySound, CompleteFlagSound, Unfinished
  <2>10. IsCandidate(turn.role)
    BY <2>1, <2>3, <2>5, <2>6, <2>9 DEF IsCandidate
  <2>11. QED
    BY <2>1, <2>3, <2>5, <2>6, <2>8, <2>9, <2>10 DEF IsListed
<1>4. QED
  BY <1>2, <1>3

\* A purchase that validators are asked about has a validator it is shown to.
LEMMA AskedIsListed ==
    ASSUME TypeOK, SnapshotsStaySound, Backed(purchase, flows), purchase.exists,
           Asked(purchase)
    PROVE  /\ AtFlow(purchase, flows) /\ SomebodyLeft(purchase, flows)
           /\ IsLatest(purchase.currentStep)
           /\ \E role \in Roles : IsListed(role)
<1> DEFINE step == purchase.currentStep
           flow == flows[step]
<1>1. purchase.status \in OpenStatuses /\ purchase.status \notin OffDesk
  BY DEF Asked, OpenStatuses, OffDesk, Refusals
<1>2. AtFlow(purchase, flows) /\ SomebodyLeft(purchase, flows)
  BY <1>1 DEF Backed
<1>3. IsLatest(step) /\ RightRoles(purchase, flows)
  BY <1>1, <1>2, PresentIsLatest
<1>4. /\ step \in FlowSteps /\ Undecided(flow) # {}
  BY <1>2 DEF AtFlow, SomebodyLeft
<1>5. Len(flow.validators) \in Nat /\ Len(flow.validators) <= 5
  <2>1. /\ purchase.operationType \in OperationTypes /\ purchase.amount \in Nat
        /\ flow.validators \in Seq(Validator)
    BY <1>4 DEF TypeOK, Purchase, Workflow
  <2>2. Len(RolesNeeded(purchase)) <= 5
    BY <1>4, <2>1, RolesEnough DEF RolesNeeded
  <2>3. Len(flow.validators) = Len(RolesNeeded(purchase))
    BY <1>3 DEF RightRoles
  <2>4. Len(flow.validators) \in Nat
    BY <2>1
  <2>5. QED
    BY <2>2, <2>3, <2>4
<1>6. PICK i \in 1..Len(flow.validators) : IsNext(flow, i)
  BY <1>4, <1>5, SomebodyIsNext
<1>7. TurnOf(step, i) \in AuthorisedTurns
  <2>1. i \in { j \in Undecided(flow) : IsNext(flow, j) }
    BY <1>6 DEF IsNext
  <2>2. step \in { t \in FlowSteps : IsLatest(t) }
    BY <1>3, <1>4
  <2>3. QED
    BY <2>1, <2>2 DEF AuthorisedTurns
<1>8. AwaitsValidation
  BY <1>1, <1>2 DEF AwaitsValidation, AtFlow, Has, Exists
<1>9. TurnOf(step, i).role \in {role \in Roles : IsListed(role)}
  BY <1>7, <1>8, ListedAreAuthorised
<1>10. QED
  BY <1>2, <1>3, <1>9

\* Between requests a purchase that waits for approval can get it, from those
\* who are shown it; whatever is under way is on somebody's desk.
THEOREM PendingCanBeDecided ==
    ASSUME OneRequest, Requests # {}, ~CanFail, Operations \cap Careless = {}
    PROVE  Spec => []PendingIsActionable
<1>1. ASSUME TypeOK, SnapshotsStaySound, AllVouched
      PROVE  PendingIsActionable
  <2>1. SUFFICES ASSUME Quiet, purchase.exists
                 PROVE  PendingIsActionable
    BY DEF PendingIsActionable
  <2>2. Backed(purchase, flows)
    BY <1>1, <2>1, StartsBacked DEF Quiet
  <2>3. \/ purchase.status = "PENDING_APPROVAL"
        \/ purchase.status = "PUBLISHED" /\ purchase.currentStep = "DA"
        => Asked(purchase)
    BY DEF Asked
  <2>4. Asked(purchase)
        => /\ purchase.currentStep \in FlowSteps
           /\ IsLatest(purchase.currentStep)
           /\ ~Complete(flows[purchase.currentStep])
           /\ \E role \in Roles : IsListed(role)
    BY <1>1, <2>1, <2>2, AskedIsListed DEF AtFlow, SomebodyLeft, Complete
  <2>5. {role \in Roles : IsListed(role)} =
                {turn.role : turn \in {t \in AuthorisedTurns : AwaitsValidation}}
    BY <1>1, <2>1, <2>2, ListedAreAuthorised
  <2>6. ASSUME UnderWay, ~Asked(purchase)
        PROVE  \/ purchase.currentStep = "QR" /\ OnQuoteDesk
               \/ purchase.currentStep # "QR" /\ InBuyerWorkspace
    <3>1. /\ purchase.status \in {"PUBLISHED", "AWAITING_DOCUMENTS"}
          /\ purchase.currentStep # "DA" /\ purchase.currentStep # "DONE"
      <4>1. purchase.status \in {"PUBLISHED", "AWAITING_DOCUMENTS"}
        BY <2>6 DEF UnderWay, OpenStatuses, Asked
      <4>2. purchase.currentStep # "DA"
        BY <2>2, <2>6, <4>1 DEF Backed, Asked, OffDesk, Refusals
      <4>3. QED
        BY <2>6, <4>1, <4>2 DEF UnderWay
    <3>2. purchase.currentStep \in Steps
      BY <1>1 DEF TypeOK, Purchase
    <3>3. CASE purchase.currentStep = "QR"
      BY <2>1, <3>1, <3>3 DEF OnQuoteDesk
    <3>4. CASE purchase.currentStep # "QR"
      BY <2>1, <3>1, <3>2, <3>4 DEF InBuyerWorkspace, OpenStatuses, Steps
    <3>5. QED
      BY <3>3, <3>4
  <2>7. QED
    BY <2>3, <2>4, <2>5, <2>6 DEF PendingIsActionable
<1>2. QED
  BY <1>1, AlwaysVouched, PTL

=============================================================================
