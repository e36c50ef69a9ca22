--------------------------- MODULE WorkflowRules ---------------------------
(***************************************************************************)
(* The static tables of the purchase workflow: the steps and their         *)
(* successors, who has to sign at which step for which amount, and how     *)
(* many quotes an amount requires.                                         *)
(*                                                                         *)
(* Amounts are natural numbers of MGA.  Every quantity and unit price is   *)
(* validated to be at least 0, so a total never is negative.               *)
(***************************************************************************)
EXTENDS Integers, Sequences

Steps == {"DA", "QR", "PV", "BC", "BR", "INVOICE", "DAP",
          "PROOF_OF_PAYMENT", "DONE"}

Statuses == {"DRAFT", "PENDING_APPROVAL", "PUBLISHED", "AWAITING_DOCUMENTS",
             "VALIDATED", "REJECTED", "IN_DEROGATION", "CHANGE_REQUESTED"}

OperationTypes == {"OPERATION", "PROGRAMME"}

Roles == {"ACHETEUR", "DEMANDEUR", "RFR", "CPR", "OM", "DP", "CFO", "CEO"}

\* The steps for which some code creates a validation workflow.
FlowSteps == {"DA", "QR", "PV", "BC", "DAP"}

-----------------------------------------------------------------------------
(* Successors.                                                             *)

\* Where a completed validation sends the purchase.  The code has no entry
\* for BR and DONE.
NextStepMap ==
    [s \in Steps \ {"BR", "DONE"} |->
        CASE s = "DA" -> "QR"
          [] s = "QR" -> "PV"
          [] s = "PV" -> "BC"
          [] s = "BC" -> "BR"
          [] s = "INVOICE" -> "DAP"
          [] s = "DAP" -> "PROOF_OF_PAYMENT"
          [] s = "PROOF_OF_PAYMENT" -> "DONE"]

\* Mutant of NextDocumentStep: the payment request is forgotten.
DocumentStepSkippingDAP ==
    [s \in {"BR", "INVOICE", "PROOF_OF_PAYMENT"} |->
        CASE s = "BR" -> "INVOICE"
          [] s = "INVOICE" -> "PROOF_OF_PAYMENT"
          [] s = "PROOF_OF_PAYMENT" -> "DONE"]

\* Where a submitted document sends it, at a step without validation.
NextDocumentStep ==
    [s \in {"BR", "INVOICE", "PROOF_OF_PAYMENT"} |->
        CASE s = "BR" -> "INVOICE"
          [] s = "INVOICE" -> "DAP"
          [] s = "PROOF_OF_PAYMENT" -> "DONE"]

StepsAwaitingDocs == {"QR", "BC", "BR", "INVOICE", "DAP", "PROOF_OF_PAYMENT"}

StatusOnEntry(s) ==
    IF s \in StepsAwaitingDocs THEN "AWAITING_DOCUMENTS" ELSE "PUBLISHED"

-----------------------------------------------------------------------------
(* Who signs.  A bound that the code leaves undefined is the empty set.    *)

Threshold == 5000000

Rule(min, max, roles) ==
    [minAmount |-> min, maxAmount |-> max, roles |-> roles]

Always(roles) == << Rule({}, {}, roles) >>

\* The two rules of a step whose signatories change at the threshold.
ByAmount(below, above) ==
    << Rule({}, {Threshold}, below), Rule({Threshold}, {}, above) >>

FieldChain(op) ==
    IF op = "OPERATION"
    THEN << "DEMANDEUR", "OM", "RFR", "CPR" >>
    ELSE << "DEMANDEUR", "RFR", "CPR" >>

DirectionChain(op) ==
    IF op = "OPERATION"
    THEN << "DEMANDEUR", "OM", "CFO", "CEO" >>
    ELSE << "DEMANDEUR", "DP", "CFO", "CEO" >>

ConfiguredSteps == {"DA", "QR", "PV", "BC", "INVOICE", "DAP"}

StepRules(step, op) ==
    CASE step \in {"DA", "INVOICE"} ->
            ByAmount(FieldChain(op), DirectionChain(op))
      [] step = "QR" ->
            Always(IF op = "OPERATION"
                   THEN << "OM", "CFO", "CEO", "DEMANDEUR" >>
                   ELSE << "OM", "DP", "CFO", "CEO", "DEMANDEUR" >>)
      [] step = "PV" ->
            ByAmount(FieldChain(op),
                     IF op = "OPERATION"
                     THEN DirectionChain(op)
                     ELSE << "DEMANDEUR", "OM", "CFO", "DP", "CEO" >>)
      [] step = "BC" -> Always(<< "OM", "RFR", "CPR" >>)
      [] step = "DAP" -> Always(<< "ACHETEUR", "OM", "CFO" >>)

IsAmountInRange(amount, rule) ==
    /\ \A min \in rule.minAmount : amount >= min
    /\ \A max \in rule.maxAmount : amount < max

\* The roles of the first rule whose range holds the amount, the first
\* rule's if none does.  Defined for the configured steps only.
RequireValidators(step, op, amount) ==
    LET rules == StepRules(step, op)
        First(i) == /\ IsAmountInRange(amount, rules[i])
                    /\ \A j \in 1..(i - 1) : ~IsAmountInRange(amount, rules[j])
    IN  IF \E i \in DOMAIN rules : First(i)
        THEN rules[CHOOSE i \in DOMAIN rules : First(i)].roles
        ELSE rules[1].roles

-----------------------------------------------------------------------------
(* How many quotes.                                                        *)

QuoteLevel(amount) ==
    CASE amount < 1000000 -> 1
      [] amount >= 1000000 /\ amount < 5000000 -> 2
      [] amount >= 5000000 /\ amount < 25000000 -> 3
      [] amount >= 25000000 -> 4

RequiredQuotesCount(level) == IF level = 4 THEN 3 ELSE level

RequiredQuotes(amount) == RequiredQuotesCount(QuoteLevel(amount))
=============================================================================
