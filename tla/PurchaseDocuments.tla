------------------------- MODULE PurchaseDocuments -------------------------
(***************************************************************************)
(* The endpoints that attach and submit the documents of the later steps:  *)
(* the purchase order (BC), the delivery note (BR), the invoice, the       *)
(* payment request (DAP) and the proof of payment; and the two generic     *)
(* ones, submitForValidation and the attachments.                          *)
(***************************************************************************)
EXTENDS PurchaseState

ChainFor(step) ==
    CreateFlow(step,
               RequireValidators(step, purchase.operationType, purchase.amount),
               FALSE)

\* A step that goes through validation: its workflow, then the status.
AskApproval(step) == << ChainFor(step), SetStatus("PENDING_APPROVAL") >>

\* Mutant of EnterNext: the status that belongs to a step with signatures.
EnterNextPending(step) ==
    LET next == NextDocumentStep[step]
    IN  << IF next = "DONE" THEN Update("DONE", "VALIDATED", "set", Keep)
                            ELSE MoveTo(next, "PENDING_APPROVAL") >>

\* A step that does not: on to the next one.
EnterNext(step) ==
    LET next == NextDocumentStep[step]
    IN  << IF next = "DONE" THEN Update("DONE", "VALIDATED", "set", Keep)
                            ELSE MoveTo(next, "AWAITING_DOCUMENTS") >>

-----------------------------------------------------------------------------
(* BCService.                                                              *)

UploadBC(r) ==
    /\ StartsFlow(r, "uploadBC")
    /\ purchase.currentStep = "BC"
    /\ purchase.status \in {"PUBLISHED", "AWAITING_DOCUMENTS"}
    /\ Runs(r, "uploadBC",
            << DropDocs("PURCHASE_ORDER"), AddDoc("PURCHASE_ORDER"),
               DeleteFlows({"BC"}) >> \o AskApproval("BC"))

-----------------------------------------------------------------------------
(* DocumentStepService.                                                    *)

\* Mutant of DocTypeOf: the proof of payment is looked for among the invoices.
DocTypeMixedUp ==
    [s \in {"BR", "INVOICE", "DAP", "PROOF_OF_PAYMENT"} |->
        CASE s = "BR" -> "DELIVERY_NOTE"
          [] s = "DAP" -> "DAP"
          [] OTHER -> "INVOICE"]

DocTypeOf ==
    [s \in {"BR", "INVOICE", "DAP", "PROOF_OF_PAYMENT"} |->
        IF s = "BR" THEN "DELIVERY_NOTE" ELSE s]

UploadDocument(r) ==
    /\ Starts(r, "uploadDocument")
    /\ purchase.currentStep \in DOMAIN DocTypeOf
    /\ purchase.status \in {"AWAITING_DOCUMENTS", "PUBLISHED"}
    /\ LET type == DocTypeOf[purchase.currentStep]
       IN  Runs(r, "uploadDocument",
                << DropDocs(type), AddDoc(type),
                   SetStatus("AWAITING_DOCUMENTS") >>)

SubmitDocument(r) ==
    /\ Starts(r, "submitDocument")
    /\ purchase.currentStep \in DOMAIN DocTypeOf
    /\ purchase.status = "AWAITING_DOCUMENTS"
    /\ LET step == purchase.currentStep
       IN  /\ step = "DAP" => FlowsLeft
           /\ Runs(r, "submitDocument",
                << Require(DocTypeOf[step]) >>
                \o IF step = "DAP"
                   THEN << DeleteFlows({"DAP"}) >> \o AskApproval("DAP")
                   ELSE EnterNext(step))

-----------------------------------------------------------------------------
(* SubmitService.  It checks neither the status nor the caller; the PV is  *)
(* looked up in a read of its own.                                         *)

SubmitWrites ==
    LET step == purchase.currentStep
        Has(type) == type \in papers.docs
    IN  CASE step = "PV" -> { << Require("PV") >> \o AskApproval("PV") }
          [] step = "BC" /\ Has("PURCHASE_ORDER") -> { AskApproval("BC") }
          [] step = "DAP" /\ Has("OTHER/DAP") -> { AskApproval("DAP") }
          [] step \in {"BR", "INVOICE", "PROOF_OF_PAYMENT"}
                /\ Has(DocTypeOf[step]) -> { EnterNext(step) }
          [] OTHER -> {}

SubmitForValidation(r) ==
    /\ Starts(r, "submitForValidation")
    /\ purchase.currentStep \in FlowSteps => FlowsLeft
    /\ \E w \in SubmitWrites : Runs(r, "submitForValidation", w)

-----------------------------------------------------------------------------
(* AttachmentService.                                                      *)

\* Of a type only the presence is kept, so a second attachment of a type is
\* not added here.
CreateAttachment(r) ==
    /\ Starts(r, "createAttachment")
    /\ \/ \E type \in DocTypes \ papers.docs :
            /\ type = "PURCHASE_ORDER" => purchase.currentStep = "BC"
            /\ Runs(r, "createAttachment", << AddDoc(type) >>)
       \/ /\ papers.quotes < MaxQuotes
          /\ Runs(r, "createAttachment", << AddQuotes(1) >>)

DeleteAttachment(r) ==
    /\ Starts(r, "deleteAttachment")
    /\ \/ \E type \in papers.docs :
            Runs(r, "deleteAttachment", << DropDocs(type) >>)
       \/ papers.quotes > 0 /\ Runs(r, "deleteAttachment", << DropQuote >>)

DocumentsNext(r) ==
    \/ UploadBC(r)
    \/ UploadDocument(r)
    \/ SubmitDocument(r)
    \/ SubmitForValidation(r)
    \/ CreateAttachment(r)
    \/ DeleteAttachment(r)
=============================================================================
