-------------------------- MODULE PurchaseSourcing --------------------------
(***************************************************************************)
(* The buyer's endpoints of the steps QR and PV: quotes, the derogation    *)
(* from their number, and the PV that compares the suppliers.  The caller  *)
(* is the owning buyer (any buyer where the code asks for no more), and    *)
(* for validateDerogation any user.                                        *)
(*                                                                         *)
(* The price lists and selected items inside a PV are left out: no guard   *)
(* of the lifecycle reads them.                                            *)
(***************************************************************************)
EXTENDS PurchaseState

AtStep(s) == purchase.currentStep = s

StatusIn(s) == purchase.status \in s

EnoughQuotes == papers.quotes >= RequiredQuotes(purchase.amount)

-----------------------------------------------------------------------------
(* Quotes.                                                                 *)

\* uploadQuote sends one quote, uploadMultipleQuotes several.
UploadQuotes(r) ==
    /\ Starts(r, "uploadQuotes")
    /\ AtStep("QR")
    /\ \E n \in 1..(MaxQuotes - papers.quotes) :
            Runs(r, "uploadQuotes",
                 << AddQuotes(n), SetStatus("AWAITING_DOCUMENTS") >>)

\* Any attachment of the purchase can be deleted as a "quote".
RemoveAttachmentWrites ==
    { << DropQuote >> : n \in 1..papers.quotes }
    \cup { << DropDocs(d) >> : d \in papers.docs }

DeleteQuote(r) ==
    /\ Starts(r, "deleteQuote")
    /\ \E w \in RemoveAttachmentWrites : Runs(r, "deleteQuote", w)

\* The check that there are enough quotes is commented out in the code.
SubmitQuotesForValidation(r) ==
    /\ StartsFlow(r, "submitQuotes")
    /\ AtStep("QR")
    /\ StatusIn({"PUBLISHED", "AWAITING_DOCUMENTS"})
    /\ \E useDerogation \in BOOLEAN :
       LET short == useDerogation /\ ~EnoughQuotes
       IN  Runs(r, "submitQuotes",
                (IF short THEN << CreateDerogation("VALIDATED") >> ELSE << >>)
                \o << CreateFlow("QR",
                        RequireValidators("QR", purchase.operationType,
                                          purchase.amount),
                        FALSE),
                      SetStatus(IF short THEN "IN_DEROGATION"
                                         ELSE "PENDING_APPROVAL") >>)

\* No status is checked and none of the QR workflow is looked at.
ValidateQuotesAndProceed(r) ==
    /\ Starts(r, "proceedWithQuotes")
    /\ AtStep("QR")
    /\ EnoughQuotes \/ papers.derogation = "VALIDATED"
    /\ Runs(r, "proceedWithQuotes", << MoveTo("PV", "VALIDATED") >>)

-----------------------------------------------------------------------------
(* The derogation.                                                         *)

RequestQuoteDerogation(r) ==
    /\ Starts(r, "requestDerogation")
    /\ AtStep("QR")
    /\ papers.derogation = "none"
    /\ ~EnoughQuotes
    /\ Runs(r, "requestDerogation",
            << CreateDerogation("PENDING"), SetStatus("IN_DEROGATION") >>)

\* Neither the purchase's step nor its status is checked.
ValidateDerogation(r) ==
    /\ Starts(r, "validateDerogation")
    /\ papers.derogation = "PENDING"
    /\ \/ Runs(r, "validateDerogation",
               << SetDerogation("VALIDATED"), SetStatus("PUBLISHED") >>)
       \/ Runs(r, "validateDerogation",
               << SetDerogation("REJECTED"), Close("REJECTED") >>)

-----------------------------------------------------------------------------
(* The PV.                                                                 *)

SupplierLists == {"empty", "filled"}

CreatePV(r) ==
    /\ Starts(r, "createPV")
    /\ AtStep("PV")
    /\ StatusIn({"PUBLISHED"})
    /\ papers.pv = "none"
    /\ \E suppliers \in SupplierLists :
            Runs(r, "createPV", << CreatePv(suppliers) >>)

\* The suppliers are replaced in two writes.  The step is not checked.
UpdatePV(r) ==
    /\ Starts(r, "updatePV")
    /\ papers.pv # "none"
    /\ StatusIn({"PUBLISHED"})
    /\ \E suppliers \in SupplierLists :
            Runs(r, "updatePV",
                 << SavePv("empty") >>
                 \o IF suppliers = "filled" THEN << SavePv("filled") >>
                                            ELSE << >>)

SourcingNext(r) ==
    \/ UploadQuotes(r)
    \/ DeleteQuote(r)
    \/ SubmitQuotesForValidation(r)
    \/ ValidateQuotesAndProceed(r)
    \/ RequestQuoteDerogation(r)
    \/ ValidateDerogation(r)
    \/ CreatePV(r)
    \/ UpdatePV(r)
=============================================================================
