-------------------------- MODULE PurchaseQueries --------------------------
(***************************************************************************)
(* The worklists: which users are shown the purchase as something they     *)
(* have to do.  The listings read; they never write.                       *)
(***************************************************************************)
EXTENDS PurchaseApproval

Unfinished(s) == Exists(s) /\ ~flows[s].isComplete

\* buildValidatorWhere: some workflow waits for the role, whatever its step
\* and whosever turn it is.  countForValidator counts these.
IsCandidate(role) ==
    /\ purchase.exists
    /\ purchase.status \in OpenStatuses
    /\ \E s \in FlowSteps : Unfinished(s) /\ \E i \in Undecided(flows[s]) :
            flows[s].validators[i].role = role

\* findForValidator: of those, the ones where it is the role's turn at the
\* step of the purchase.
IsListed(role) ==
    /\ IsCandidate(role)
    /\ purchase.currentStep \in FlowSteps
    /\ LET flow == flows[purchase.currentStep]
       IN  /\ Unfinished(purchase.currentStep)
           /\ \E i \in DOMAIN flow.validators :
                IsNext(flow, i) /\ flow.validators[i].role = role

\* findValidatedForQR: what the buyers are to upload quotes for.
OnQuoteDesk ==
    /\ purchase.exists
    /\ purchase.status \in {"PUBLISHED", "AWAITING_DOCUMENTS"}
    /\ purchase.currentStep = "QR"

\* getBuyerWorkspace.
InBuyerWorkspace ==
    /\ purchase.exists
    /\ purchase.status \in OpenStatuses \cup {"AWAITING_DOCUMENTS"}
    /\ purchase.currentStep \in
            {"QR", "PV", "BC", "BR", "INVOICE", "DAP", "PROOF_OF_PAYMENT"}

=============================================================================
