------------------------- MODULE PurchaseAuthoring -------------------------
(***************************************************************************)
(* The creator's endpoints on a purchase: its items, its fields, its       *)
(* publication, the revision a validator asked for, its deletion.  The     *)
(* caller is the creator; everybody else is refused without effect.        *)
(*                                                                         *)
(* updateLogistics writes columns that nothing else reads and is left out. *)
(***************************************************************************)
EXTENDS PurchaseState

\* Mutant of Editable: a published purchase can still be changed.
EditableWhilePublished ==
    purchase.status \in {"DRAFT", "CHANGE_REQUESTED", "PUBLISHED"}

Editable == purchase.status \in {"DRAFT", "CHANGE_REQUESTED"}

\* The DTO does not require an item.
ItemLists == Amounts \cup {0}

\* The creates of the new items are one write: their total is what counts.
ReplaceItems(amount) == << DeleteItems, CreateItems(amount) >>

\* The budget is checked here and nowhere else.
AddPurchaseItems(r) ==
    /\ Starts(r, "addPurchaseItems")
    /\ Editable
    /\ \E amount \in ItemLists :
            /\ amount <= BudgetThreshold
            /\ Runs(r, "addPurchaseItems", ReplaceItems(amount))

UpdatePurchaseFields(r) ==
    /\ Starts(r, "updatePurchase")
    /\ Editable
    /\ \E op \in OperationTypes :
            Runs(r, "updatePurchase", << Update(Keep, Keep, Keep, op) >>)

\* The roles are those of the purchase's step, the workflow is always that
\* of step DA; at a step without a rule getRequireValidators throws, after a
\* change request not before the workflows are gone.
PublicationWrites ==
    ( IF purchase.status = "CHANGE_REQUESTED"
      THEN << DeleteFlows(FlowSteps), Update(Keep, Keep, "clear", Keep) >>
      ELSE << >> )
    \o
    ( IF purchase.currentStep \in ConfiguredSteps
      THEN << CreateFlow("DA",
                         RequireValidators(purchase.currentStep,
                                           purchase.operationType,
                                           purchase.amount),
                         TRUE),
              SetStatus("PUBLISHED") >>
      ELSE << >> )

PublishPurchaseForValidation(r) ==
    /\ StartsFlow(r, "publish")
    /\ Editable
    /\ purchase.amount # 0
    /\ Runs(r, "publish", PublicationWrites)

\* Mutants of RevisionWrites: the old workflows are kept; closedAt is not
\* cleared.
RevisionKeepsFlows(op, newItems) ==
    << Update(Keep, "DRAFT", "clear", op) >> \o newItems

RevisionStaysClosed(op, newItems) ==
    << Update(Keep, "DRAFT", Keep, op) >>
    \o newItems
    \o << DeleteFlows(FlowSteps) >>

\* The whole fields are sent, the items only if the caller changes them;
\* they are not checked against the budget.
RevisionWrites(op, newItems) ==
    << Update(Keep, "DRAFT", "clear", op) >>
    \o newItems
    \o << DeleteFlows(FlowSteps) >>

UpdateAndRepublishPurchase(r) ==
    /\ Starts(r, "updateAndRepublish")
    /\ purchase.status = "CHANGE_REQUESTED"
    /\ \E op \in OperationTypes :
       \E newItems \in { << >> } \cup { ReplaceItems(a) : a \in ItemLists } :
            Runs(r, "updateAndRepublish", RevisionWrites(op, newItems))

DeleteDraftPurchase(r) ==
    /\ Starts(r, "deleteDraft")
    /\ purchase.status = "DRAFT"
    /\ Runs(r, "deleteDraft", << DeletePurchase >>)

AuthoringNext(r) ==
    \/ AddPurchaseItems(r)
    \/ UpdatePurchaseFields(r)
    \/ PublishPurchaseForValidation(r)
    \/ UpdateAndRepublishPurchase(r)
    \/ DeleteDraftPurchase(r)
=============================================================================
