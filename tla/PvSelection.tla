---------------------------- MODULE PvSelection ----------------------------
(***************************************************************************)
(* The PV of a purchase ("procès-verbal" of the choice of suppliers): its  *)
(* suppliers, the items each offers and those the buyer selects, beside    *)
(* what the rest of the lifecycle makes of the purchase meanwhile: its     *)
(* step, its status and its workflows.  Any item of this may be changed as *)
(* long as the purchase is published.  No handler uses a transaction.      *)
(***************************************************************************)
EXTENDS Server

CONSTANTS
    Articles,      \* what is to be bought
    MaxOffers,     \* bound: no supplier is added beyond this number
    MaxLines       \* and no item to a supplier beyond this one

VARIABLES
    offers,        \* the suppliers of the PV, each the items it offers;
                   \* None once deleted, and so are its items
    dossier,       \* the purchase
    submission     \* what was selected when the PV was last submitted

Item == [article : Articles, isSelected : BOOLEAN]

\* The step after PV, where the purchase order is signed, and the one after.
Steps == {"PV", "BC", "BR"}
NextStep == [PV |-> "BC", BC |-> "BR"]
Statuses ==
    {"DRAFT", "PUBLISHED", "PENDING_APPROVAL", "CHANGE_REQUESTED", "REJECTED",
     "AWAITING_DOCUMENTS"}
OpenStatuses == {"PUBLISHED", "PENDING_APPROVAL"}

\* flows: those of the workflows of DA, PV and BC that there are.  derogation:
\* one waits for its answer.
Dossier ==
    [pv : BOOLEAN, step : Steps, status : Statuses, flows : SUBSET {"DA", "PV", "BC"},
     derogation : BOOLEAN]

ASSUME NoItemAssumption == None \notin Item

PvType ==
    /\ offers \in Seq(Seq(Item \cup {None}) \cup {None})
    /\ dossier \in Dossier

pvVars == << offers, dossier, submission >>

Offers == {o \in DOMAIN offers : offers[o] # None}
ItemsOf(o) == {i \in DOMAIN offers[o] : offers[o][i] # None}

\* getSelectedItems: per supplier all the items, and which are selected.
SelectedItems == [o \in Offers |-> [i \in ItemsOf(o) |-> offers[o][i]]]

-----------------------------------------------------------------------------
(* PVService.                                                              *)

NewItem(article) == [article |-> article, isSelected |-> FALSE]
NewOffers(suppliers) ==
    [k \in DOMAIN suppliers |-> [i \in DOMAIN suppliers[k] |-> NewItem(suppliers[k][i])]]

SomeSuppliers(r, word) ==
    \E suppliers \in scene.suppliers :
        /\ Len(offers) + Len(suppliers) <= MaxOffers
        /\ Await(r, [do |-> word, suppliers |-> suppliers])

CreatePv(r) ==
    /\ Free(r, "createPv")
    /\ dossier.step = "PV" /\ dossier.status = "PUBLISHED" /\ ~dossier.pv
    /\ SomeSuppliers(r, "createPv")
    /\ UNCHANGED pvVars

\* A purchase has one PV.
InsertPv(r) ==
    /\ req[r].do = "createPv"
    /\ IF dossier.pv THEN UNCHANGED << offers, dossier >>
       ELSE /\ offers' = offers \o NewOffers(req[r].suppliers)
            /\ dossier' = [dossier EXCEPT !.pv = TRUE]
    /\ Done(r)
    /\ UNCHANGED submission

\* Mutant of Editable: any time during the step.
EditableDuringStep == dossier.pv /\ dossier.step = "PV"

\* What the other endpoints check; neither the step nor the workflows are.
Editable == dossier.pv /\ dossier.status = "PUBLISHED"

PvCalled(r, endpoint) == Free(r, endpoint) /\ Editable /\ UNCHANGED pvVars

\* With a new list of suppliers: all are deleted and the new ones created.
UpdatePv(r) == PvCalled(r, "updatePv") /\ SomeSuppliers(r, "deleteSuppliers")

DeleteSuppliers(r) ==
    /\ req[r].do = "deleteSuppliers"
    /\ offers' = [o \in DOMAIN offers |-> None]
    /\ Await(r, [req[r] EXCEPT !.do = "createSuppliers"])
    /\ UNCHANGED << dossier, submission >>

CreateSuppliers(r) ==
    /\ req[r].do = "createSuppliers"
    /\ offers' = offers \o NewOffers(req[r].suppliers)
    /\ Done(r)
    /\ UNCHANGED << dossier, submission >>

\* The items of one supplier are replaced; the list may name an article twice.
AddSupplierItems(r) ==
    /\ PvCalled(r, "addSupplierItems")
    /\ \E o \in Offers, articles \in scene.items :
        /\ Len(offers[o]) + Len(articles) <= MaxLines
        /\ Await(r, [do |-> "deleteItems", offer |-> o, articles |-> articles,
                     left |-> DOMAIN articles])

SetItems(o, items) ==
    /\ offers' = IF o \in Offers THEN [offers EXCEPT ![o] = items] ELSE offers
    /\ UNCHANGED << dossier, submission >>

DeleteItems(r) ==
    LET o == req[r].offer
    IN  /\ req[r].do = "deleteItems"
        /\ SetItems(o, [i \in DOMAIN offers[o] |-> None])
        /\ Await(r, [req[r] EXCEPT !.do = "createItems"])

\* One row per element, in a Promise.all that fails when the supplier is gone.
CreateItem(r) ==
    LET w == req[r]
    IN  /\ w.do = "createItems" /\ w.offer \in Offers
        /\ \E k \in w.left :
            /\ SetItems(w.offer, Append(offers[w.offer], NewItem(w.articles[k])))
            /\ Await(r, [w EXCEPT !.left = @ \ {k}])

ItemsEnd(r) ==
    /\ req[r].do = "createItems"
    /\ req[r].left = {} \/ req[r].offer \notin Offers
    /\ Done(r)
    /\ UNCHANGED pvVars

\* The selection of one supplier is replaced too, in two updates.
SelectSupplierItems(r) ==
    /\ PvCalled(r, "selectItems")
    /\ \E o \in Offers : \E chosen \in SUBSET ItemsOf(o) :
        Await(r, [do |-> "deselect", offer |-> o, chosen |-> chosen])

Marked(o, ids, mark) ==
    [i \in DOMAIN offers[o] |->
        IF i \in ids \cap ItemsOf(o) THEN [offers[o][i] EXCEPT !.isSelected = mark]
        ELSE offers[o][i]]

Deselect(r) ==
    LET o == req[r].offer
    IN  /\ req[r].do = "deselect"
        /\ SetItems(o, Marked(o, ItemsOf(o), FALSE))
        /\ Await(r, [req[r] EXCEPT !.do = "select"])

Select(r) ==
    LET o == req[r].offer
    IN  /\ req[r].do = "select"
        /\ SetItems(o, Marked(o, req[r].chosen, TRUE))
        /\ Done(r)

-----------------------------------------------------------------------------
(* The rest of the lifecycle, as far as the PV and its signatures go: each *)
(* request checks, then has a list of writes to make.  Who signs and which *)
(* papers are needed is in the modules of the purchase; here any decision  *)
(* may be the last, and the purchase order is the paper of the steps after *)
(* the PV.                                                                 *)

Writes(r, endpoint, todo) ==
    /\ Free(r, endpoint)
    /\ Await(r, [do |-> "lifecycle", step |-> dossier.step, todo |-> todo])
    /\ UNCHANGED pvVars

\* Of the status nothing is asked.
SubmitPv(r) ==
    /\ dossier.step = "PV"
    /\ Writes(r, "submitPv", << "requirePv", "createPV", "PENDING_APPROVAL" >>)

Decidable == dossier.status \in OpenStatuses /\ dossier.step \in dossier.flows

Validate(r) ==
    /\ Decidable
    /\ \E todo \in {<< dossier.status >>, << "PUBLISHED", "moveOn" >>} :
        Writes(r, "validate", todo)
Reject(r) == Decidable /\ Writes(r, "reject", << "REJECTED" >>)
RequestChanges(r) == Decidable /\ Writes(r, "requestChanges", << "CHANGE_REQUESTED" >>)

Publish(r) ==
    \/ /\ dossier.status = "CHANGE_REQUESTED"
       /\ Writes(r, "publish", << "dropAll", "createDA", "PUBLISHED" >>)
    \/ dossier.status = "DRAFT" /\ Writes(r, "publish", << "createDA", "PUBLISHED" >>)

UpdateAndRepublish(r) ==
    /\ dossier.status = "CHANGE_REQUESTED"
    /\ Writes(r, "revise", << "DRAFT", "dropAll" >>)

\* Asked for at QR and left open; neither the step nor the status is checked.
ValidateDerogation(r) ==
    /\ dossier.derogation
    /\ \E status \in {"PUBLISHED", "REJECTED"} :
        Writes(r, "validateDerogation", << "closeDerogation", status >>)

UploadBC(r) ==
    /\ dossier.step = "BC" /\ dossier.status \in {"PUBLISHED", "AWAITING_DOCUMENTS"}
    /\ Writes(r, "uploadBC", << "dropBC", "createBC", "PENDING_APPROVAL" >>)

Writing(r, write) == req[r].do = "lifecycle" /\ Head(req[r].todo) = write
GoesOn(r) ==
    IF Len(req[r].todo) = 1 THEN Done(r) ELSE Await(r, [req[r] EXCEPT !.todo = Tail(@)])

RequirePv(r) ==
    /\ Writing(r, "requirePv")
    /\ IF dossier.pv /\ Offers # {} THEN GoesOn(r) ELSE Done(r)
    /\ UNCHANGED pvVars

\* A purchase has one workflow per step: to create a second one fails.
FlowOf == [createDA |-> "DA", createPV |-> "PV", createBC |-> "BC"]
CreateFlow(r) ==
    /\ \E write \in DOMAIN FlowOf :
        /\ Writing(r, write)
        /\ IF FlowOf[write] \in dossier.flows THEN Done(r) /\ UNCHANGED << dossier, submission >>
           ELSE /\ dossier' = [dossier EXCEPT !.flows = @ \cup {FlowOf[write]}]
                /\ submission' = IF write = "createPV" THEN SelectedItems ELSE submission
                /\ GoesOn(r)
    /\ UNCHANGED offers

\* The other writes are on the purchase, or delete workflows.
Written(d, write, step) ==
    CASE write \in Statuses -> [d EXCEPT !.status = write]
      [] write = "moveOn" -> [d EXCEPT !.step = NextStep[step], !.status = "AWAITING_DOCUMENTS"]
      [] write = "closeDerogation" -> [d EXCEPT !.derogation = FALSE]
      [] write = "dropAll" -> [d EXCEPT !.flows = {}]
      [] write = "dropBC" -> [d EXCEPT !.flows = @ \ {"BC"}]

UpdatePurchase(r) ==
    /\ \E write \in Statuses \cup {"moveOn", "closeDerogation", "dropAll", "dropBC"} :
        /\ Writing(r, write)
        /\ dossier' = Written(dossier, write, req[r].step)
    /\ GoesOn(r)
    /\ UNCHANGED << offers, submission >>

-----------------------------------------------------------------------------
\* From the moment the quotes are signed: the purchase is published at PV.
PvInit ==
    /\ offers = << >> /\ submission = None
    /\ dossier = [pv |-> FALSE, step |-> "PV", status |-> "PUBLISHED", flows |-> {"DA"},
                  derogation |-> "validateDerogation" \in scene.endpoints]

PvEdits(r) ==
    \/ CreatePv(r) \/ InsertPv(r)
    \/ UpdatePv(r) \/ DeleteSuppliers(r) \/ CreateSuppliers(r)
    \/ AddSupplierItems(r) \/ DeleteItems(r) \/ CreateItem(r) \/ ItemsEnd(r)
    \/ SelectSupplierItems(r) \/ Deselect(r) \/ Select(r)

PvLifecycle(r) ==
    \/ SubmitPv(r) \/ Validate(r) \/ Reject(r) \/ RequestChanges(r)
    \/ Publish(r) \/ UpdateAndRepublish(r) \/ ValidateDerogation(r) \/ UploadBC(r)
    \/ RequirePv(r) \/ CreateFlow(r) \/ UpdatePurchase(r)

PvNext(r) == PvEdits(r) \/ PvLifecycle(r)

=============================================================================
