--------------------------- MODULE PurchaseSystem ---------------------------
(***************************************************************************)
(* The purchase and everybody who works on it: the handlers of the         *)
(* validators, the creator and the buyer, run by a set of requests whose   *)
(* database calls interleave.                                              *)
(***************************************************************************)
EXTENDS PurchaseApproval, PurchaseAuthoring, PurchaseSourcing, PurchaseDocuments

Next ==
    \E r \in Requests :
        \/ ApprovalNext(r)
        \/ AuthoringNext(r)
        \/ SourcingNext(r)
        \/ DocumentsNext(r)
        \/ Continue(r)
        \/ Fail(r)

Spec == Init /\ [][Next]_vars

=============================================================================
