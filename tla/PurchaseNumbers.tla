--------------------------- MODULE PurchaseNumbers ---------------------------
(***************************************************************************)
(* How a purchase gets its reference: the number of purchases of the year  *)
(* plus one, counted in one call and inserted in a later one, with a       *)
(* unique key on the reference.  Purchases are created by users and, from  *)
(* a mission, a maintenance request, an IT asset or an IT demand, by a     *)
(* "trigger": a row that has a column linkedPurchaseId.                    *)
(***************************************************************************)
EXTENDS Server

CONSTANTS
    Origins,       \* the rows that can trigger a purchase
    MaxPurchases   \* bound: no purchase beyond this number

ASSUME PurchaseNumbersAssumption == MaxPurchases \in Nat /\ None \notin Origins

VARIABLES
    purchases,   \* the purchases of the year: number and origin (None: a user)
    link         \* linkedPurchaseId of each origin, by number; 0 is null

Purchase == [number : Nat \ {0}, origin : Origins \cup {None}]

NumbersType ==
    /\ purchases \subseteq Purchase
    /\ link \in [Origins -> Nat]

\* What a request that creates a purchase has still to do.
NumbersWork ==
    [do : {"countPurchases"}, origin : Origins]
    \cup [do : {"insertPurchase"}, origin : Origins \cup {None}, number : Nat \ {0}]

NumbersInit == purchases = {} /\ link = [o \in Origins |-> 0]

Numbers == {p.number : p \in purchases}

\* What a handler that counts now will call its purchase.
NextNumber == Cardinality(purchases) + 1

\* Waiting to insert the purchase with the number it has computed.
Insert(origin) == [do |-> "insertPurchase", origin |-> origin, number |-> NextNumber]

CreatePurchase(r) ==
    /\ Free(r, "createPurchase")
    /\ NextNumber <= MaxPurchases
    /\ Await(r, Insert(None))
    /\ UNCHANGED << purchases, link >>

\* Mutant of CheckLink: a row that has a purchase can trigger another.
IgnoreLink(r, o) ==
    /\ Await(r, [do |-> "countPurchases", origin |-> o])
    /\ UNCHANGED << purchases, link >>

\* The guard on the link and, in the transaction that follows it, the count.
CheckLink(r, o) ==
    /\ link[o] = 0
    /\ Await(r, [do |-> "countPurchases", origin |-> o])
    /\ UNCHANGED << purchases, link >>

CountPurchases(r) ==
    /\ req[r].do = "countPurchases"
    /\ NextNumber <= MaxPurchases
    /\ Await(r, Insert(req[r].origin))
    /\ UNCHANGED << purchases, link >>

\* The insertion, with the update of the origin in the same transaction.
\* It fails as a whole if the number is taken.
Taken(r) == req[r].number \in Numbers

InsertPurchase(r) ==
    LET o == req[r].origin
        n == req[r].number
    IN  /\ req[r].do = "insertPurchase"
        /\ purchases' = IF Taken(r) THEN purchases
                        ELSE purchases \cup {[number |-> n, origin |-> o]}
        /\ link' = IF Taken(r) \/ o = None THEN link ELSE [link EXCEPT ![o] = n]
        /\ Done(r)

\* A draft is deleted; the foreign keys set the links to it to null.
DeleteDraft(r) ==
    /\ Free(r, "deleteDraft")
    /\ \E p \in purchases :
        /\ purchases' = purchases \ {p}
        /\ link' = [o \in Origins |-> IF link[o] = p.number THEN 0 ELSE link[o]]
    /\ UNCHANGED req

NumbersNext(r) == CreatePurchase(r) \/ DeleteDraft(r)

=============================================================================
