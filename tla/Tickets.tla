------------------------------ MODULE Tickets ------------------------------
(***************************************************************************)
(* The requests that users file and an administrator treats: trips, fuel   *)
(* supplies, maintenance requests and IT demands.  Each kind numbers its   *)
(* own references.  A maintenance request, an IT demand and an IT asset    *)
(* can trigger a purchase, whose activity code the active budget table     *)
(* must have.                                                              *)
(***************************************************************************)
EXTENDS PurchaseNumbers, BudgetTable

CONSTANTS
    Trips, FuelSupplies, Repairs, Demands,   \* ids, disjoint sets
    Attempts                                 \* how often a repair's number is tried

ASSUME TicketsAssumption ==
    /\ Repairs \cup Demands \subseteq Origins /\ Attempts \in Nat \ {0}
    /\ Trips \cap (FuelSupplies \cup Repairs \cup Demands) = {}
    /\ FuelSupplies \cap (Repairs \cup Demands) = {} /\ Repairs \cap Demands = {}

VARIABLE tickets

Journeys == Trips \cup FuelSupplies
Tickets == Journeys \cup Repairs \cup Demands
Family(t) == CHOOSE f \in {Trips, FuelSupplies, Repairs, Demands} : t \in f

StatusesOf(t) ==
    IF t \in Journeys THEN {"PENDING", "PROCESSED", "CANCELLED"}
    ELSE IF t \in Repairs THEN {"PENDING", "IN_PROGRESS", "VALIDATED", "REJECTED"}
    ELSE {"EN_ATTENTE", "APPROUVEE", "REFUSEE"}

\* Mutant of FirstStatus: that of the other tickets.
FirstStatusOfAll(t) == "PENDING"

FirstStatus(t) == IF t \in Demands THEN "EN_ATTENTE" ELSE "PENDING"

Terminal == {"PROCESSED", "CANCELLED"}

\* status is None until the ticket is created; requestor says whether the
\* user who filed it still exists.
NoTicket == [status |-> None, number |-> 0, requestor |-> TRUE, deleted |-> FALSE]

TicketStatus ==
    {"PENDING", "PROCESSED", "CANCELLED", "IN_PROGRESS", "VALIDATED", "REJECTED",
     "EN_ATTENTE", "APPROUVEE", "REFUSEE"}
TicketRow ==
    [status : TicketStatus \cup {None}, number : Nat, requestor : BOOLEAN, deleted : BOOLEAN]

ASSUME NoStatusAssumption == None \notin TicketStatus

TicketsType ==
    /\ tickets \in [Tickets -> TicketRow]
    /\ \A t \in Tickets : tickets[t].status \in StatusesOf(t) \cup {None}

Filed(family) == {t \in family : tickets[t].status # None}
NumbersOf(family) == {tickets[t].number : t \in Filed(family)}

\* Mutant of AfterLast: the first number is 0.
AfterLastFromZero(used) ==
    IF used = {} THEN 0 ELSE 1 + CHOOSE n \in used : \A k \in used : k <= n

\* Trips and fuel supplies count the year's rows, repairs and demands look for
\* the last reference.
AfterLast(used) == IF used = {} THEN 1 ELSE 1 + CHOOSE n \in used : \A k \in used : k <= n

NextTripNumber == Cardinality(Filed(Trips)) + 1
NextFuelNumber == Cardinality(Filed(FuelSupplies)) + 1
NextRepairNumber == AfterLast(NumbersOf(Repairs))
NextDemandNumber == AfterLast(NumbersOf(Demands))

NextTicketNumber(t) ==
    IF t \in Trips THEN NextTripNumber
    ELSE IF t \in FuelSupplies THEN NextFuelNumber
    ELSE IF t \in Repairs THEN NextRepairNumber
    ELSE NextDemandNumber

-----------------------------------------------------------------------------
TicketCalled(r, endpoint) == Free(r, endpoint) /\ UNCHANGED << tickets, purchases, link >>

NumberIt(r, t, attempt) ==
    Await(r, [do |-> "insertTicket", ticket |-> t, attempt |-> attempt,
              number |-> NextTicketNumber(t)])

FileTicket(r, t) ==
    /\ TicketCalled(r, "createTicket")
    /\ tickets[t].status = None
    /\ NumberIt(r, t, 1)

CreateTrip(r, t) == t \in Trips /\ FileTicket(r, t)
CreateFuelSupply(r, t) == t \in FuelSupplies /\ FileTicket(r, t)
CreateRepair(r, t) == t \in Repairs /\ FileTicket(r, t)
CreateDemand(r, t) == t \in Demands /\ FileTicket(r, t)

\* The reference is unique.  Only the maintenance service tries again.
Collides(r) ==
    \/ tickets[req[r].ticket].status # None
    \/ req[r].number \in NumbersOf(Family(req[r].ticket))

InsertTicket(r) ==
    LET t == req[r].ticket
    IN  /\ req[r].do = "insertTicket" /\ ~Collides(r)
        /\ tickets' = [tickets EXCEPT ![t].status = FirstStatus(t), ![t].number = req[r].number]
        /\ Done(r)
        /\ UNCHANGED << purchases, link >>

RefuseTicket(r) ==
    LET t == req[r].ticket
        again == t \in Repairs /\ req[r].attempt < Attempts /\ tickets[t].status = None
    IN  /\ req[r].do = "insertTicket" /\ Collides(r)
        /\ IF again THEN Await(r, [do |-> "numberTicket", ticket |-> t,
                                   attempt |-> req[r].attempt + 1])
                    ELSE Done(r)
        /\ UNCHANGED << tickets, purchases, link >>

NumberAgain(r) ==
    /\ req[r].do = "numberTicket"
    /\ NumberIt(r, req[r].ticket, req[r].attempt)
    /\ UNCHANGED << tickets, purchases, link >>

WriteTicket(r, t, change) == Await(r, [do |-> "writeTicket", ticket |-> t, change |-> change])

\* The administrator gives a status.  A journey that is settled keeps its own,
\* a repair must change, a demand need not.
GiveStatus(r, t) ==
    /\ TicketCalled(r, "updateTicket")
    /\ tickets[t].status # None
    /\ \E status \in StatusesOf(t) : WriteTicket(r, t, status)

Unsettled(t) == tickets[t].status \notin Terminal

UpdateTripStatus(r, t) == t \in Trips /\ Unsettled(t) /\ GiveStatus(r, t)
UpdateFuelStatus(r, t) == t \in FuelSupplies /\ Unsettled(t) /\ GiveStatus(r, t)
UpdateRepairStatus(r, t) ==
    /\ t \in Repairs /\ ~tickets[t].deleted
    /\ GiveStatus(r, t)
    /\ req'[r].change # tickets[t].status
UpdateDemandStatus(r, t) == t \in Demands /\ GiveStatus(r, t)

CancelJourney(r, t) ==
    /\ TicketCalled(r, "cancelJourney")
    /\ tickets[t].status = "PENDING"
    /\ WriteTicket(r, t, "CANCELLED")

CancelTrip(r, t) == t \in Trips /\ CancelJourney(r, t)
CancelFuelSupply(r, t) == t \in FuelSupplies /\ CancelJourney(r, t)

\* Only by its requestor.
SoftDelete(r, t) ==
    /\ TicketCalled(r, "softDelete")
    /\ t \in Repairs /\ tickets[t].status = "PENDING"
    /\ ~tickets[t].deleted /\ tickets[t].requestor
    /\ WriteTicket(r, t, "delete")

ApplyChange(r) ==
    LET w == req[r]
    IN  /\ w.do = "writeTicket"
        /\ tickets' = [tickets EXCEPT ![w.ticket] =
                IF w.change = "delete" THEN [@ EXCEPT !.deleted = TRUE]
                ELSE [@ EXCEPT !.status = w.change]]
        /\ Done(r)
        /\ UNCHANGED << purchases, link >>

\* The user is deleted; the foreign key becomes null.
DeleteFiler(r, t) ==
    /\ Free(r, "deleteUser")
    /\ tickets[t].status # None /\ tickets[t].requestor
    /\ tickets' = [tickets EXCEPT ![t].requestor = FALSE]
    /\ UNCHANGED << req, purchases, link >>

\* The guards of the triggers, which differ, and then the common part.
Trigger(r, t) ==
    /\ Free(r, "triggerDA")
    /\ tickets[t].status # None
    /\ \E code \in Codes : HasProject(code)
    /\ CheckLink(r, t)
    /\ UNCHANGED tickets

TriggerForRepair(r, t) ==
    /\ t \in Repairs /\ ~tickets[t].deleted /\ tickets[t].requestor
    /\ Trigger(r, t)
TriggerForDemand(r, t) == t \in Demands /\ Trigger(r, t)

-----------------------------------------------------------------------------
TicketsInit == tickets = [t \in Tickets |-> NoTicket] /\ NumbersInit

TicketsNext(r) ==
    \/ \E t \in Tickets \cap scene.rows :
        \/ CreateTrip(r, t) \/ CreateFuelSupply(r, t) \/ CreateRepair(r, t) \/ CreateDemand(r, t)
        \/ UpdateTripStatus(r, t) \/ UpdateFuelStatus(r, t)
        \/ UpdateRepairStatus(r, t) \/ UpdateDemandStatus(r, t)
        \/ CancelTrip(r, t) \/ CancelFuelSupply(r, t) \/ SoftDelete(r, t) \/ DeleteFiler(r, t)
        \/ TriggerForRepair(r, t) \/ TriggerForDemand(r, t)
    \/ InsertTicket(r) \/ RefuseTicket(r) \/ NumberAgain(r) \/ ApplyChange(r)
    \/ (CountPurchases(r) \/ InsertPurchase(r) \/ NumbersNext(r)) /\ UNCHANGED tickets

=============================================================================
