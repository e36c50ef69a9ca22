---------------------------- MODULE MCBackOffice ----------------------------
EXTENDS BackOffice

CONSTANTS r1, r2, c1, c2, d1, t1, t2, f1, m1, m2, i1, i2, a1, u1, u2, x1, x2, v1, v2, p1, p2, l1, l2

Base ==
    [requests |-> {r1}, endpoints |-> {}, rows |-> {}, csv |-> {}, tables |-> << >>,
     uploads |-> {}, terms |-> {}, patches |-> {}, amounts |-> {}, months |-> {},
     suppliers |-> {}, items |-> {}]

TwoRequests(s) == [s EXCEPT !.requests = {r1, r2}]

\* Files of the budget: both codes, one of them, one with a blank line, and
\* three that are refused.
Row(code) == [blank |-> FALSE, valid |-> TRUE, code |-> code, detail |-> d1]
Csv ==
    {<< Row(c1), Row(c2) >>, << [Row(c2) EXCEPT !.blank = TRUE], Row(c1) >>, << >>,
     << Row(c1), Row(c1) >>, << [Row(c1) EXCEPT !.valid = FALSE] >>}
InForce(codes) ==
    [version |-> 1, rows |-> [c \in codes |-> d1], pending |-> FALSE, active |-> TRUE]
Former == [InForce({c1}) EXCEPT !.version = 2, !.active = FALSE]

Budget == [Base EXCEPT !.endpoints = {"uploadBudget", "activateBudget"}, !.csv = Csv]
BudgetRace ==
    TwoRequests([Budget EXCEPT !.tables = << InForce({c1, c2}), Former >>,
                               !.csv = {<< Row(c1), Row(c2) >>}])

\* Tickets and their purchases.
WithBudget == [Base EXCEPT !.tables = << InForce({c1}) >>]
Desk(ids) ==
    [WithBudget EXCEPT !.rows = ids,
        !.endpoints = {"createTicket", "updateTicket", "cancelJourney", "softDelete",
                       "deleteUser", "triggerDA", "createPurchase", "deleteDraft"}]
Numbering ==
    TwoRequests([WithBudget EXCEPT !.rows = {t1, t2, m1, m2, i1, i2},
                                   !.endpoints = {"createTicket"}])
Triggers ==
    TwoRequests([WithBudget EXCEPT !.rows = {m1, i1, a1},
        !.endpoints = {"createTicket", "createAsset", "triggerDA", "deleteDraft"}])

Stock ==
    [WithBudget EXCEPT !.rows = {a1},
        !.endpoints = {"createAsset", "updateAsset", "archiveAsset", "attribute", "return"}]
StockRace == TwoRequests([Stock EXCEPT !.endpoints = (@ \ {"updateAsset"}) \cup {"failure"}])

Accounts ==
    [Base EXCEPT !.rows = {u1, u2},
        !.endpoints = {"createUser", "login", "changePassword", "toggleActive", "removeUser"}]
Sessions ==
    [Accounts EXCEPT !.rows = {u1}, !.endpoints = @ \cup {"refresh", "logout", "logoutAll", "expire"}]
SessionRace == TwoRequests([Accounts EXCEPT !.rows = {u1}, !.endpoints =
        {"createUser", "login", "refresh", "removeUser"}])
PasswordRace == TwoRequests([Accounts EXCEPT !.rows = {u1}, !.endpoints =
        {"createUser", "login", "logout", "changePassword", "failure"}])

\* The park, with a photo that is a document too; two vehicles with one photo.
UploadOf(as, on, content) == [as |-> as, on |-> on, user |-> u1, content |-> content]
ParkOf(uploads) ==
    [Base EXCEPT !.rows = {u1}, !.uploads = uploads,
        !.endpoints = {"createUser", "archiveVehicle", "uploadPhoto", "deletePhoto",
                       "uploadDocument"}]
Park == ParkOf({UploadOf("photo", v1, x1), UploadOf("document", v1, x1),
                UploadOf("photo", v2, x2), UploadOf("document", v2, x2)})
ParkShared == ParkOf({UploadOf("photo", v1, x1), UploadOf("photo", v2, x1)})
ParkRace ==
    TwoRequests([ParkOf({UploadOf("photo", v1, x1), UploadOf("document", v1, x1)})
        EXCEPT !.endpoints = @ \ {"archiveVehicle"}])
Specimens ==
    [Base EXCEPT !.rows = {u1},
        !.uploads = {UploadOf("specimen", u1, x1), UploadOf("specimen", u1, x2),
                     UploadOf("document", v1, x2)},
        !.endpoints = {"createUser", "uploadSpecimen", "activateSpecimen", "removeSpecimen",
                       "uploadDocument", "optimize", "removeUser"}]

Signing ==
    [Specimens EXCEPT !.rows = {u1, p1}, !.uploads = {UploadOf("specimen", u1, x1)},
        !.endpoints = {"createUser", "uploadSpecimen", "removeSpecimen", "signStep", "die"}]
SigningTwo == [Signing EXCEPT !.rows = {u1, p1, p2},
                              !.endpoints = {"createUser", "uploadSpecimen", "signStep", "failure"}]

\* Leases: from a first of February to a last of January, 35 months apart; of
\* February only, of no month; and of no day, which is refused.
Day(y, m, d) == [year |-> y, month |-> m, day |-> d]
YearlyTerms ==
    [dateDebut |-> Day(0, 1, 1), dateFin |-> Day(3, 0, 31), montantMensuel |-> 1000,
     indexationRate |-> 5, indexationMois |-> 2]
Period(debut, fin) == [dateDebut |-> debut, dateFin |-> fin]
Leasing ==
    [Base EXCEPT !.rows = {l1},
        !.endpoints = {"createLease", "updateLease", "archiveLease", "addAmendment",
                       "indexationCron"},
        !.terms = {YearlyTerms, [YearlyTerms EXCEPT !.dateFin = Day(0, 1, 29)],
                   [YearlyTerms EXCEPT !.dateFin = Day(0, 1, 1)]},
        !.patches = {[statut |-> "ACTIF"], Period(Day(0, 6, 15), Day(1, 6, 14)),
                     Period(Day(0, 6, 15), Day(0, 6, 14))},
        !.amounts = {0, 1205}, !.months = {1, 13, 14}]
LeaseRace ==
    TwoRequests([Leasing EXCEPT !.rows = {l1, l2}, !.terms = {YearlyTerms},
        !.endpoints = {"createLease", "updateLease", "addAmendment", "indexationCron", "failure"},
        !.patches = {[statut |-> "ACTIF"]}, !.amounts = {1205}, !.months = {1}])

LeasePayments ==
    [Leasing EXCEPT !.endpoints = {"createLease", "addPayment", "indexationCron"}]

\* The month of the indexation is patched, and the job runs in both months.
LeaseMoved ==
    [Leasing EXCEPT !.endpoints = {"createLease", "updateLease", "indexationCron"},
        !.patches = {[statut |-> "ACTIF"], [indexationMois |-> 3]}, !.months = {1, 2}]

\* A PV, its signatures, change requests and new submissions; a list of items
\* that names an article twice, and two suppliers at once.
Edits == {"createPv", "updatePv", "addSupplierItems", "selectItems"}
Decisions == {"validate", "reject", "requestChanges", "publish", "revise", "uploadBC"}
Sourcing ==
    [Base EXCEPT !.endpoints = Edits \cup {"submitPv"} \cup Decisions,
        !.suppliers = {<< >>, << << c1 >> >>, << << c1 >>, << >> >>}, !.items = {<< c1, c1 >>}]
OneSupplier == [Sourcing EXCEPT !.suppliers = {<< << c1 >> >>}, !.items = {<< c1, c2 >>}]
SourcingRace ==
    TwoRequests([OneSupplier EXCEPT !.items = {<< c2 >>},
        !.endpoints = {"createPv", "updatePv", "addSupplierItems", "submitPv"}])
Derogations ==
    [OneSupplier EXCEPT !.endpoints = Edits \cup {"submitPv", "reject", "validateDerogation"}]

\* A user goes while others work on the account.
Farewell ==
    TwoRequests([ParkOf({UploadOf("photo", v1, x1)}) EXCEPT !.endpoints =
        {"createUser", "changePassword", "uploadPhoto", "removeUser"}])

Reporting == [Base EXCEPT !.endpoints = {"report"}]

AllScenes ==
    {Budget, BudgetRace, Desk({t1, m1}), Desk({f1, i1}), Numbering, Triggers, Stock, StockRace,
     Accounts, Sessions, SessionRace, PasswordRace, Park, ParkShared, ParkRace, Specimens,
     Signing, SigningTwo, Leasing, LeasePayments, LeaseMoved, LeaseRace, Sourcing, SourcingRace,
     Derogations, Farewell, Reporting}

-----------------------------------------------------------------------------
UpTo(n, S) == UNION {[1 .. k -> S] : k \in 0 .. n}
NonEmpty(n, S) == UpTo(n, S) \ {<< >>}
\* About as many rows as a list of the first ten holds, and more, of two kinds.
Many(S) ==
    {[i \in 1 .. n |-> IF i <= k THEN x ELSE y] : n \in {10, 11, 12}, k \in {1, 10, 11},
                                                 x \in S, y \in S}
Of(report, inputs) == {[of |-> report, in |-> in] : in \in inputs}

AllSamples ==
    Of("months", [month : {24306, 24307, 24309}, day : {1, 28, 31}])
    \cup Of("submissionDelay", UpTo(4, [days : {-1, 0, 7, 8}]))
    \cup Of("buyerDelay", UpTo(3, [category : {"travaux", "none"}, days : {-1, 2, 9}]))
    \cup Of("purchaseCount",
            [admin : BOOLEAN, rows : UpTo(2, [mine : BOOLEAN, status : {"VALIDATED", "DRAFT"},
                                             amount : {1, 3}, urgent : BOOLEAN])])
    \cup Of("itDashboard",
            UpTo(2, [status : {"BON"}, category : {"portable", "none"}, location : {"A", "none"},
                     quantiteTotal : {1, 3}, quantiteAttribuee : {2}, seuilAlerte : {0},
                     price : {0, 100}, years : {3}, elapsed : {-1, 1, 4}])
            \cup Many([status : {"BON"}, category : {"none"}, location : {"A"},
                      quantiteTotal : {1, 3}, quantiteAttribuee : {2}, seuilAlerte : {0},
                      price : {100}, years : {3}, elapsed : {1}]))
    \cup Of("maintenance",
            UpTo(2, [status : {"PENDING", "VALIDATED"}, urgency : {"NORMALE", "CRITIQUE"},
                     days : {None, 0, 3}, thisMonth : {TRUE}, deleted : BOOLEAN]))
    \cup Of("fuel",
            UpTo(2, [status : {"PENDING", "PROCESSED", "CANCELLED"}, type : {"GASOIL", "ESSENCE"},
                     volume : {1, 5}, deleted : BOOLEAN]))
    \cup Of("leases",
            UpTo(2, [statut : {"ACTIF", "ARCHIVE"}, left : {-1, 0, 90, 91}, paid : BOOLEAN,
                     montantMensuel : {1000}, site : {None, "A"}])
            \cup Many([statut : {"ACTIF"}, left : {90, 91}, paid : {TRUE},
                      montantMensuel : {1000}, site : {"A"}]))
    \cup Of("volumeByMarket", UpTo(3, [market : {"travaux", "none"}, amount : {0, 1, 2}]))
    \cup Of("volumeByBuyerRegion",
            UpTo(2, [buyers : {{}, {"b1"}, {"b1", "b2"}}, region : {"A", "Autre"}, amount : {1, 2}]))
    \cup Of("supplierEvaluation",
            NonEmpty(2, [suppliers : {{"s1"}, {"s1", "s2"}}, rating : {1, 4}, delivery : {None, 5},
                         filled : {0, 3}]))
    \cup Of("surveyStatistics", UpTo(3, [rating : {1, 5}, delivery : {None, 2, 5}]))
    \cup Of("depreciation", [price : {0, 1, 100, 1000}, years : 1 .. 5, elapsed : -1 .. 6])
    \cup Of("reminders", [1 .. 3 -> {None, -1, 0, 20, 21}])
    \cup Of("myVehicles",
            UpTo(3, {[vehicle |-> v, source |-> "TRIP", status |-> s, date |-> d] :
                        v \in {v1, v2}, s \in {"PENDING", "CANCELLED"}, d \in {1, 2}}
                    \cup {[vehicle |-> v1, source |-> "DEPLACEMENT", status |-> s, date |-> 3] :
                            s \in {"EN_ATTENTE", "CONFIRMEE"}}))
=============================================================================
