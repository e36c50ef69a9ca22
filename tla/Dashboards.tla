----------------------------- MODULE Dashboards -----------------------------
(***************************************************************************)
(* The dashboards: counts and sums over the rows of a table, each computed *)
(* by a query of its own.  With the reports of Reports, they are what the  *)
(* requests of this module ask for.                                        *)
(***************************************************************************)
EXTENDS Reports
LOCAL INSTANCE Functions
LOCAL INSTANCE SequencesExt

CONSTANT Samples    \* what is asked for, each with the rows it reads

\* groupBy: how many rows have each value of a column.
Tally(sample, column) ==
    LET of(value) == {i \in DOMAIN sample : sample[i][column] = value}
    IN  [value \in Range(Values(sample, column)) |-> Cardinality(of(value))]

NotDeleted(sample) == SelectSeq(sample, LAMBDA row : ~row.deleted)
SumOver(sample, column) == Total(Values(sample, column), DOMAIN sample)

-----------------------------------------------------------------------------
\* The purchases and budgets of a user, or of all for an administrator.  What
\* is returned as the number of the validated ones counts the others.
PurchaseCount(in) ==
    LET all == SelectSeq(in.rows, LAMBDA p : in.admin \/ p.mine)
        validated == SelectSeq(all, LAMBDA p : p.status = "VALIDATED")
        urgent == {i \in DOMAIN all : all[i].urgent}
    IN  [totalPurchases |-> Len(all),
         totalValidatedPurchases |-> Len(all) - Len(validated),
         totalBudget |-> SumOver(all, "amount"),
         validatedBudget |-> SumOver(validated, "amount"),
         highestPriorityAmount |->
            IF urgent = {} THEN None
            ELSE all[CHOOSE i \in urgent : \A j \in urgent : j <= i].amount]

-----------------------------------------------------------------------------
\* The IT park.  Stock may be short by any amount: the total of an asset can
\* be set below what is attributed.
Disponible(a) == a.quantiteTotal - a.quantiteAttribuee
EnRupture(a) == Disponible(a) <= a.seuilAlerte

Kpis(park) ==
    [totalAssets |-> Len(park),
     totalStockDisponible |-> SumOver(park, "quantiteTotal") - SumOver(park, "quantiteAttribuee"),
     enRupture |-> Len(SelectSeq(park, EnRupture)),
     valeurTotale |-> Total([i \in DOMAIN park |-> park[i].price * park[i].quantiteTotal],
                            DOMAIN park)]

StockCritique(park) ==
    LET all == SelectSeq(park, EnRupture)
    IN  SubSeq(all, 1, IF Len(all) < 10 THEN Len(all) ELSE 10)

\* One table per row, whatever its quantity, and none for what has no price.
VueFinanciere(park) ==
    LET priced == SelectSeq(park, LAMBDA a : a.price # 0)
        table == [i \in DOMAIN priced |-> ComputeTable(priced[i])]
    IN  [totalVncCourante |-> SumOver(table, "vncCourante"),
         totalDotationAnnuelle |->
            Total([i \in DOMAIN priced |-> Dotation(priced[i])], DOMAIN priced),
         countAmortis |-> Len(SelectSeq(table, LAMBDA t : t.estAmorti))]

\* Here the price of a row counts once.
ParLocalisation(park) ==
    LET of(l) == {i \in DOMAIN park : park[i].location = l}
    IN  [l \in Range(Values(park, "location")) |->
            [count |-> Cardinality(of(l)), totalPrix |-> Total(Values(park, "price"), of(l))]]

ItDashboard(park) ==
    [kpis |-> Kpis(park), parEtat |-> Tally(park, "status"),
     parCategorie |-> Tally(park, "category"), stockCritique |-> StockCritique(park),
     vueFinanciere |-> VueFinanciere(park), parLocalisation |-> ParLocalisation(park)]

-----------------------------------------------------------------------------
\* Maintenance: days is the time a request took, None until it is completed.
MaintenanceStats(sample) ==
    LET rows == NotDeleted(sample)
        resolved == {i \in DOMAIN rows : rows[i].status = "VALIDATED" /\ rows[i].days # None}
    IN  [byStatus |-> Tally(rows, "status"), byUrgency |-> Tally(rows, "urgency"),
         thisMonthCount |-> Len(SelectSeq(rows, LAMBDA row : row.thisMonth)),
         avgResolutionDays |-> Mean(Values(rows, "days"), resolved)]

\* Fuel: every status is there, a type of fuel only if it was asked for.
FuelStats(sample) ==
    LET rows == NotDeleted(sample)
        tally == Tally(rows, "status")
    IN  [byStatus |-> [s \in {"PENDING", "PROCESSED", "CANCELLED"} |->
                        IF s \in DOMAIN tally THEN tally[s] ELSE 0],
         totalVolumeLitres |-> SumOver(rows, "volume"),
         byTypeCarburant |-> Tally(rows, "type")]

\* Leases; left is the days until the end, paid the rent of this month.
LeaseDashboard(sample) ==
    LET active == SelectSeq(sample, LAMBDA l : l.statut = "ACTIF")
        running == SelectSeq(active, LAMBDA l : l.left >= 0)
        ordered == SortSeq(running, LAMBDA l, m : l.left < m.left)
    IN  [totalActifs |-> Len(active),
         expirantDans90j |-> Len(SelectSeq(running, LAMBDA l : l.left <= 90)),
         coutMensuelTotal |-> SumOver(active, "montantMensuel"),
         paiementsEnRetard |-> Len(SelectSeq(active, LAMBDA l : ~l.paid)),
         repartitionParSite |-> Tally(SelectSeq(active, LAMBDA l : l.site # None), "site"),
         calendrierEcheances |->
            SubSeq(ordered, 1, IF Len(ordered) < 10 THEN Len(ordered) ELSE 10)]

-----------------------------------------------------------------------------
Compute(report) ==
    CASE report.of = "months" -> EmptyMonths(report.in)
      [] report.of = "submissionDelay" -> SubmissionDelay(report.in)
      [] report.of = "buyerDelay" -> BuyerDelay(report.in)
      [] report.of = "volumeByMarket" -> VolumeByMarket(report.in)
      [] report.of = "volumeByBuyerRegion" -> VolumeByBuyerRegion(report.in)
      [] report.of = "supplierEvaluation" -> SupplierEvaluation(report.in)
      [] report.of = "surveyStatistics" -> SurveyStatistics(report.in)
      [] report.of = "depreciation" -> ComputeTable(report.in)
      [] report.of = "reminders" ->
            GlobalReminderStatus([i \in DOMAIN report.in |-> ReminderStatus(report.in[i])])
      [] report.of = "myVehicles" -> MyVehicles(report.in)
      [] report.of = "purchaseCount" -> PurchaseCount(report.in)
      [] report.of = "itDashboard" -> ItDashboard(report.in)
      [] report.of = "maintenance" -> MaintenanceStats(report.in)
      [] report.of = "fuel" -> FuelStats(report.in)
      [] report.of = "leases" -> LeaseDashboard(report.in)

\* A report is asked for and, after its reads, answered.
AskReport(r) ==
    /\ Free(r, "report")
    /\ \E report \in Samples :
        Await(r, [do |-> "report", of |-> report.of, in |-> report.in, out |-> Compute(report)])

AnswerReport(r) == req[r].do = "report" /\ Done(r)

ReportsNext(r) == AskReport(r) \/ AnswerReport(r)

=============================================================================
