------------------------------ MODULE Reports ------------------------------
(***************************************************************************)
(* What the reports compute from the rows they read: the purchase KPIs,    *)
(* the depreciation of an IT asset, the reminders of a user's vehicles.    *)
(* Amounts are in cents or whole units; a value rounded to one decimal is  *)
(* given in tenths.                                                        *)
(***************************************************************************)
EXTENDS Server, TLC
LOCAL INSTANCE FiniteSetsExt
LOCAL INSTANCE Functions
LOCAL INSTANCE SequencesExt

Total(f, S) == MapThenSumSet(LAMBDA i : f[i], S)
Values(sample, field) == [i \in DOMAIN sample |-> sample[i][field]]

\* round1 of n / d, in tenths.
Round1(n, d) == (20 * n + d) \div (2 * d)
Mean(f, S) == IF S = {} THEN 0 ELSE Round1(Total(f, S), Cardinality(S))

-----------------------------------------------------------------------------
\* The twelve months up to a date: the same day of each month before, which
\* is a day of the month after when the month is too short.
DaysOf(month) == << 31, 28, 31, 30, 31, 30, 31, 31, 30, 31, 30, 31 >>[(month % 12) + 1]
MonthBefore(date, i) ==
    LET month == date.month - i
    IN  IF date.day <= DaysOf(month) THEN month ELSE month + 1
EmptyMonths(date) == {MonthBefore(date, i) : i \in 0 .. 11}

\* KPI 1, from the days between the creation of a purchase and its submission.
TargetDays == 7
Median(sorted) ==
    LET n == Len(sorted)
        mid == n \div 2
    IN  IF n % 2 = 0 THEN Round1(sorted[mid] + sorted[mid + 1], 2)
        ELSE 10 * sorted[mid + 1]

SubmissionDelay(sample) ==
    LET delays == Values(SelectSeq(sample, LAMBDA p : p.days >= 0), "days")
        all == DOMAIN delays
    IN  IF all = {} THEN [avg |-> 0, median |-> 0, compliance |-> 0]
        ELSE [avg |-> Mean(delays, all),
              median |-> Median(SortSeq(delays, <)),
              compliance |-> Round1(100 * Cardinality({i \in all : delays[i] <= TargetDays}),
                                    Cardinality(all))]

\* KPI 2, from the days a buyer took to sign, by category of the purchase.
BuyerDelay(sample) ==
    LET signed == SelectSeq(sample, LAMBDA v : v.days >= 0)
        of(c) == {i \in DOMAIN signed : signed[i].category = c}
    IN  [c \in Range(Values(signed, "category")) |->
            [avg |-> Mean(Values(signed, "days"), of(c)), count |-> Cardinality(of(c))]]

\* KPI 3, the amounts by market; unclassified purchases are a market too.
VolumeByMarket(sample) ==
    LET amounts == Values(sample, "amount")
        total == Total(amounts, DOMAIN sample)
        of(market) == {i \in DOMAIN sample : sample[i].market = market}
    IN  [market \in Range(Values(sample, "market")) |->
            [total |-> Total(amounts, of(market)), count |-> Cardinality(of(market)),
             percentage |-> IF total > 0
                            THEN Round1(100 * Total(amounts, of(market)), total) ELSE 0]]

\* KPI 4, by buyer and region: a purchase counts for every signature of a buyer.
VolumeByBuyerRegion(sample) ==
    LET rows == {row \in (DOMAIN sample) \X UNION {sample[i].buyers : i \in DOMAIN sample} :
                    row[2] \in sample[row[1]].buyers}
        of(b, region) == {row \in rows : row[2] = b /\ sample[row[1]].region = region}
    IN  [key \in {<< row[2], sample[row[1]].region >> : row \in rows} |->
            [total |-> MapThenSumSet(LAMBDA row : sample[row[1]].amount, of(key[1], key[2])),
             count |-> Cardinality(of(key[1], key[2]))]]

\* KPI 5, the surveys of the purchases whose PV names a supplier, retained or
\* not; a rating that was not given does not count.
SupplierEvaluation(sample) ==
    LET of(s) == {i \in DOMAIN sample : s \in sample[i].suppliers}
        given(s) == {i \in of(s) : sample[i].delivery # None}
    IN  [s \in UNION Range(Values(sample, "suppliers")) |->
            [global |-> Mean(Values(sample, "rating"), of(s)),
             delivery |-> Mean(Values(sample, "delivery"), given(s)),
             compliance |-> Round1(100 * Total(Values(sample, "filled"), of(s)),
                                   3 * Cardinality(of(s))),
             count |-> Cardinality(of(s))]]

\* The statistics of the surveys, in hundredths; a rating of 0 is not given.
Average(sample, field) ==
    LET given == {i \in DOMAIN sample : sample[i][field] \notin {None, 0}}
        total == Total(Values(sample, field), given)
    IN  IF given = {} THEN 0
        ELSE (200 * total + Cardinality(given)) \div (2 * Cardinality(given))

SurveyStatistics(sample) ==
    [total |-> Len(sample), rating |-> Average(sample, "rating"),
     delivery |-> Average(sample, "delivery")]

-----------------------------------------------------------------------------
\* computeTable: the yearly allowance is rounded to the cent, a net book value
\* is never negative.
Dotation(asset) == (2 * asset.price + asset.years) \div (2 * asset.years)
Vnc(asset, n) ==
    IF Dotation(asset) * n > asset.price THEN 0 ELSE asset.price - Dotation(asset) * n

ComputeTable(asset) ==
    IF asset.price = 0 THEN [rows |-> << >>, vncCourante |-> 0, estAmorti |-> TRUE]
    ELSE LET n == IF asset.elapsed < asset.years THEN asset.elapsed ELSE asset.years
         IN  [rows |-> [i \in 1 .. asset.years |-> Vnc(asset, i)],
              vncCourante |-> Vnc(asset, n),
              estAmorti |-> Vnc(asset, n) = 0]

-----------------------------------------------------------------------------
\* The reminder of a document, from the days until it expires; None if there
\* is no active document of the type.
ReminderThreshold == 20

\* Mutant of ReminderStatus: the last day of the threshold is still well.
ReminderStatusLate(days) ==
    IF days = None THEN "INCONNU"
    ELSE IF days < 0 THEN "EXPIRE"
    ELSE IF days < ReminderThreshold THEN "BIENTOT"
    ELSE "OK"

ReminderStatus(days) ==
    IF days = None THEN "INCONNU"
    ELSE IF days < 0 THEN "EXPIRE"
    ELSE IF days <= ReminderThreshold THEN "BIENTOT"
    ELSE "OK"

Severity == [OK |-> 0, INCONNU |-> 1, BIENTOT |-> 2, EXPIRE |-> 3]
GlobalReminderStatus(reminders) ==
    FoldLeft(LAMBDA worst, current :
                IF Severity[current] > Severity[worst] THEN current ELSE worst,
             "OK", reminders)

\* The vehicles that a user's trips, missions and supplies used, those last
\* used first.
Counts(use) ==
    CASE use.source = "TRIP" -> use.status # "CANCELLED"
      [] use.source = "CARBURANT" -> use.status # "CANCELLED"
      [] use.source = "DEPLACEMENT" -> use.status \notin {"EN_ATTENTE", "REFUSEE", "ANNULEE"}

MyVehicles(sample) ==
    LET used == {i \in DOMAIN sample : Counts(sample[i])}
        of(v) == {i \in used : sample[i].vehicle = v}
        usage(v) ==
            [vehicle |-> v, usageCount |-> Cardinality(of(v)),
             lastUsedAt |-> Max({sample[i].date : i \in of(v)}),
             sources |-> {sample[i].source : i \in of(v)}]
    IN  SetToSortSeq({usage(sample[i].vehicle) : i \in used},
                     LAMBDA a, b : a.lastUsedAt > b.lastUsedAt)

=============================================================================
