----------------------------- MODULE BackOffice -----------------------------
(***************************************************************************)
(* The parts of the back office side by side, on the same requests.        *)
(***************************************************************************)
EXTENDS Dashboards, Tickets, ItStock, PdfSigning, Leases, PvSelection, Functions

CONSTANT Scenes    \* the scenes a behaviour may be about

\* A scene starts with the tables that uploads and activations leave behind,
\* and its users enter what the DTOs let through.
ASSUME ScenesAssumption ==
    \A s \in Scenes :
        /\ IsScene(s)
        /\ StartInForce(s.tables) /\ s.csv \subseteq Seq(Line)
        /\ s.uploads \subseteq UploadedFile
        /\ s.terms \subseteq LeaseTerms /\ \A patch \in s.patches : IsPatch(patch)
        /\ s.amounts \subseteq Nat /\ s.months \subseteq Nat
        /\ s.suppliers \subseteq Seq(Seq(Articles)) /\ s.items \subseteq Seq(Articles)

numberVars == << purchases, link >>
stockVars == << assets, attributions >>
accountVars == << users, tokens >>
leaseVars == << leases, amendments, payments, month >>
vars ==
    << scene, req, numberVars, tables, tickets, stockVars, accountVars, fileVars,
       signingVars, leaseVars, pvVars >>

Init ==
    /\ scene \in Scenes
    /\ req = [r \in Requests |-> Idle]
    /\ BudgetInit /\ TicketsInit /\ StockInit
    /\ AccountsInit /\ FilesInit /\ SigningInit /\ LeasesInit /\ PvInit

\* The parts that the steps of each part leave alone.
BudgetStep(r) ==
    /\ BudgetNext(r)
    /\ UNCHANGED << numberVars, tickets, stockVars, accountVars, fileVars, signingVars, leaseVars,
                    pvVars >>
TicketsStep(r) ==
    /\ TicketsNext(r)
    /\ UNCHANGED << tables, stockVars, accountVars, fileVars, signingVars, leaseVars, pvVars >>
StockStep(r) ==
    /\ StockNext(r)
    /\ UNCHANGED << tables, tickets, accountVars, fileVars, signingVars, leaseVars, pvVars >>
AccountsStep(r) ==
    /\ \/ AccountsNext(r) /\ UNCHANGED fileVars
       \/ DeleteUserAndFiles(r)
       \/ FilesNext(r) /\ UNCHANGED accountVars
    /\ UNCHANGED << numberVars, tables, tickets, stockVars, signingVars, leaseVars, pvVars >>
SigningStep ==
    /\ SigningNext
    /\ UNCHANGED << numberVars, tables, tickets, stockVars, accountVars, fileVars, leaseVars,
                    pvVars >>
LeasesStep(r) ==
    /\ LeasesNext(r)
    /\ UNCHANGED << numberVars, tables, tickets, stockVars, accountVars, fileVars, signingVars,
                    pvVars >>
PvStep(r) ==
    /\ PvNext(r)
    /\ UNCHANGED << numberVars, tables, tickets, stockVars, accountVars, fileVars, signingVars,
                    leaseVars >>
\* A report changes no row; a call that fails ends its request.
OtherStep(r) ==
    /\ ReportsNext(r) \/ ("failure" \in scene.endpoints /\ Abandon(r))
    /\ UNCHANGED << numberVars, tables, tickets, stockVars, accountVars, fileVars,
                    signingVars, leaseVars, pvVars >>

Next ==
    /\ \/ \E r \in Requests :
            \/ BudgetStep(r) \/ TicketsStep(r) \/ StockStep(r) \/ AccountsStep(r)
            \/ LeasesStep(r) \/ PvStep(r) \/ OtherStep(r)
       \/ SigningStep
    /\ UNCHANGED scene

Spec == Init /\ [][Next]_vars

\* The worker of the signing queue goes on as long as there are jobs, and a
\* request for a signature is not left half way.  Nobody need ask for one.
Fairness ==
    /\ WF_vars(WorkerStep /\ SigningStep /\ UNCHANGED scene)
    /\ \A r \in Requests :
        WF_vars((MarkPending(r) \/ Enqueue(r) \/ WriteJobId(r)) /\ SigningStep /\ UNCHANGED scene)

FairSpec == Spec /\ Fairness

-----------------------------------------------------------------------------
\* One request at a time, and none that fails half way.
Serial == (\A q, r \in scene.requests : q = r) /\ "failure" \notin scene.endpoints

\* Between two requests, none of which the death of the process has cut short.
Quiet ==
    /\ Serial /\ {"die", "optimize"} \cap scene.endpoints = {}
    /\ \A r \in Requests : req[r] = Idle

\* The rows have their types (schema.prisma).
BackOfficeTypeOK ==
    /\ BudgetType /\ NumbersType /\ TicketsType /\ StockType /\ AccountsType
    /\ FilesType /\ SigningType /\ LeasesType /\ PvType
    /\ DOMAIN req = Requests

\* Once a table has been in force, one always is: the activation of another
\* takes effect with the end of the first.  When the activations come one
\* after the other, no two tables are in force. 
TableInForce ==
    /\ (\E i \in DOMAIN tables : ~tables[i].pending) => Active # {}
    /\ Serial => Cardinality(Active) <= 1

\* The references are dense and no two rows share one, whatever creations run
\* at once: no trip, fuel supply, repair, demand or lease is skipped or
\* counted twice.
Dense(numbers, count) == numbers = 1 .. count

NumbersDense ==
    /\ \A family \in {Trips, FuelSupplies, Repairs, Demands} :
        Dense(NumbersOf(family), Cardinality(Filed(family)))
    /\ Dense({leases[l].number : l \in Signed}, Cardinality(Signed))
    /\ Serial => Dense(Versions, Len(tables))

\* What linkedPurchaseId names is a purchase that was made for the row, through
\* concurrent triggers and the deletion of drafts.  When the triggers come one
\* after the other, no row has two purchases.
LinksSound ==
    /\ \A o \in Origins : link[o] # 0 => [number |-> link[o], origin |-> o] \in purchases
    /\ Serial => \A p, q \in purchases : p.origin = q.origin /\ p.origin # None => p = q

\* The counter of an asset never exceeds what its active attributions add up
\* to; when requests come one after the other it is exact, and what is
\* archived has no active attribution.
Attributed(a) ==
    SumFunctionOnSet([i \in DOMAIN attributions |-> attributions[i].quantity], ActiveOf(a))

StockSound ==
    \A a \in Assets : assets[a] # None =>
        /\ assets[a].quantiteAttribuee <= Attributed(a)
        /\ Serial =>
            /\ assets[a].quantiteAttribuee = Attributed(a)
            /\ assets[a].archived => ActiveOf(a) = {}

\* Every token belongs to a user that exists.  When requests come one after
\* the other, between two of them a session has at most one token that can be
\* exchanged, and none was opened under a password that has been changed.
SessionsSound ==
    /\ \A i \in DOMAIN tokens : tokens[i] # None => Exists(tokens[i].user)
    /\ Quiet => \A u \in Users : \A i, j \in Live(u) :
        /\ tokens[i].session = tokens[j].session => i = j
        /\ tokens[i].password = users[u].password

\* A file that was stored for one purpose is there as long as what it was
\* stored for.  It may go when something else that shares it is deleted, a
\* photo of another vehicle or a specimen, or with the user who stored it.
\* A document of a vehicle survives the deletion of the photo it shares.
Shared(content) ==
    \E x, y \in scene.uploads :
        /\ x.content = content /\ y.content = content
        /\ \/ x.as = "specimen" /\ y.as # "specimen"
           \/ x.as = "photo" /\ y.as = "photo" /\ x.on # y.on

OneToOne ==
    /\ Serial /\ "removeUser" \notin scene.endpoints
    /\ \A x \in scene.uploads : ~Shared(x.content)

FilesKept ==
    /\ \A u \in Users : Serial => Cardinality(ActiveSpecimens(u)) <= 1
    /\ \A v \in Vehicles, type \in DocumentTypes :
        LET all == {d \in DOMAIN documents : documents[d].vehicle = v /\ documents[d].type = type}
        IN  /\ all # {} => ActiveDocuments(v, type) # {}
            /\ Serial => Cardinality(ActiveDocuments(v, type)) <= 1
    /\ OneToOne =>
        /\ \A d \in DOMAIN documents : documents[d].file # 0
        /\ \A v \in Vehicles : \A f \in vehicles[v].photos : Stored(f)

\* A signature is put on the version before it, none is lost, and without a
\* death of the process each job signs and validates once.
Over == jobCount - Len(queue) + (IF At("validate") \/ At("end") THEN 1 ELSE 0)

SignaturesStack ==
    /\ \A p \in Papers :
        LET versions == papers[p].versions
        IN  /\ \A i \in DOMAIN versions : versions[i].base = i - 1
            /\ papers[p].validated <= Len(versions)
            /\ deaths = 0 /\ worker = None => papers[p].validated = Len(versions)
    /\ deaths = 0 => SumFunction([p \in Papers |-> Len(papers[p].versions)]) <= Over

\* A paper that waits for its signature gets it, or is told that it failed, if
\* the process dies once at most: unless the request that asked for it ended
\* before the job was queued.
NotQueued(p) ==
    /\ papers[p].status = "PENDING"
    /\ deaths > 0 \/ "failure" \in scene.endpoints
    /\ \A r \in Requests : req[r].do = "enqueue" => req[r].paper # p
    /\ \A i \in DOMAIN queue : queue[i].paper # p

SigningEnds ==
    \A p \in Papers :
        papers[p].status \in {"PENDING", "PROCESSING"} ~>
            (papers[p].status \in {"DONE", "FAILED"} \/ NotQueued(p))

\* The rent of a lease is what its last amendment says, unless it was patched
\* since, whatever runs at once.  When requests come one after the other, each
\* indexation starts from the rent before it, through repeated runs of the job
\* as well.  The end is after the beginning, and the duration is the months
\* from one to the other, unless patches set the dates one at a time.
AmendmentsOf(l) ==
    {i \in DOMAIN amendments : amendments[i].lease = l /\ amendments[i].nouveauMontant # 0}
Before(i) == {j \in AmendmentsOf(amendments[i].lease) : j < i}
LatestOf(S) == CHOOSE i \in S : \A j \in S : j <= i

Patching(columns) == \E patch \in scene.patches : DOMAIN patch \cap columns # {}
DatesTogether ==
    \A patch \in scene.patches :
        DOMAIN patch \cap {"dateDebut", "dateFin"} # {} => BothDates(patch)

BasedOnRent(i) ==
    Before(i) # {} => amendments[i].base = amendments[LatestOf(Before(i))].nouveauMontant

Indexations == {i \in DOMAIN amendments : amendments[i].kind = "indexation"}

LeaseHistory ==
    /\ \A l \in Signed :
        /\ ~Patching({"montantMensuel"}) /\ AmendmentsOf(l) # {} =>
            leases[l].montantMensuel = amendments[LatestOf(AmendmentsOf(l))].nouveauMontant
        /\ DatesTogether =>
            LET debut == leases[l].dateDebut
                fin == leases[l].dateFin
            IN  /\ After(fin, debut)
                /\ 12 * debut.year + debut.month + leases[l].dureeInitialeMois
                        = 12 * fin.year + fin.month
    /\ Serial /\ ~Patching({"montantMensuel"}) => \A i \in Indexations : BasedOnRent(i)

\* As long as a PV has its workflow of signatures, what it shows as offered and
\* selected is what was submitted.
SubmissionStands == "PV" \in dossier.flows => SelectedItems = submission

\* It is so when requests come one after the other and none is cut short,
\* through change requests, revisions and new submissions, unless a derogation
\* is left open from QR.
PvSettled ==
    Serial /\ {"validateDerogation", "die", "optimize"} \cap scene.endpoints = {} =>
        SubmissionStands

\* The figures of the reports are those of their definitions: rounding aside,
\* a volume is split without loss, a mean lies among what it is taken of, half
\* of the delays lie on either side of the median, the depreciation is linear,
\* and the reminder of a vehicle is the worst of its documents'.  The months of
\* a series are the twelve up to a date that is in all of them.
Within(x, y, error) == x - y <= error /\ y - x <= error
SumOf(f, field) == SumFunction([k \in DOMAIN f |-> f[k][field]])
Unsorted(in, out) == \E i, j \in DOMAIN out : i < j /\ out[i].lastUsedAt < out[j].lastUsedAt

ReportExact(of, in, out) ==
    CASE of = "months" -> in.day <= 28 => out = (in.month - 11) .. in.month
      [] of = "submissionDelay" ->
            LET all == {i \in DOMAIN in : in[i].days >= 0}
                half(S) == 2 * Cardinality(S) >= Cardinality(all)
            IN  all # {} =>
                /\ half({i \in all : 10 * in[i].days <= out.median})
                /\ half({i \in all : 10 * in[i].days >= out.median})
                /\ \E i \in all : 10 * in[i].days <= out.avg
                /\ \E i \in all : 10 * in[i].days >= out.avg
                /\ out.compliance = 1000 <=> \A i \in all : in[i].days <= 7
      [] of = "buyerDelay" ->
            /\ SumOf(out, "count") = Cardinality({i \in DOMAIN in : in[i].days >= 0})
            /\ \A c \in DOMAIN out : \E i, j \in DOMAIN in :
                /\ in[i].category = c /\ 10 * in[i].days <= out[c].avg
                /\ in[j].category = c /\ 10 * in[j].days >= out[c].avg
      [] of = "volumeByMarket" ->
            /\ SumOf(out, "total") = SumOf(in, "amount")
            /\ SumOf(out, "count") = Len(in)
            /\ SumOf(in, "amount") > 0 =>
                Within(2 * SumOf(out, "percentage"), 2000, Cardinality(DOMAIN out))
      [] of = "volumeByBuyerRegion" ->
            (\A i \in DOMAIN in : Cardinality(in[i].buyers) = 1) =>
                SumOf(out, "total") = SumOf(in, "amount")
      [] of = "supplierEvaluation" ->
            \A s \in DOMAIN out : \E i, j \in DOMAIN in :
                /\ s \in in[i].suppliers /\ s \in in[j].suppliers
                /\ 10 * in[i].rating <= out[s].global /\ out[s].global <= 10 * in[j].rating
                /\ out[s].compliance \in 0 .. 1000
      [] of = "surveyStatistics" ->
            (\A i \in DOMAIN in : in[i].delivery \in 1 .. 5) =>
                Within(out.delivery * Len(in), 100 * SumOf(in, "delivery"), Len(in))
      [] of = "depreciation" ->
            /\ \A i \in DOMAIN out.rows :
                Within(2 * in.years * out.rows[i], 2 * in.price * (in.years - i), i * in.years)
            /\ in.elapsed >= in.years => 2 * out.vncCourante <= in.years
      [] of = "reminders" ->
            out = IF \E i \in DOMAIN in : in[i] # None /\ in[i] < 0 THEN "EXPIRE"
                  ELSE IF \E i \in DOMAIN in : in[i] # None /\ in[i] <= 20 THEN "BIENTOT"
                  ELSE IF \E i \in DOMAIN in : in[i] = None THEN "INCONNU"
                  ELSE "OK"
      [] of = "myVehicles" ->
            /\ ~Unsorted(in, out)
            /\ \A i, j \in DOMAIN out : i # j => out[i].vehicle # out[j].vehicle
            /\ SumOf(out, "usageCount") = Cardinality({i \in DOMAIN in : Counts(in[i])})

\* Those of the dashboards: each breakdown has every row once, the parts add
\* up to the whole, and a list of the first rows has the most urgent.
Parts(tally, n) == SumFunction(tally) = n
FirstTen(n) == IF n < 10 THEN n ELSE 10
Rows(in) == Cardinality({i \in DOMAIN in : ~in[i].deleted})

DashboardExact(of, in, out) ==
    CASE of = "purchaseCount" ->
            /\ out.validatedBudget <= out.totalBudget
            /\ out.totalValidatedPurchases = out.totalPurchases => out.validatedBudget = 0
            /\ in.admin => out.totalBudget = SumOf(in.rows, "amount")
      [] of = "itDashboard" ->
            /\ Parts(out.parEtat, Len(in)) /\ Parts(out.parCategorie, Len(in))
            /\ SumOf(out.parLocalisation, "count") = Len(in)
            /\ SumOf(out.parLocalisation, "totalPrix") <= out.kpis.valeurTotale
            /\ Len(out.stockCritique) = FirstTen(out.kpis.enRupture)
            /\ (\A i \in DOMAIN in : in[i].elapsed >= 0) =>
                out.vueFinanciere.totalVncCourante <= SumOf(out.parLocalisation, "totalPrix")
            /\ out.vueFinanciere.countAmortis = Cardinality(DOMAIN in) =>
                out.vueFinanciere.totalVncCourante = 0
      [] of = "maintenance" ->
            /\ Parts(out.byStatus, Rows(in)) /\ Parts(out.byUrgency, Rows(in))
            /\ out.avgResolutionDays > 0 => \E i \in DOMAIN in :
                ~in[i].deleted /\ in[i].days # None /\ 10 * in[i].days >= out.avgResolutionDays
      [] of = "fuel" ->
            /\ Parts(out.byStatus, Rows(in)) /\ Parts(out.byTypeCarburant, Rows(in))
            /\ out.totalVolumeLitres <= SumOf(in, "volume")
      [] of = "leases" ->
            /\ FirstTen(out.expirantDans90j) <= Len(out.calendrierEcheances)
            /\ \A i \in DOMAIN out.calendrierEcheances : i <= out.expirantDans90j <=>
                out.calendrierEcheances[i].left <= 90
            /\ out.paiementsEnRetard = 0 => \A i \in DOMAIN in :
                in[i].statut = "ACTIF" => in[i].paid

Dashboard(of) == of \in {"purchaseCount", "itDashboard", "maintenance", "fuel", "leases"}

ReportsExact ==
    \A r \in Requests : req[r].do = "report" =>
        IF Dashboard(req[r].of) THEN DashboardExact(req[r].of, req[r].in, req[r].out)
        ELSE ReportExact(req[r].of, req[r].in, req[r].out)

=============================================================================
