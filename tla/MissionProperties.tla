-------------------------- MODULE MissionProperties --------------------------
(***************************************************************************)
(* Missions with their requests, and what is to hold of them.              *)
(***************************************************************************)
EXTENDS Mission

CONSTANT Scenes    \* the scenes a behaviour may be about

ASSUME ScenesAssumption ==
    \A s \in Scenes : IsScene(s) /\ s.dates \subseteq Dates

vars == << scene, req, missions, purchases, link >>

Init ==
    /\ scene \in Scenes
    /\ req = [r \in Requests |-> Idle]
    /\ MissionInit

Next ==
    /\ \E r \in Requests : MissionNext(r)
    /\ UNCHANGED scene

Spec == Init /\ [][Next]_vars

-----------------------------------------------------------------------------
\* The columns have their types (the models of schema.prisma).
MissionTypeOK ==
    /\ missions \in [Missions -> MissionRow]
    /\ NumbersType
    /\ scene \in Scenes
    /\ req \in [Requests -> {Idle} \cup MissionWork \cup NumbersWork]

\* The references in use are 1 .. n: although the count and the insertion are
\* separate calls, a creation that lost the race fails and leaves no gap, so
\* that later creations, which count again, do not collide for ever.
ReferencesDense ==
    {missions[m].number : m \in Existing} = 1 .. Cardinality(Existing)

\* A request made by the ordinary way was made by Thursday of the week before
\* the departure's week, in Madagascar, whatever the year the weeks are
\* counted in (create's isAfterDeadline).
SubmittedInTime ==
    \A m \in Existing :
        LET day == (missions[m].depart + TzOffset) \div 24
            thursdayBefore == day - DayOfWeek(day) - 3
        IN  missions[m].bypass
            \/ (missions[m].createdAt + TzOffset) \div 24 <= thursdayBefore

\* Why these hold, as an inductive invariant of any number of handlers at
\* once: a creation under way passed the deadline check, and its number leaves
\* no gap; every other handler works on a mission that exists, and those that
\* decide on one that has a report.
GoodWork(w) ==
    /\ w.do = "createMission" =>
        /\ w.number \in 1 .. Cardinality(Existing) + 1
        /\ w.depart \in Hours
        /\ w.bypass \/ ~IsAfterDeadline(w.depart, w.createdAt)
    /\ w.do \in {"setStatus", "assignVehicle", "submit", "resubmit", "readRows", "decide"} =>
        w.mission \in Existing
    /\ w.do \in {"readRows", "decide"} => missions[w.mission].report # None
    /\ w.do \in {"countPurchases", "insertPurchase"} /\ w.origin \in Missions =>
        w.origin \in Existing

HandlersStayGood ==
    /\ ReferencesDense
    /\ \A m \in Missions : missions[m] = NoMission \/ m \in Existing
    /\ \A m \in Existing :
        /\ missions[m].depart \in Hours
        /\ missions[m].bypass \/ ~IsAfterDeadline(missions[m].depart, missions[m].createdAt)
    /\ \A r \in Requests : GoodWork(req[r])

\* No vehicle is on two missions that overlap, through assignments,
\* confirmations, cancellations and rentals: findVehicleConflict looks at
\* three of the ten statuses.
NoDoubleBooking ==
    \A m, n \in Missions :
        /\ m # n /\ missions[m].vehicle = missions[n].vehicle
        /\ missions[m].vehicle # None
        /\ missions[m].status \in Booked /\ missions[n].status \in Booked
        => missions[m].retour <= missions[n].depart \/ missions[n].retour <= missions[m].depart

\* However often rentals are triggered and their drafts deleted, a mission has
\* the one purchase its linkedPurchaseId names, or none.
RentalLinked ==
    \A m \in Missions :
        {p.number : p \in {q \in purchases : q.origin = m}}
            = IF link[m] = 0 THEN {} ELSE {link[m]}

\* The status is the verdict of the rows: an accepted report has all its
\* signatures, and a refused one a rejection, without which resubmit, the
\* only way out, would refuse to open it again.
VerdictSound ==
    \A m \in Missions :
        LET mission == missions[m]
        IN  /\ mission.status = "LIQUIDATION_VALIDEE" =>
                mission.report # None /\ AllValidated(mission.report)
            /\ mission.status = "LIQUIDATION_REJETEE" =>
                mission.report # None /\ HasRejection(mission.report)

\* Why the last three hold when handlers run one after the other: what one has
\* found is still so when it writes.
OneAtATime == \A q, r \in scene.requests : q = r

StillSo(w) ==
    LET mission == missions[w.mission]
    IN  /\ w.do = "setStatus" /\ w.status \in Booked /\ "updateStatus" \notin scene.endpoints
            => mission.status \in Booked
        /\ w.do = "assignVehicle" => VehicleConflict(w.mission, w.vehicle) = {}
        /\ w.do = "submit" => mission.report = None
        /\ w.do = "resubmit" => mission.report # None /\ HasRejection(mission.report)
        /\ w.do = "readRows" => w.seen = mission.status
        /\ w.do = "decide" =>
            /\ mission.report[w.role] = "EN_ATTENTE"
            /\ w.status = Outcome([mission.report EXCEPT ![w.role] = w.vote], mission.status)
        /\ w.do \in {"countPurchases", "insertPurchase"} /\ w.origin # None => link[w.origin] = 0

ReadsStand == OneAtATime => \A r \in Requests : StillSo(req[r])

\* The expense report of each mission implements the ballot: whatever the
\* desk does to the mission, decisions, verdicts and resubmissions are those
\* of one vote after the other.
BallotVotes ==
    [m \in Missions |-> [v \in Validators |->
        IF missions[m].report = None \/ missions[m].report[v] = "EN_ATTENTE" THEN "none"
        ELSE IF missions[m].report[v] = "VALIDEE" THEN "yes" ELSE "no"]]

BallotVerdicts ==
    [m \in Missions |->
        IF missions[m].report = None THEN "closed"
        ELSE IF missions[m].status = "LIQUIDATION_VALIDEE" THEN "accepted"
        ELSE IF missions[m].status = "LIQUIDATION_REJETEE" THEN "refused" ELSE "open"]

Ballot == INSTANCE LiquidationBallot WITH
    Reports <- Missions, Voters <- Validators,
    votes <- BallotVotes, verdict <- BallotVerdicts

ImplementsBallot == Ballot!Spec

\* The outcome is on the mission once every validator has accepted and nobody
\* is at work on it; only a cancellation can hide it.
OutcomeRecorded ==
    \A m \in Missions :
        (/\ missions[m].report # None /\ AllValidated(missions[m].report)
         /\ \A r \in Requests : req[r] = Idle)
        => missions[m].status \in {"LIQUIDATION_VALIDEE", "ANNULEE"}

=============================================================================
