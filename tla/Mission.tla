------------------------------- MODULE Mission -------------------------------
(***************************************************************************)
(* Missions ("déplacements"): the request, the vehicle, the status table   *)
(* of the fleet desk, the purchase of a rental, and the expense report     *)
(* ("liquidation") with the decisions of its three validators.             *)
(*                                                                         *)
(* Only submit, resubmit, decide and triggerDA use a transaction, and each *)
(* of them checks the mission before it begins.                            *)
(***************************************************************************)
EXTENDS PurchaseNumbers, ThursdayDeadline

CONSTANTS
    Missions,     \* ids of missions
    Vehicles      \* the active vehicles

ASSUME MissionAssumption ==
    /\ Missions \subseteq Origins
    /\ None \notin Vehicles

VARIABLE missions

Statuses ==
    {"EN_ATTENTE", "VEHICULE_ATTRIBUE", "EN_ATTENTE_LOCATION", "CONFIRMEE",
     "EN_COURS", "LIQUIDEE", "LIQUIDATION_VALIDEE", "LIQUIDATION_REJETEE",
     "REFUSEE", "ANNULEE"}

Validators == {"DEMANDEUR", "OM", "CFO"}
Votes == {"EN_ATTENTE", "VALIDEE", "REJETEE"}

\* A mission whose status is None does not exist yet.  report holds the rows
\* of the validators, None before a liquidation is submitted; requestor says
\* whether the user who asked still exists; createdAt and bypass are what the
\* deadline was checked with.
MissionRow ==
    [status : Statuses \cup {None}, number : Nat, depart : Nat, retour : Nat,
     vehicle : Vehicles \cup {None}, requestor : BOOLEAN,
     report : [Validators -> Votes] \cup {None}, createdAt : Nat, bypass : BOOLEAN]

ASSUME NullAssumption == None \notin Statuses /\ None \notin [Validators -> Votes]

Dates == [depart : Hours, retour : Nat, now : Nat]

NoMission ==
    [status |-> None, number |-> 0, depart |-> 0, retour |-> 0,
     vehicle |-> None, requestor |-> TRUE, report |-> None,
     createdAt |-> 0, bypass |-> FALSE]

Actors == [role : {"DEMANDEUR", "OM", "CFO", "GESTIONNAIRE_PARC", "ADMIN"},
           author : BOOLEAN]

\* The roles each endpoint asks for; cancel asks for none.
Desk == {"GESTIONNAIRE_PARC", "ADMIN"}
Callers ==
    [create |-> {"DEMANDEUR", "ADMIN"}, updateStatus |-> Desk,
     assignVehicle |-> Desk, confirm |-> Desk, triggerDA |-> Desk,
     submit |-> {"DEMANDEUR"} \cup Desk,
     decide |-> {"DEMANDEUR", "OM", "CFO", "ADMIN"},
     resubmit |-> {"DEMANDEUR", "ADMIN"}]

\* What a handler has still to do with the mission it has read.
MissionWork ==
    [do : {"createMission"}, mission : Missions, number : Nat, depart : Nat, retour : Nat,
     createdAt : Nat, bypass : BOOLEAN]
    \cup [do : {"setStatus"}, mission : Missions,
          status : Statuses \ {"LIQUIDATION_VALIDEE", "LIQUIDATION_REJETEE"}]
    \cup [do : {"assignVehicle"}, mission : Missions, vehicle : Vehicles]
    \cup [do : {"submit", "resubmit"}, mission : Missions]
    \cup [do : {"readRows"}, mission : Missions, role : Validators,
          vote : Votes \ {"EN_ATTENTE"}, seen : Statuses]
    \cup [do : {"decide"}, mission : Missions, role : Validators,
          vote : Votes \ {"EN_ATTENTE"},
          status : {"LIQUIDATION_VALIDEE", "LIQUIDATION_REJETEE", None}]

MissionCalled(r, endpoint) == Free(r, endpoint) /\ UNCHANGED << missions, purchases, link >>

\* The row a handler finds, and the write it goes on to.
Found(m, statuses) == missions[m].status \in statuses
Write(r, do, m) == Await(r, [do |-> do, mission |-> m])
WriteStatus(r, m, status) ==
    Await(r, [do |-> "setStatus", mission |-> m, status |-> status])

-----------------------------------------------------------------------------
(* The request of a mission.                                               *)

Existing == {m \in Missions : missions[m].status # None}

\* Mutant of NextMissionNumber: the first reference is 0.
NumberFromZero == Cardinality(Existing)

NextMissionNumber == Cardinality(Existing) + 1

\* The dates of the voyage and the hour of the request are the scene's.
CreateMission(r, m) ==
    /\ MissionCalled(r, "create")
    /\ missions[m].status = None
    /\ \E d \in scene.dates, a \in Actors, wanted \in BOOLEAN :
        LET bypass == a.role = "ADMIN" /\ wanted
        IN  /\ a.role \in Callers.create
            /\ d.retour >= d.depart
            /\ bypass \/ ~IsAfterDeadline(d.depart, d.now)
            /\ Await(r, [do |-> "createMission", mission |-> m,
                         number |-> NextMissionNumber,
                         depart |-> d.depart, retour |-> d.retour,
                         createdAt |-> d.now, bypass |-> bypass])

\* The reference is unique: if it is taken meanwhile the creation fails.
InsertMission(r) ==
    LET new == req[r]
    IN  /\ new.do = "createMission"
        /\ IF missions[new.mission].status # None
              \/ \E m \in Existing : missions[m].number = new.number
           THEN UNCHANGED missions
           ELSE missions' = [missions EXCEPT ![new.mission] =
                    [NoMission EXCEPT !.status = "EN_ATTENTE", !.number = new.number,
                                      !.depart = new.depart, !.retour = new.retour,
                                      !.createdAt = new.createdAt, !.bypass = new.bypass]]
        /\ Done(r)
        /\ UNCHANGED << purchases, link >>

Cancel(r, m) ==
    /\ MissionCalled(r, "cancel")
    /\ Found(m, Statuses \ {"REFUSEE", "LIQUIDEE", "ANNULEE"})
    /\ \E a \in Actors :
        IF Found(m, {"CONFIRMEE", "EN_COURS"}) THEN a.role = "ADMIN"
        ELSE a.role \in Desk \/ (a.author /\ missions[m].requestor)
    /\ WriteStatus(r, m, "ANNULEE")

\* The user who asked is deleted; the foreign key becomes null.
DeleteRequestor(r, m) ==
    /\ Free(r, "deleteUser")
    /\ missions[m].status # None /\ missions[m].requestor
    /\ missions' = [missions EXCEPT ![m].requestor = FALSE]
    /\ UNCHANGED << req, purchases, link >>

-----------------------------------------------------------------------------
(* The fleet desk.                                                         *)

Transitions(status) ==
    CASE status = "EN_ATTENTE" ->
            {"VEHICULE_ATTRIBUE", "EN_ATTENTE_LOCATION", "REFUSEE", "ANNULEE"}
      [] status = "EN_ATTENTE_LOCATION" -> {"VEHICULE_ATTRIBUE", "REFUSEE", "ANNULEE"}
      [] status = "VEHICULE_ATTRIBUE" -> {"CONFIRMEE", "EN_ATTENTE", "ANNULEE"}
      [] status = "CONFIRMEE" -> {"EN_COURS", "ANNULEE"}
      [] status = "EN_COURS" -> {"LIQUIDEE"}
      [] OTHER -> {}

UpdateStatus(r, m) ==
    /\ MissionCalled(r, "updateStatus")
    /\ \E status \in Transitions(missions[m].status) : WriteStatus(r, m, status)

\* The missions that hold a vehicle, and those that clash with m over v.
Booked == {"VEHICULE_ATTRIBUE", "CONFIRMEE", "EN_COURS"}

\* Mutant of VehicleConflict: only the missions that wait to be confirmed.
ConflictUnconfirmed(m, v) ==
    {n \in Missions \ {m} :
        /\ missions[n].vehicle = v /\ missions[n].status = "VEHICULE_ATTRIBUE"
        /\ missions[n].depart < missions[m].retour
        /\ missions[n].retour > missions[m].depart}

VehicleConflict(m, v) ==
    {n \in Missions \ {m} :
        /\ missions[n].vehicle = v /\ missions[n].status \in Booked
        /\ missions[n].depart < missions[m].retour
        /\ missions[n].retour > missions[m].depart}

\* The status of the mission is not looked at.
AssignVehicle(r, m) ==
    /\ MissionCalled(r, "assignVehicle")
    /\ missions[m].status # None
    /\ \E v \in Vehicles :
        /\ VehicleConflict(m, v) = {}
        /\ Await(r, [do |-> "assignVehicle", mission |-> m, vehicle |-> v])

Confirm(r, m) ==
    /\ MissionCalled(r, "confirm")
    /\ Found(m, {"VEHICULE_ATTRIBUE"})
    /\ WriteStatus(r, m, "CONFIRMEE")

\* Nor is it here: the purchase sends the mission back to EN_ATTENTE_LOCATION.
TriggerDA(r, m) ==
    /\ Free(r, "triggerDA")
    /\ missions[m].status # None
    /\ CheckLink(r, m)
    /\ UNCHANGED missions

InsertRental(r) ==
    /\ InsertPurchase(r)
    /\ missions' = IF Taken(r) \/ req[r].origin \notin Missions THEN missions
                   ELSE [missions EXCEPT ![req[r].origin].status = "EN_ATTENTE_LOCATION"]

-----------------------------------------------------------------------------
(* The expense report.                                                     *)

BlankReport == [v \in Validators |-> "EN_ATTENTE"]
HasRejection(report) == \E v \in Validators : report[v] = "REJETEE"
AllValidated(report) == \A v \in Validators : report[v] = "VALIDEE"

Submit(r, m) ==
    /\ MissionCalled(r, "submit")
    /\ Found(m, {"CONFIRMEE", "EN_COURS"})
    /\ missions[m].report = None
    /\ Write(r, "submit", m)

Resubmit(r, m) ==
    /\ MissionCalled(r, "resubmit")
    /\ missions[m].status # None /\ missions[m].report # None
    /\ HasRejection(missions[m].report)
    /\ \E a \in Actors :
        /\ a.role \in Callers.resubmit
        /\ a.role = "ADMIN" \/ (a.author /\ missions[m].requestor)
    /\ Write(r, "resubmit", m)

\* Which row a user decides, and whether he may: an administrator names the
\* row, the others have their own; DEMANDEUR is the author, if he still exists.
TargetRoles(a) == IF a.role = "ADMIN" THEN Validators ELSE {a.role} \cap Validators

CanDecide(a, v, m) ==
    /\ a.role \in Callers.decide /\ v \in TargetRoles(a)
    /\ v = "DEMANDEUR" => missions[m].requestor /\ (a.role = "ADMIN" \/ a.author)

\* The mission is read before the transaction and the rows in it.
Decide(r, m) ==
    /\ MissionCalled(r, "decide")
    /\ Found(m, Statuses \ {"ANNULEE", "REFUSEE"})
    /\ missions[m].report # None
    /\ \E a \in Actors, v \in Validators, vote \in Votes \ {"EN_ATTENTE"} :
        /\ CanDecide(a, v, m)
        /\ Await(r, [do |-> "readRows", mission |-> m, role |-> v, vote |-> vote,
                     seen |-> missions[m].status])

\* Mutants of Outcome: the vote is written as the status; nobody is waited for
\* who has not voted.
OutcomeMisnamed(report, seen) ==
    IF HasRejection(report) THEN "REJETEE"
    ELSE IF AllValidated(report) THEN "VALIDEE" ELSE None

OutcomeEarly(report, seen) ==
    IF HasRejection(report) THEN "LIQUIDATION_REJETEE"
    ELSE IF \E v \in Validators : report[v] = "VALIDEE" THEN "LIQUIDATION_VALIDEE" ELSE None

\* The mission's next status is computed from the rows as they are read here.
Outcome(report, seen) ==
    IF HasRejection(report) /\ seen # "LIQUIDATION_REJETEE" THEN "LIQUIDATION_REJETEE"
    ELSE IF AllValidated(report) THEN "LIQUIDATION_VALIDEE" ELSE None

\* Mutant of ReadRows: a row can be decided again.
ReadRowsAgain(r) ==
    LET w == req[r]
        rows == missions[w.mission].report
    IN  /\ w.do = "readRows"
        /\ Await(r, [do |-> "decide", mission |-> w.mission, role |-> w.role, vote |-> w.vote,
                     status |-> Outcome([rows EXCEPT ![w.role] = w.vote], w.seen)])
        /\ UNCHANGED << missions, purchases, link >>

ReadRows(r) ==
    LET w == req[r]
        rows == missions[w.mission].report
    IN  /\ w.do = "readRows"
        /\ rows[w.role] = "EN_ATTENTE"
        /\ Await(r, [do |-> "decide", mission |-> w.mission, role |-> w.role, vote |-> w.vote,
                     status |-> Outcome([rows EXCEPT ![w.role] = w.vote], w.seen)])
        /\ UNCHANGED << missions, purchases, link >>

\* The row was decided by somebody else meanwhile: the handler throws.
AlreadyDecided(r) ==
    /\ req[r].do = "readRows"
    /\ missions[req[r].mission].report[req[r].role] # "EN_ATTENTE"
    /\ Done(r)
    /\ UNCHANGED << missions, purchases, link >>

-----------------------------------------------------------------------------
(* What the handlers write to the row they have read: by id, whatever has  *)
(* become of it.                                                           *)

Written(mission, w) ==
    CASE w.do = "setStatus" -> [mission EXCEPT !.status = w.status]
      [] w.do = "assignVehicle" ->
            [mission EXCEPT !.status = "VEHICULE_ATTRIBUE", !.vehicle = w.vehicle]
      [] w.do = "submit" -> \* unless another report was created meanwhile
            IF mission.report # None THEN mission
            ELSE [mission EXCEPT !.status = "LIQUIDEE", !.report = BlankReport]
      [] w.do = "resubmit" ->
            [mission EXCEPT !.status = "LIQUIDEE", !.report = BlankReport]
      [] w.do = "decide" ->
            [mission EXCEPT !.report[w.role] = w.vote,
                            !.status = IF w.status = None THEN @ ELSE w.status]

WriteMission(r) ==
    /\ req[r].do \in {"setStatus", "assignVehicle", "submit", "resubmit", "decide"}
    /\ missions' = [missions EXCEPT ![req[r].mission] = Written(@, req[r])]
    /\ Done(r)
    /\ UNCHANGED << purchases, link >>

-----------------------------------------------------------------------------
MissionInit == missions \in [Missions -> {NoMission}] /\ NumbersInit

MissionNext(r) ==
    \/ \E m \in Missions \cap scene.rows :
        \/ CreateMission(r, m) \/ Cancel(r, m) \/ DeleteRequestor(r, m)
        \/ UpdateStatus(r, m) \/ AssignVehicle(r, m) \/ Confirm(r, m) \/ TriggerDA(r, m)
        \/ Submit(r, m) \/ Resubmit(r, m) \/ Decide(r, m)
    \/ InsertMission(r) \/ ReadRows(r) \/ AlreadyDecided(r) \/ WriteMission(r) \/ InsertRental(r)
    \/ CountPurchases(r) /\ UNCHANGED missions
    \/ NumbersNext(r) /\ UNCHANGED missions

=============================================================================
