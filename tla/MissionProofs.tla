---------------------------- MODULE MissionProofs ----------------------------
(***************************************************************************)
(* Proofs about missions: their deadline, their references, their expense  *)
(* reports and the purchases they trigger, for any missions, vehicles and  *)
(* requests.                                                               *)
(***************************************************************************)
EXTENDS MissionProperties, NumbersProofs

-----------------------------------------------------------------------------
(* The calendar.                                                           *)

\* Every day from 1970 to 2099 has its year.
LEMMA YearOfDay ==
    ASSUME NEW day \in Nat, day < YearStart(2100)
    PROVE  /\ YearOf(day) \in 1970 .. 2099
           /\ YearStart(YearOf(day)) <= day /\ day < YearStart(YearOf(day) + 1)
<1> DEFINE c == day \div 1461
           r == day % 1461
           k == IF r < 365 THEN 0 ELSE IF r < 730 THEN 1 ELSE IF r < 1096 THEN 2 ELSE 3
           y == 1970 + 4 * c + k
<1>1. c \in Nat /\ r \in 0 .. 1460 /\ day = 1461 * c + r
  OBVIOUS
<1>2. YearStart(2100) = 47482
  BY DEF YearStart
<1>3. c <= 32 /\ (c = 32 => r < 730)
  BY <1>1, <1>2
<1>4. k \in 0 .. 3 /\ (c = 32 => k <= 1)
  BY <1>1, <1>3
<1> HIDE DEF c, r
<1>5. y \in 1970 .. 2099
  BY <1>1, <1>3, <1>4
<1>6. /\ YearStart(y) = 1461 * c + 365 * k + (k + 1) \div 4
      /\ YearStart(y + 1) = 1461 * c + 365 * (k + 1) + (k + 2) \div 4
  BY <1>1, <1>4 DEF YearStart
<1>7. YearStart(y) <= day /\ day < YearStart(y + 1)
  BY <1>1, <1>6
<1> HIDE DEF y
<1>8. \E x \in 1970 .. 2099 : YearStart(x) <= day /\ day < YearStart(x + 1)
  BY <1>5, <1>7
<1>9. QED
  BY <1>8 DEF YearOf


\* The Thursday of the week before, 21:00 UTC, which is midnight in Madagascar:
\* the ISO week of getISOWeek, and back from it, lose nothing.
LEMMA CutoffIsThursday ==
    ASSUME NEW depart \in Hours
    PROVE  LET day == (depart + TzOffset) \div 24
           IN  GetThursdayCutoff(depart) = (day - DayOfWeek(day) - 3) * 24 + 21
<1> DEFINE day == (depart + TzOffset) \div 24
           thursday == day + 4 - DayOfWeek(day)
           year == YearOf(thursday)
           start == YearStart(year)
           jan4 == start + 3
           week == CeilDiv(thursday - start + 1, 7)
           monday == jan4 - (DayOfWeek(jan4) - 1)
<1>1. day \in Nat /\ day + 3 < YearStart(2100)
  BY DEF Hours, TzOffset
<1>2. /\ DayOfWeek(day) \in 1 .. 7
      /\ thursday \in Nat /\ thursday <= day + 3 /\ thursday % 7 = 0
  BY <1>1 DEF DayOfWeek
<1>3. YearStart(2100) \in Nat
  BY DEF YearStart
<1> HIDE DEF day, thursday
<1>4. thursday < YearStart(2100)
  BY <1>1, <1>2, <1>3
<1>5. year \in 1970 .. 2099 /\ start <= thursday
  BY <1>2, <1>4, YearOfDay
<1> HIDE DEF year
<1>6. start \in Nat
  BY <1>5 DEF YearStart
<1> HIDE DEF start
<1>7. monday + 3 \in start .. start + 6 /\ (monday + 3) % 7 = 0 /\ monday \in Int
  BY <1>6 DEF DayOfWeek
<1>8. week = (thursday - start) \div 7 + 1
  BY <1>2, <1>5, <1>6 DEF CeilDiv
<1> HIDE DEF week, monday
<1>9. thursday - (monday + 3) = 7 * (week - 1)
  <2> DEFINE w == monday + 3
  <2>1. w \in start .. start + 6 /\ w % 7 = 0 /\ w \in Int
    BY <1>6, <1>7
  <2> HIDE DEF w
  <2>2. thursday - w = 7 * ((thursday - start) \div 7)
    BY <1>2, <1>5, <1>6, <2>1
  <2>3. QED
    BY <1>8, <2>2, <1>2, <1>5, <1>6, <1>7 DEF w
<1>10. GetISOWeek(day) = [year |-> year, week |-> week]
  BY DEF GetISOWeek, year, week, thursday, start
<1>11. GetThursdayCutoff(depart) = (monday + (week - 2) * 7 + 3) * 24 + 21
  BY <1>10 DEF GetThursdayCutoff, day, monday, start
<1>12. week \in Int
  BY <1>2, <1>5, <1>6, <1>8
<1>13. monday + (week - 2) * 7 + 3 = thursday - 7
  BY <1>2, <1>7, <1>9, <1>12
<1>14. thursday = day + 4 - DayOfWeek(day)
  BY DEF thursday
<1>15. monday + (week - 2) * 7 + 3 = day - DayOfWeek(day) - 3
  BY <1>1, <1>2, <1>13, <1>14
<1>16. QED
  BY <1>11, <1>15 DEF day

LEMMA InTime ==
    ASSUME NEW depart \in Hours, NEW now \in Nat, ~IsAfterDeadline(depart, now)
    PROVE  LET day == (depart + TzOffset) \div 24
           IN  (now + TzOffset) \div 24 <= day - DayOfWeek(day) - 3
<1> DEFINE day == (depart + TzOffset) \div 24
           thursday == day - DayOfWeek(day) - 3
<1>1. day \in Int
  BY DEF Hours, TzOffset
<1>2. thursday \in Int
  BY <1>1 DEF DayOfWeek
<1>3. GetThursdayCutoff(depart) = thursday * 24 + 21
  BY CutoffIsThursday
<1> HIDE DEF thursday
<1>4. now < thursday * 24 + 21
  BY <1>2, <1>3 DEF IsAfterDeadline
<1>5. (now + 3) \div 24 <= thursday
  BY <1>2, <1>4
<1>6. QED
  BY <1>5 DEF TzOffset, thursday

-----------------------------------------------------------------------------
(* Types, references and the deadline: any number of handlers at once.     *)

Work == {Idle} \cup MissionWork \cup NumbersWork

MissionInv ==
    /\ MissionTypeOK /\ NumbersSound /\ IsFiniteSet(Existing) /\ HandlersStayGood

\* What the type of a request says of the work it has still to do.
LEMMA WorkFields ==
    ASSUME NEW w \in Work
    PROVE  /\ w.do = "createMission" =>
                /\ w.mission \in Missions /\ w.number \in Nat /\ w.depart \in Nat
                /\ w.retour \in Nat /\ w.createdAt \in Nat /\ w.bypass \in BOOLEAN
           /\ w.do = "setStatus" =>
                /\ w.mission \in Missions
                /\ w.status \in Statuses \ {"LIQUIDATION_VALIDEE", "LIQUIDATION_REJETEE"}
           /\ w.do = "assignVehicle" => w.mission \in Missions /\ w.vehicle \in Vehicles
           /\ w.do \in {"submit", "resubmit"} => w.mission \in Missions
           /\ w.do = "readRows" =>
                /\ w.mission \in Missions /\ w.role \in Validators
                /\ w.vote \in Votes \ {"EN_ATTENTE"} /\ w.seen \in Statuses
           /\ w.do = "decide" =>
                /\ w.mission \in Missions /\ w.role \in Validators
                /\ w.vote \in Votes \ {"EN_ATTENTE"}
                /\ w.status \in {"LIQUIDATION_VALIDEE", "LIQUIDATION_REJETEE", None}
           /\ w.do = "countPurchases" => w.origin \in Origins
           /\ w.do = "insertPurchase" => w \in NumbersWork
<1>1. CASE w = Idle
  BY <1>1 DEF Idle
<1>2. CASE w \in NumbersWork
  BY <1>2 DEF NumbersWork
<1>3. CASE w \in MissionWork
  <2>1. CASE w \in [do : {"createMission"}, mission : Missions, number : Nat, depart : Nat,
                    retour : Nat, createdAt : Nat, bypass : BOOLEAN]
    BY <2>1
  <2>2. CASE w \in [do : {"setStatus"}, mission : Missions,
                    status : Statuses \ {"LIQUIDATION_VALIDEE", "LIQUIDATION_REJETEE"}]
    BY <2>2
  <2>3. CASE w \in [do : {"assignVehicle"}, mission : Missions, vehicle : Vehicles]
    BY <2>3
  <2>4. CASE w \in [do : {"submit", "resubmit"}, mission : Missions]
    BY <2>4
  <2>5. CASE w \in [do : {"readRows"}, mission : Missions, role : Validators,
                    vote : Votes \ {"EN_ATTENTE"}, seen : Statuses]
    BY <2>5
  <2>6. CASE w \in [do : {"decide"}, mission : Missions, role : Validators,
                    vote : Votes \ {"EN_ATTENTE"},
                    status : {"LIQUIDATION_VALIDEE", "LIQUIDATION_REJETEE", None}]
    BY <2>6
  <2>7. QED
    BY <1>3, <2>1, <2>2, <2>3, <2>4, <2>5, <2>6 DEF MissionWork
<1>4. QED
  BY <1>1, <1>2, <1>3 DEF Work

\* The fields of a row, and those of one that exists.
LEMMA RowFields ==
    ASSUME MissionInv, NEW m \in Missions
    PROVE  /\ missions[m] \in MissionRow
           /\ missions[m].status \in Statuses \cup {None}
           /\ missions[m].number \in Nat /\ missions[m].depart \in Nat
           /\ missions[m].retour \in Nat /\ missions[m].createdAt \in Nat
           /\ missions[m].bypass \in BOOLEAN
           /\ missions[m].vehicle \in Vehicles \cup {None}
           /\ missions[m].report \in [Validators -> Votes] \cup {None}
           /\ m \in Existing <=> missions[m].status \in Statuses
           /\ m \notin Existing => missions[m] = NoMission
<1>1. missions[m] \in MissionRow
  BY DEF MissionInv, MissionTypeOK
<1>2. /\ missions[m].status \in Statuses \cup {None}
      /\ missions[m].number \in Nat /\ missions[m].depart \in Nat
      /\ missions[m].retour \in Nat /\ missions[m].createdAt \in Nat
      /\ missions[m].bypass \in BOOLEAN
      /\ missions[m].vehicle \in Vehicles \cup {None}
      /\ missions[m].report \in [Validators -> Votes] \cup {None}
  BY <1>1 DEF MissionRow
<1>3. None \notin Statuses
  BY NullAssumption
<1>4. m \in Existing <=> missions[m].status \in Statuses
  BY <1>2, <1>3 DEF Existing
<1>5. m \notin Existing => missions[m] = NoMission
  BY DEF MissionInv, HandlersStayGood
<1>6. QED
  BY <1>1, <1>2, <1>4, <1>5

\* A mission that exists goes on existing, and a report that is there stays.
RowsStay ==
    /\ Existing \subseteq Existing'
    /\ \A m \in Missions : missions[m].report # None => missions'[m].report # None

LEMMA GoodWorkKept ==
    ASSUME MissionInv, RowsStay, IsFiniteSet(Existing'), NEW w \in Work, GoodWork(w)
    PROVE  GoodWork(w)'
<1> DEFINE n == Cardinality(Existing)
           k == Cardinality(Existing')
<1>1. n \in Nat /\ k \in Nat /\ n <= k
  <2>1. IsFiniteSet(Existing) /\ Existing \in SUBSET Existing'
    BY DEF MissionInv, RowsStay
  <2>2. QED
    BY <2>1, FS_CardinalityType, FS_Subset
<1>2. w.do = "createMission" => w.number \in 1 .. k + 1
  <2>1. w.do = "createMission" => w.number \in 1 .. n + 1
    BY DEF GoodWork
  <2> HIDE DEF n, k
  <2>2. QED
    BY <1>1, <2>1
<1>3. w.do \in {"readRows", "decide"} => missions'[w.mission].report # None
  BY WorkFields DEF GoodWork, RowsStay
<1>4. QED
  BY <1>2, <1>3 DEF GoodWork, RowsStay

\* What a step has to show of the rows, and of the work it leaves to do.
LEMMA KeepsInv ==
    ASSUME MissionInv, scene' = scene, RowsStay,
           missions' \in [Missions -> MissionRow], NumbersSound',
           IsFiniteSet(Existing'), ReferencesDense',
           \A m \in Missions : missions'[m] = NoMission \/ m \in Existing',
           \A m \in Existing' :
                /\ missions'[m].depart \in Hours
                /\ missions'[m].bypass
                    \/ ~IsAfterDeadline(missions'[m].depart, missions'[m].createdAt),
           req' = req \/ \E r \in Requests, w \in Work : Await(r, w) /\ GoodWork(w)'
    PROVE  MissionInv'
<1>1. req \in [Requests -> Work] /\ \A r \in Requests : GoodWork(req[r])
  BY DEF MissionInv, MissionTypeOK, HandlersStayGood, Work
<1>2. \A w \in Work : GoodWork(w) => GoodWork(w)'
  BY GoodWorkKept
<1>3. ASSUME NEW r \in Requests
      PROVE  req'[r] \in Work /\ \E w \in Work : w = req'[r] /\ GoodWork(w)'
  <2>1. req[r] \in Work /\ GoodWork(req[r])
    BY <1>1
  <2>2. PICK v \in Work : v = req[r] /\ GoodWork(v)
    BY <2>1
  <2>3. GoodWork(v)'
    BY <1>2, <2>2
  <2>4. CASE req'[r] = req[r]
    BY <2>2, <2>3, <2>4
  <2>5. CASE req'[r] # req[r]
    BY <1>1, <2>5 DEF Await
  <2>6. QED
    BY <2>4, <2>5
<1>4. req' \in [Requests -> Work]
  BY <1>1 DEF Await
<1>5. \A r \in Requests : GoodWork(req[r])'
  BY <1>3 DEF GoodWork
<1>6. MissionTypeOK'
  BY <1>4 DEF MissionTypeOK, NumbersSound, Work, MissionInv
<1>7. HandlersStayGood'
  BY <1>5 DEF HandlersStayGood
<1>8. QED
  BY <1>6, <1>7 DEF MissionInv

\* A handler that only reads rows.
LEMMA ReadKeepsInv ==
    ASSUME MissionInv, scene' = scene, missions' = missions, NumbersSound',
           req' = req \/ \E r \in Requests, w \in Work : Await(r, w) /\ GoodWork(w)
    PROVE  MissionInv'
<1>1. Existing' = Existing /\ ReferencesDense'
  BY DEF Existing, ReferencesDense, MissionInv, HandlersStayGood
<1>2. RowsStay
  BY <1>1 DEF RowsStay
<1>3. missions' \in [Missions -> MissionRow] /\ IsFiniteSet(Existing')
  BY <1>1 DEF MissionInv, MissionTypeOK
<1>4. req' = req \/ \E r \in Requests, w \in Work : Await(r, w) /\ GoodWork(w)'
  BY <1>2, <1>3, GoodWorkKept
<1>5. \A m \in Missions : missions'[m] = NoMission \/ m \in Existing'
  BY <1>1 DEF MissionInv, HandlersStayGood
<1>6. \A m \in Existing' :
                /\ missions'[m].depart \in Hours
                /\ missions'[m].bypass
                    \/ ~IsAfterDeadline(missions'[m].depart, missions'[m].createdAt)
  BY <1>1 DEF MissionInv, HandlersStayGood
<1>7. QED
  BY <1>1, <1>2, <1>3, <1>4, <1>5, <1>6, KeepsInv

\* A row that exists is written: its number and the dates it was checked with
\* stay, it goes on existing and so does its report.
LEMMA RowWritten ==
    ASSUME MissionInv, scene' = scene, NumbersSound',
           NEW m \in Existing, NEW row \in MissionRow,
           missions' = [missions EXCEPT ![m] = row],
           row.status \in Statuses, row.number = missions[m].number,
           row.depart = missions[m].depart, row.createdAt = missions[m].createdAt,
           row.bypass = missions[m].bypass,
           missions[m].report # None => row.report # None,
           req' = req \/ \E r \in Requests : Await(r, Idle)
    PROVE  MissionInv'
<1>1. m \in Missions /\ missions \in [Missions -> MissionRow] /\ None \notin Statuses
  BY NullAssumption DEF Existing, MissionInv, MissionTypeOK
<1>2. missions' \in [Missions -> MissionRow] /\ missions'[m] = row
      /\ \A n \in Missions \ {m} : missions'[n] = missions[n]
  BY <1>1
<1>3. Existing' = Existing
  BY <1>1, <1>2 DEF Existing
<1>4. \A n \in Existing : missions'[n].number = missions[n].number
  BY <1>2 DEF Existing
<1>5. {missions'[n].number : n \in Existing} = {missions[n].number : n \in Existing}
  BY <1>4
<1>6. ReferencesDense'
  BY <1>3, <1>5 DEF ReferencesDense, MissionInv, HandlersStayGood
<1>7. RowsStay
  BY <1>2, <1>3 DEF RowsStay
<1>8. GoodWork(Idle)'
  BY DEF GoodWork, Idle
<1>9. \A n \in Missions : missions'[n] = NoMission \/ n \in Existing'
  BY <1>2, <1>3 DEF MissionInv, HandlersStayGood
<1>10. \A n \in Existing' :
                /\ missions'[n].depart \in Hours
                /\ missions'[n].bypass
                    \/ ~IsAfterDeadline(missions'[n].depart, missions'[n].createdAt)
  BY <1>2, <1>3 DEF MissionInv, HandlersStayGood, Existing
<1>11. Idle \in Work /\ IsFiniteSet(Existing')
  BY <1>3 DEF Work, MissionInv
<1>12. QED
  BY <1>2, <1>6, <1>7, <1>8, <1>9, <1>10, <1>11, KeepsInv

\* One that leaves a piece of work of its own.
LEMMA CallKeepsInv ==
    ASSUME MissionInv, scene' = scene, UNCHANGED << missions, purchases, link >>,
           NEW r \in Requests, NEW w \in Work, GoodWork(w), Await(r, w)
    PROVE  MissionInv'
<1>1. NumbersSound'
  BY SameNumbers DEF MissionInv
<1>2. QED
  BY <1>1, ReadKeepsInv

LEMMA IdleIsWork == Idle \in Work /\ GoodWork(Idle)
BY DEF Work, GoodWork, Idle

LEMMA CurrentWork ==
    ASSUME MissionInv, NEW r \in Requests
    PROVE  req[r] \in Work /\ GoodWork(req[r])
BY DEF MissionInv, MissionTypeOK, HandlersStayGood, Work

LEMMA CreateKeepsInv ==
    ASSUME MissionInv, scene' = scene, NEW r \in Requests, NEW m \in Missions,
           CreateMission(r, m)
    PROVE  MissionInv'
<1>1. scene.dates \subseteq Dates
  BY ScenesAssumption DEF MissionInv, MissionTypeOK
<1>2. PICK d \in scene.dates, bypass \in BOOLEAN :
        /\ bypass \/ ~IsAfterDeadline(d.depart, d.now)
        /\ Await(r, [do |-> "createMission", mission |-> m,
                     number |-> NextMissionNumber,
                     depart |-> d.depart, retour |-> d.retour,
                     createdAt |-> d.now, bypass |-> bypass])
  BY DEF CreateMission
<1> DEFINE w == [do |-> "createMission", mission |-> m, number |-> NextMissionNumber,
                 depart |-> d.depart, retour |-> d.retour,
                 createdAt |-> d.now, bypass |-> bypass]
<1>3. d.depart \in Hours /\ d.retour \in Nat /\ d.now \in Nat /\ d.depart \in Nat
  <2>1. d \in Dates
    BY <1>1
  <2>2. QED
    BY <2>1 DEF Dates, Hours
<1>4. NextMissionNumber \in 1 .. Cardinality(Existing) + 1 /\ NextMissionNumber \in Nat
  BY FS_CardinalityType DEF NextMissionNumber, MissionInv
<1>5. w \in Work
  BY <1>3, <1>4 DEF Work, MissionWork
<1>6. GoodWork(w)
  BY <1>2, <1>3, <1>4 DEF GoodWork
<1>7. QED
  BY <1>2, <1>5, <1>6, CallKeepsInv DEF CreateMission, MissionCalled

LEMMA DeskKeepsInv ==
    ASSUME MissionInv, scene' = scene, NEW r \in Requests, NEW m \in Missions,
           \/ Cancel(r, m) \/ UpdateStatus(r, m) \/ AssignVehicle(r, m)
           \/ Confirm(r, m) \/ Submit(r, m) \/ Resubmit(r, m)
    PROVE  MissionInv'
<1>1. UNCHANGED << missions, purchases, link >>
  BY DEF Cancel, UpdateStatus, AssignVehicle, Confirm, Submit, Resubmit, MissionCalled
<1>2. m \in Existing <=> missions[m].status \in Statuses
  BY RowFields
<1>3. ASSUME NEW status \in Statuses \ {"LIQUIDATION_VALIDEE", "LIQUIDATION_REJETEE"},
             m \in Existing, WriteStatus(r, m, status)
      PROVE  MissionInv'
  <2> DEFINE w == [do |-> "setStatus", mission |-> m, status |-> status]
  <2>1. w \in Work /\ GoodWork(w)
    BY <1>3 DEF Work, MissionWork, GoodWork
  <2>2. QED
    BY <1>1, <1>3, <2>1, CallKeepsInv DEF WriteStatus
<1>4. CASE Cancel(r, m)
  <2>1. m \in Existing /\ WriteStatus(r, m, "ANNULEE")
    BY <1>2, <1>4 DEF Cancel, Found
  <2>2. QED
    BY <1>3, <2>1 DEF Statuses
<1>5. CASE UpdateStatus(r, m)
  <2>1. PICK status \in Transitions(missions[m].status) : WriteStatus(r, m, status)
    BY <1>5 DEF UpdateStatus
  <2>2. /\ status \in Statuses \ {"LIQUIDATION_VALIDEE", "LIQUIDATION_REJETEE"}
        /\ missions[m].status \in Statuses
    BY <2>1 DEF Transitions, Statuses
  <2>3. QED
    BY <1>2, <1>3, <2>1, <2>2
<1>6. CASE AssignVehicle(r, m)
  <2>1. PICK v \in Vehicles : Await(r, [do |-> "assignVehicle", mission |-> m, vehicle |-> v])
    BY <1>6 DEF AssignVehicle
  <2> DEFINE w == [do |-> "assignVehicle", mission |-> m, vehicle |-> v]
  <2>2. w \in Work /\ GoodWork(w)
    BY <1>6 DEF Work, MissionWork, GoodWork, AssignVehicle, Existing
  <2>3. QED
    BY <1>1, <2>1, <2>2, CallKeepsInv
<1>7. CASE Confirm(r, m)
  <2>1. m \in Existing /\ WriteStatus(r, m, "CONFIRMEE")
    BY <1>2, <1>7 DEF Confirm, Found, Statuses
  <2>2. QED
    BY <1>3, <2>1 DEF Statuses
<1>8. ASSUME NEW do \in {"submit", "resubmit"}, m \in Existing, Write(r, do, m)
      PROVE  MissionInv'
  <2> DEFINE w == [do |-> do, mission |-> m]
  <2>1. w \in Work /\ GoodWork(w)
    BY <1>8 DEF Work, MissionWork, GoodWork
  <2>2. QED
    BY <1>1, <1>8, <2>1, CallKeepsInv DEF Write
<1>9. CASE Submit(r, m)
  BY <1>2, <1>8, <1>9 DEF Submit, Found, Statuses
<1>10. CASE Resubmit(r, m)
  BY <1>8, <1>10 DEF Resubmit, Existing
<1>11. QED
  BY <1>4, <1>5, <1>6, <1>7, <1>9, <1>10

LEMMA DecisionKeepsInv ==
    ASSUME MissionInv, scene' = scene, NEW r \in Requests,
           \/ \E m \in Missions : Decide(r, m)
           \/ ReadRows(r) \/ AlreadyDecided(r)
    PROVE  MissionInv'
<1>1. UNCHANGED << missions, purchases, link >>
  BY DEF Decide, ReadRows, AlreadyDecided, MissionCalled
<1>2. ASSUME NEW m \in Missions, Decide(r, m)
      PROVE  MissionInv'
  <2>1. PICK v \in Validators, vote \in Votes \ {"EN_ATTENTE"} :
            Await(r, [do |-> "readRows", mission |-> m, role |-> v, vote |-> vote,
                      seen |-> missions[m].status])
    BY <1>2 DEF Decide
  <2> DEFINE w == [do |-> "readRows", mission |-> m, role |-> v, vote |-> vote,
                   seen |-> missions[m].status]
  <2>2. missions[m].status \in Statuses /\ m \in Existing /\ missions[m].report # None
    BY <1>2, RowFields DEF Decide, Found
  <2>3. w \in Work
    BY <2>2 DEF Work, MissionWork
  <2>4. GoodWork(w)
    BY <2>2 DEF GoodWork
  <2>5. QED
    BY <1>1, <2>1, <2>3, <2>4, CallKeepsInv
<1>3. CASE ReadRows(r)
  <2> DEFINE w == req[r]
             outcome == Outcome([missions[w.mission].report EXCEPT ![w.role] = w.vote], w.seen)
             new == [do |-> "decide", mission |-> w.mission, role |-> w.role,
                     vote |-> w.vote, status |-> outcome]
  <2>1. w.do = "readRows" /\ w \in Work /\ GoodWork(w)
    BY <1>3, CurrentWork DEF ReadRows
  <2>2. outcome \in {"LIQUIDATION_VALIDEE", "LIQUIDATION_REJETEE", None}
    BY DEF Outcome
  <2>3. Await(r, new)
    BY <1>3 DEF ReadRows
  <2> HIDE DEF outcome
  <2>4. /\ w.mission \in Missions /\ w.role \in Validators
        /\ w.vote \in Votes \ {"EN_ATTENTE"}
    BY <2>1, WorkFields
  <2>5. w.mission \in Existing /\ missions[w.mission].report # None
    BY <2>1 DEF GoodWork
  <2> HIDE DEF w
  <2>6. new \in Work
    BY <2>2, <2>4 DEF Work, MissionWork
  <2>7. GoodWork(new)
    BY <2>5 DEF GoodWork
  <2>8. QED
    BY <1>1, <2>3, <2>6, <2>7, CallKeepsInv
<1>4. CASE AlreadyDecided(r)
  BY <1>1, <1>4, IdleIsWork, CallKeepsInv DEF AlreadyDecided, Done
<1>5. QED
  BY <1>2, <1>3, <1>4

LEMMA PurchaseKeepsInv ==
    ASSUME MissionInv, scene' = scene, NEW r \in Requests,
           \/ \E m \in Missions : TriggerDA(r, m)
           \/ CountPurchases(r) /\ UNCHANGED missions
           \/ NumbersNext(r) /\ UNCHANGED missions
    PROVE  MissionInv'
<1>1. None \notin Origins /\ Missions \subseteq Origins
  BY PurchaseNumbersAssumption, MissionAssumption
<1>2. ASSUME NEW o \in Origins \cup {None}, Await(r, Insert(o)),
             UNCHANGED << missions, purchases, link >>, o \in Missions => o \in Existing
      PROVE  MissionInv'
  <2>1. NextNumber \in Nat \ {0}
    BY NextNumberType DEF MissionInv
  <2>2. Insert(o) \in Work
    BY <2>1 DEF Work, NumbersWork, Insert
  <2>3. GoodWork(Insert(o))
    BY <1>2 DEF GoodWork, Insert
  <2>4. QED
    BY <1>2, <2>2, <2>3, CallKeepsInv
<1>3. ASSUME NEW m \in Missions, TriggerDA(r, m)
      PROVE  MissionInv'
  <2> DEFINE w == [do |-> "countPurchases", origin |-> m]
  <2>1. w \in Work
    BY <1>1 DEF Work, NumbersWork
  <2>2. GoodWork(w)
    BY <1>3 DEF GoodWork, TriggerDA, Existing
  <2>3. QED
    BY <1>3, <2>1, <2>2, CallKeepsInv DEF TriggerDA, CheckLink
<1>4. CASE CountPurchases(r) /\ UNCHANGED missions
  <2>1. req[r].do = "countPurchases" /\ req[r] \in Work /\ GoodWork(req[r])
    BY <1>4, CurrentWork DEF CountPurchases
  <2>2. req[r].origin \in Origins /\ (req[r].origin \in Missions => req[r].origin \in Existing)
    BY <2>1, WorkFields DEF GoodWork
  <2>3. QED
    BY <1>2, <1>4, <2>2 DEF CountPurchases
<1>5. CASE CreatePurchase(r) /\ UNCHANGED missions
  BY <1>1, <1>2, <1>5 DEF CreatePurchase
<1>6. CASE DeleteDraft(r) /\ UNCHANGED missions
  <2>1. NumbersSound' /\ req' = req
    BY <1>6, DeleteKeepsNumbers DEF DeleteDraft, MissionInv
  <2>2. QED
    BY <1>6, <2>1, ReadKeepsInv
<1>7. QED
  BY <1>3, <1>4, <1>5, <1>6 DEF NumbersNext

\* A creation that lost the race for its reference inserts nothing; the others
\* continue the numbers without a gap.
LEMMA InsertKeepsInv ==
    ASSUME MissionInv, scene' = scene, NEW r \in Requests, InsertMission(r)
    PROVE  MissionInv'
<1> DEFINE new == req[r]
           m == new.mission
           row == [NoMission EXCEPT !.status = "EN_ATTENTE", !.number = new.number,
                                    !.depart = new.depart, !.retour = new.retour,
                                    !.createdAt = new.createdAt, !.bypass = new.bypass]
<1>1. new.do = "createMission" /\ new \in Work /\ GoodWork(new)
  BY CurrentWork DEF InsertMission
<1>2. /\ m \in Missions /\ new.number \in Nat /\ new.depart \in Nat
      /\ new.retour \in Nat /\ new.createdAt \in Nat /\ new.bypass \in BOOLEAN
  BY <1>1, WorkFields
<1>3. /\ new.number \in 1 .. Cardinality(Existing) + 1
      /\ new.depart \in Hours
      /\ new.bypass \/ ~IsAfterDeadline(new.depart, new.createdAt)
  BY <1>1 DEF GoodWork
<1>4. UNCHANGED << purchases, link >> /\ Await(r, Idle)
  BY DEF InsertMission, Done
<1>5. CASE missions' = missions
  BY <1>4, <1>5, IdleIsWork, CallKeepsInv
<1>6. CASE missions' # missions
  <2>1. /\ missions' = [missions EXCEPT ![m] = row] /\ missions[m].status = None
        /\ \A n \in Existing : missions[n].number # new.number
    BY <1>6 DEF InsertMission
  <2>2. /\ row.status = "EN_ATTENTE" /\ row.number = new.number /\ row.depart = new.depart
        /\ row.createdAt = new.createdAt /\ row.bypass = new.bypass
        /\ row \in MissionRow
    BY <1>2 DEF NoMission, MissionRow, Statuses
  <2> HIDE DEF row
  <2>3. missions \in [Missions -> MissionRow]
    BY DEF MissionInv, MissionTypeOK
  <2>4. /\ missions' \in [Missions -> MissionRow] /\ missions'[m] = row
        /\ \A n \in Missions \ {m} : missions'[n] = missions[n]
    BY <1>2, <2>1, <2>2, <2>3
  <2>5. row.status # None
    BY <2>2, NullAssumption DEF Statuses
  <2>6. m \notin Existing /\ Existing' = Existing \cup {m}
    BY <1>2, <2>1, <2>4, <2>5 DEF Existing
  <2>7. IsFiniteSet(Existing') /\ Cardinality(Existing') = Cardinality(Existing) + 1
    BY <2>6, FS_AddElement DEF MissionInv
  <2>8. Cardinality(Existing) \in Nat
    BY FS_CardinalityType DEF MissionInv
  <2>9. {missions[n].number : n \in Existing} = 1 .. Cardinality(Existing)
    BY DEF MissionInv, HandlersStayGood, ReferencesDense
  <2>10. new.number = Cardinality(Existing) + 1
    <3>1. new.number \notin {missions[n].number : n \in Existing}
      BY <2>1
    <3>2. QED
      BY <1>3, <2>8, <2>9, <3>1
  <2>11. {missions'[n].number : n \in Existing'}
            = {missions[n].number : n \in Existing} \cup {new.number}
    BY <2>2, <2>4, <2>6 DEF Existing
  <2>12. ReferencesDense'
    <3>1. 1 .. Cardinality(Existing') = 1 .. Cardinality(Existing) \cup {Cardinality(Existing) + 1}
      BY <2>7, <2>8
    <3>2. QED
      BY <2>9, <2>10, <2>11, <3>1 DEF ReferencesDense
  <2>13. RowsStay
    <3>1. missions[m].report = None
      BY <1>2, <2>6, RowFields DEF NoMission
    <3>2. QED
      BY <2>4, <2>6, <3>1 DEF RowsStay
  <2>14. NumbersSound'
    BY <1>4, SameNumbers DEF MissionInv
  <2>15. \A n \in Missions : missions'[n] = NoMission \/ n \in Existing'
    BY <2>4, <2>6 DEF MissionInv, HandlersStayGood
  <2>16. \A n \in Existing' :
            /\ missions'[n].depart \in Hours
            /\ missions'[n].bypass
                \/ ~IsAfterDeadline(missions'[n].depart, missions'[n].createdAt)
    BY <1>3, <2>2, <2>4, <2>6 DEF MissionInv, HandlersStayGood, Existing
  <2>17. GoodWork(Idle)'
    BY DEF GoodWork, Idle
  <2>18. QED
    BY <1>4, <2>4, <2>7, <2>12, <2>13, <2>14, <2>15, <2>16, <2>17, IdleIsWork, KeepsInv
<1>7. QED
  BY <1>5, <1>6

\* What a handler writes leaves a row of the right type, which exists still,
\* and keeps the report that is there.
LEMMA WrittenRow ==
    ASSUME NEW mission \in MissionRow, mission.status \in Statuses,
           NEW w \in Work,
           w.do \in {"setStatus", "assignVehicle", "submit", "resubmit", "decide"},
           w.do = "decide" => mission.report # None
    PROVE  LET row == Written(mission, w)
           IN  /\ row \in MissionRow /\ row.status \in Statuses
               /\ row.number = mission.number /\ row.depart = mission.depart
               /\ row.retour = mission.retour /\ row.createdAt = mission.createdAt
               /\ row.bypass = mission.bypass
               /\ mission.report # None => row.report # None
<1> DEFINE row == Written(mission, w)
<1>1. BlankReport \in [Validators -> Votes] /\ None \notin [Validators -> Votes]
  BY NullAssumption DEF BlankReport, Votes
<1>2. CASE w.do = "setStatus"
  <2>1. row = [mission EXCEPT !.status = w.status]
    BY <1>2 DEF Written
  <2>2. w.status \in Statuses
    BY <1>2, WorkFields
  <2>3. QED
    BY <2>1, <2>2 DEF MissionRow
<1>3. CASE w.do = "assignVehicle"
  <2>1. row = [mission EXCEPT !.status = "VEHICULE_ATTRIBUE", !.vehicle = w.vehicle]
    BY <1>3 DEF Written
  <2>2. w.vehicle \in Vehicles
    BY <1>3, WorkFields
  <2>3. QED
    BY <2>1, <2>2 DEF MissionRow, Statuses
<1>4. CASE w.do \in {"submit", "resubmit"}
  <2>1. row = mission \/ row = [mission EXCEPT !.status = "LIQUIDEE", !.report = BlankReport]
    BY <1>4 DEF Written
  <2> HIDE DEF row
  <2>2. /\ row \in MissionRow /\ row.status \in Statuses
        /\ row.number = mission.number /\ row.depart = mission.depart
        /\ row.retour = mission.retour /\ row.createdAt = mission.createdAt
        /\ row.bypass = mission.bypass
        /\ mission.report # None => row.report # None
    <3>1. CASE row = mission
      BY <1>1, <3>1
    <3>2. CASE row = [mission EXCEPT !.status = "LIQUIDEE", !.report = BlankReport]
      <4>1. row \in MissionRow /\ row.status \in Statuses
        BY <1>1, <3>2 DEF MissionRow, Statuses
      <4>2. /\ row.number = mission.number /\ row.depart = mission.depart
            /\ row.retour = mission.retour /\ row.createdAt = mission.createdAt
            /\ row.bypass = mission.bypass
            /\ row.report = BlankReport
        BY <3>2 DEF MissionRow
      <4>3. QED
        BY <1>1, <4>1, <4>2
    <3>3. QED
      BY <2>1, <3>1, <3>2
  <2>3. QED
    BY <2>2 DEF row
<1>5. CASE w.do = "decide"
  <2> DEFINE status == IF w.status = None THEN mission.status ELSE w.status
             report == [mission.report EXCEPT ![w.role] = w.vote]
  <2>1. row = [mission EXCEPT !.report = report, !.status = status]
    BY <1>5 DEF Written, MissionRow
  <2>2. mission.report \in [Validators -> Votes]
    BY <1>5 DEF MissionRow
  <2>3. w.role \in Validators /\ w.vote \in Votes
        /\ w.status \in {"LIQUIDATION_VALIDEE", "LIQUIDATION_REJETEE", None}
    BY <1>5, WorkFields
  <2>4. status \in Statuses
    BY <2>3 DEF Statuses
  <2>5. report \in [Validators -> Votes]
    BY <2>2, <2>3
  <2> HIDE DEF status, report, row
  <2>6. /\ row \in MissionRow /\ row.status \in Statuses
        /\ row.number = mission.number /\ row.depart = mission.depart
        /\ row.retour = mission.retour /\ row.createdAt = mission.createdAt
        /\ row.bypass = mission.bypass
        /\ mission.report # None => row.report # None
    BY <1>1, <2>1, <2>4, <2>5 DEF MissionRow
  <2>7. QED
    BY <2>6 DEF row
<1>6. QED
  BY <1>2, <1>3, <1>4, <1>5

LEMMA WriteKeepsInv ==
    ASSUME MissionInv, scene' = scene, NEW r \in Requests,
           \/ WriteMission(r)
           \/ \E m \in Missions : DeleteRequestor(r, m)
    PROVE  MissionInv'
<1>1. UNCHANGED << purchases, link >>
  BY DEF WriteMission, DeleteRequestor
<1>2. NumbersSound'
  BY <1>1, SameNumbers DEF MissionInv
<1>3. CASE WriteMission(r)
  <2> DEFINE w == req[r]
             m == w.mission
             row == Written(missions[m], w)
  <2>1. /\ w.do \in {"setStatus", "assignVehicle", "submit", "resubmit", "decide"}
        /\ missions' = [missions EXCEPT ![m] = row]
        /\ Await(r, Idle)
    BY <1>3 DEF WriteMission, Done
  <2>2. w \in Work /\ GoodWork(w)
    BY CurrentWork
  <2>3. m \in Existing /\ (w.do = "decide" => missions[m].report # None)
    BY <2>1, <2>2 DEF GoodWork
  <2>4. missions[m] \in MissionRow /\ missions[m].status \in Statuses
    BY <2>3, RowFields DEF Existing
  <2> HIDE DEF w, m
  <2>5. /\ row \in MissionRow /\ row.status \in Statuses
        /\ row.number = missions[m].number /\ row.depart = missions[m].depart
        /\ row.createdAt = missions[m].createdAt /\ row.bypass = missions[m].bypass
        /\ missions[m].report # None => row.report # None
    BY <2>1, <2>2, <2>3, <2>4, WrittenRow
  <2> HIDE DEF row
  <2>6. QED
    BY <1>2, <2>1, <2>3, <2>5, RowWritten
<1>4. ASSUME NEW m \in Missions, DeleteRequestor(r, m)
      PROVE  MissionInv'
  <2> DEFINE row == [missions[m] EXCEPT !.requestor = FALSE]
  <2>1. missions[m].status # None /\ missions' = [missions EXCEPT ![m] = row] /\ req' = req
    BY <1>4 DEF DeleteRequestor
  <2>2. m \in Existing /\ missions[m] \in MissionRow /\ missions[m].status \in Statuses
    BY <2>1, RowFields DEF Existing
  <2>3. /\ row \in MissionRow /\ row.status \in Statuses
        /\ row.number = missions[m].number /\ row.depart = missions[m].depart
        /\ row.createdAt = missions[m].createdAt /\ row.bypass = missions[m].bypass
        /\ missions[m].report = row.report
    BY <2>2 DEF MissionRow
  <2> HIDE DEF row
  <2>4. QED
    BY <1>2, <2>1, <2>2, <2>3, RowWritten
<1>5. QED
  BY <1>3, <1>4

LEMMA RentalKeepsInv ==
    ASSUME MissionInv, scene' = scene, NEW r \in Requests, InsertRental(r)
    PROVE  MissionInv'
<1> DEFINE w == req[r]
           o == w.origin
<1>1. w.do = "insertPurchase" /\ w \in Work /\ GoodWork(w) /\ Await(r, Idle)
  BY CurrentWork DEF InsertRental, InsertPurchase, Done
<1>2. w \in NumbersWork
  BY <1>1, WorkFields
<1>3. NumbersSound'
  BY <1>2, InsertKeepsNumbers DEF InsertRental, MissionInv
<1>4. CASE missions' = missions
  BY <1>1, <1>3, <1>4, IdleIsWork, ReadKeepsInv
<1>5. CASE missions' # missions
  <2> DEFINE row == [missions[o] EXCEPT !.status = "EN_ATTENTE_LOCATION"]
  <2>1. o \in Missions /\ missions' = [missions EXCEPT ![o] = row]
    BY <1>5 DEF InsertRental
  <2>2. o \in Existing
    BY <1>1, <2>1 DEF GoodWork
  <2>3. missions[o] \in MissionRow
    BY <2>1, RowFields
  <2> HIDE DEF o
  <2>4. /\ row \in MissionRow /\ row.status \in Statuses
        /\ row.number = missions[o].number /\ row.depart = missions[o].depart
        /\ row.createdAt = missions[o].createdAt /\ row.bypass = missions[o].bypass
        /\ missions[o].report = row.report
    BY <2>3 DEF MissionRow, Statuses
  <2> HIDE DEF row
  <2>5. QED
    BY <1>1, <1>3, <2>1, <2>2, <2>4, RowWritten
<1>6. QED
  BY <1>4, <1>5

LEMMA InitInv == Init => MissionInv
<1> SUFFICES ASSUME Init
             PROVE  MissionInv
  OBVIOUS
<1>1. missions \in [Missions -> {NoMission}] /\ NumbersSound
  BY NumbersStart DEF Init, MissionInit
<1>2. Existing = {}
  BY <1>1 DEF Existing, NoMission
<1>3. IsFiniteSet(Existing) /\ Cardinality(Existing) = 0
  BY <1>2, FS_EmptySet
<1>4. ReferencesDense
  BY <1>2, <1>3 DEF ReferencesDense
<1>5. NoMission \in MissionRow
  BY DEF NoMission, MissionRow
<1>6. MissionTypeOK
  BY <1>1, <1>5 DEF MissionTypeOK, Init, NumbersSound
<1>7. \A r \in Requests : req[r] = Idle
  BY DEF Init
<1>8. HandlersStayGood
  BY <1>1, <1>2, <1>4, <1>7, IdleIsWork DEF HandlersStayGood
<1>9. QED
  BY <1>1, <1>3, <1>6, <1>8 DEF MissionInv

LEMMA StepInv == MissionInv /\ [Next]_vars => MissionInv'
<1> SUFFICES ASSUME MissionInv, [Next]_vars
             PROVE  MissionInv'
  OBVIOUS
<1>1. CASE UNCHANGED vars
  <2>1. NumbersSound' /\ scene' = scene /\ missions' = missions /\ req' = req
    BY <1>1, SameNumbers DEF vars, MissionInv
  <2>2. QED
    BY <2>1, ReadKeepsInv
<1>2. CASE Next
  <2>1. PICK r \in Requests : MissionNext(r) /\ scene' = scene
    BY <1>2 DEF Next
  <2>2. CASE \E m \in Missions : CreateMission(r, m)
    BY <2>1, <2>2, CreateKeepsInv
  <2>3. CASE \E m \in Missions :
                \/ Cancel(r, m) \/ UpdateStatus(r, m) \/ AssignVehicle(r, m)
                \/ Confirm(r, m) \/ Submit(r, m) \/ Resubmit(r, m)
    BY <2>1, <2>3, DeskKeepsInv
  <2>4. CASE (\E m \in Missions : Decide(r, m)) \/ ReadRows(r) \/ AlreadyDecided(r)
    BY <2>1, <2>4, DecisionKeepsInv
  <2>5. CASE \/ \E m \in Missions : TriggerDA(r, m)
             \/ CountPurchases(r) /\ UNCHANGED missions
             \/ NumbersNext(r) /\ UNCHANGED missions
    BY <2>1, <2>5, PurchaseKeepsInv
  <2>6. CASE InsertMission(r)
    BY <2>1, <2>6, InsertKeepsInv
  <2>7. CASE WriteMission(r) \/ \E m \in Missions : DeleteRequestor(r, m)
    BY <2>1, <2>7, WriteKeepsInv
  <2>8. CASE InsertRental(r)
    BY <2>1, <2>8, RentalKeepsInv
  <2>9. QED
    BY <2>1, <2>2, <2>3, <2>4, <2>5, <2>6, <2>7, <2>8 DEF MissionNext
<1>3. QED
  BY <1>1, <1>2

LEMMA MissionsAlwaysGood == Spec => []MissionInv
BY InitInv, StepInv, PTL DEF Spec

\* The rows, the purchases and the work of every handler keep their types,
\* whatever handlers run at once.
THEOREM MissionTypesSound == Spec => []MissionTypeOK
<1>1. MissionInv => MissionTypeOK
  BY DEF MissionInv
<1>2. QED
  BY <1>1, MissionsAlwaysGood, PTL

\* The references are 1 .. n, without a gap, although the count and the
\* insertion of a creation are separate calls (create).
THEOREM ReferencesStayDense == Spec => []ReferencesDense
<1>1. MissionInv => ReferencesDense
  BY DEF MissionInv, HandlersStayGood
<1>2. QED
  BY <1>1, MissionsAlwaysGood, PTL

\* Every handler at work is on a mission that exists, and a creation under way
\* has passed the deadline check.
THEOREM HandlersAlwaysGood == Spec => []HandlersStayGood
<1>1. MissionInv => HandlersStayGood
  BY DEF MissionInv
<1>2. QED
  BY <1>1, MissionsAlwaysGood, PTL

\* isAfterDeadline, with its ISO weeks and their years, is the rule the users
\* are told: by Thursday of the week before, for every hour of departure
\* until 2099 and every hour of request.
THEOREM RequestsInTime == Spec => []SubmittedInTime
<1>1. ASSUME MissionInv
      PROVE  SubmittedInTime
  <2>1. ASSUME NEW m \in Existing, ~missions[m].bypass
        PROVE  LET day == (missions[m].depart + TzOffset) \div 24
               IN  (missions[m].createdAt + TzOffset) \div 24 <= day - DayOfWeek(day) - 3
    <3>1. /\ missions[m].depart \in Hours
          /\ ~IsAfterDeadline(missions[m].depart, missions[m].createdAt)
      BY <1>1, <2>1 DEF MissionInv, HandlersStayGood
    <3>2. missions[m].createdAt \in Nat
      BY <1>1, RowFields DEF Existing
    <3>3. QED
      BY <3>1, <3>2, InTime
  <2>2. QED
    BY <2>1 DEF SubmittedInTime
<1>2. QED
  BY <1>1, MissionsAlwaysGood, PTL

-----------------------------------------------------------------------------
(* One handler at a time: bookings, purchases and verdicts.                *)

\* What holds between two calls when handlers do not overlap; the status
\* table of the desk (updateStatus) may give a vehicle back its booking.
Settled ==
    /\ \A r \in Requests : req[r] # Idle => r \in scene.requests
    /\ \A r \in Requests : StillSo(req[r])
    /\ LinksExact
    /\ VerdictSound
    /\ "updateStatus" \notin scene.endpoints => NoDoubleBooking

SerialInv == MissionInv /\ (OneAtATime => Settled)

LEMMA IdleStillSo == StillSo(Idle)
BY DEF StillSo, Idle

\* Once the handler at work leaves w, nobody else has anything to do.
LEMMA Alone ==
    ASSUME MissionInv, OneAtATime, Settled, scene' = scene,
           NEW r \in Requests, r \in scene.requests \/ req[r] # Idle,
           NEW w, Await(r, w)
    PROVE  /\ r \in scene.requests
           /\ req'[r] = w /\ \A q \in Requests \ {r} : req'[q] = Idle
           /\ \A q \in Requests : req'[q] # Idle => q \in scene'.requests
<1>1. r \in scene.requests
  BY DEF Settled
<1>2. \A q \in Requests \ {r} : req[q] = Idle
  BY <1>1 DEF Settled, OneAtATime
<1>3. req'[r] = w /\ \A q \in Requests \ {r} : req'[q] = req[q]
  BY DEF MissionInv, MissionTypeOK, Await
<1>4. QED
  BY <1>1, <1>2, <1>3

\* A handler that reads rows: they are as it found them.
LEMMA ReadKeepsSettled ==
    ASSUME MissionInv, OneAtATime, Settled, scene' = scene,
           UNCHANGED << missions, purchases, link >>,
           NEW r \in Requests, r \in scene.requests \/ req[r] # Idle,
           NEW w, StillSo(w), Await(r, w)
    PROVE  Settled'
<1>1. req'[r] = w /\ \A q \in Requests \ {r} : req'[q] = Idle
  BY Alone
<1>2. \A q \in Requests : req'[q] # Idle => q \in scene'.requests
  BY Alone
<1>3. StillSo(w)' /\ StillSo(Idle)'
  BY IdleStillSo DEF StillSo, VehicleConflict, Idle
<1>4. \A q \in Requests : StillSo(req[q])'
  <2>1. \A q \in Requests : req'[q] = w \/ req'[q] = Idle
    BY <1>1
  <2>2. QED
    BY <1>3, <2>1 DEF StillSo, VehicleConflict
<1>5. LinksExact' /\ VerdictSound' /\ ("updateStatus" \notin scene'.endpoints => NoDoubleBooking')
  BY DEF Settled, LinksExact, VerdictSound, NoDoubleBooking
<1>6. QED
  BY <1>2, <1>4, <1>5 DEF Settled

\* One that has written: nobody waits any more.
LEMMA WriteKeepsSettled ==
    ASSUME MissionInv, OneAtATime, Settled, scene' = scene,
           NEW r \in Requests, r \in scene.requests \/ req[r] # Idle,
           \/ Await(r, Idle)
           \/ req' = req /\ req[r] = Idle,
           LinksExact', VerdictSound',
           "updateStatus" \notin scene.endpoints => NoDoubleBooking'
    PROVE  Settled'
<1>1. Await(r, Idle)
  BY DEF Await, MissionInv, MissionTypeOK
<1>2. /\ \A q \in Requests : req'[q] = Idle
      /\ \A q \in Requests : req'[q] # Idle => q \in scene'.requests
  BY <1>1, Alone
<1>3. \A q \in Requests : StillSo(req[q])'
  BY <1>2 DEF StillSo, Idle
<1>4. QED
  BY <1>2, <1>3 DEF Settled

\* The rows of VerdictSound, and what a write may do to a booking.
Verdict(mission) ==
    /\ mission.status = "LIQUIDATION_VALIDEE" =>
        mission.report # None /\ AllValidated(mission.report)
    /\ mission.status = "LIQUIDATION_REJETEE" =>
        mission.report # None /\ HasRejection(mission.report)

BookingKept(m, row) ==
    row.status \in Booked /\ row.vehicle # None =>
        \/ missions[m].status \in Booked /\ row.vehicle = missions[m].vehicle
        \/ VehicleConflict(m, row.vehicle) = {}

LEMMA RowKeepsPromises ==
    ASSUME MissionInv, Settled, NEW m \in Missions, NEW row,
           missions' = [missions EXCEPT ![m] = row],
           \/ row.depart = missions[m].depart /\ row.retour = missions[m].retour
           \/ row.vehicle = None,
           Verdict(row), "updateStatus" \notin scene.endpoints => BookingKept(m, row)
    PROVE  VerdictSound' /\ ("updateStatus" \notin scene.endpoints => NoDoubleBooking')
<1>1. missions'[m] = row /\ \A n \in Missions \ {m} : missions'[n] = missions[n]
  BY DEF MissionInv, MissionTypeOK
<1>2. VerdictSound'
  <2>1. \A n \in Missions : Verdict(missions[n])
    BY DEF Settled, VerdictSound, Verdict
  <2>2. \A n \in Missions : Verdict(missions'[n])
    BY <1>1, <2>1
  <2>3. QED
    BY <2>2 DEF VerdictSound, Verdict
<1>3. ASSUME "updateStatus" \notin scene.endpoints
      PROVE  NoDoubleBooking'
  <2>1. NoDoubleBooking /\ BookingKept(m, row)
    BY <1>3 DEF Settled
  <2>2. \A n \in Missions : missions[n].depart \in Nat /\ missions[n].retour \in Nat
    BY RowFields
  <2>3. ASSUME NEW n \in Missions \ {m}, row.vehicle = missions[n].vehicle, row.vehicle # None,
               row.status \in Booked, missions[n].status \in Booked
        PROVE  row.retour <= missions[n].depart \/ missions[n].retour <= row.depart
    <3>1. row.depart = missions[m].depart /\ row.retour = missions[m].retour
      BY <2>3
    <3>2. CASE missions[m].status \in Booked /\ row.vehicle = missions[m].vehicle
      BY <2>1, <2>3, <3>1, <3>2 DEF NoDoubleBooking
    <3>3. CASE VehicleConflict(m, row.vehicle) = {}
      <4>1. ~(/\ missions[n].depart < missions[m].retour
              /\ missions[n].retour > missions[m].depart)
        BY <2>3, <3>3 DEF VehicleConflict
      <4>2. QED
        BY <2>2, <3>1, <4>1
    <3>4. QED
      BY <2>1, <2>3, <3>2, <3>3 DEF BookingKept
  <2>4. ASSUME NEW a \in Missions, NEW b \in Missions, a # b,
               missions'[a].vehicle = missions'[b].vehicle, missions'[a].vehicle # None,
               missions'[a].status \in Booked, missions'[b].status \in Booked
        PROVE  \/ missions'[a].retour <= missions'[b].depart
               \/ missions'[b].retour <= missions'[a].depart
    <3>1. CASE a = m
      BY <1>1, <2>3, <2>4, <3>1
    <3>2. CASE b = m
      BY <1>1, <2>3, <2>4, <3>2
    <3>3. CASE a # m /\ b # m
      BY <1>1, <2>1, <2>4, <3>3 DEF NoDoubleBooking
    <3>4. QED
      BY <3>1, <3>2, <3>3
  <2>5. QED
    BY <2>4 DEF NoDoubleBooking
<1>4. QED
  BY <1>2, <1>3

LEMMA ReadsStaySettled ==
    ASSUME MissionInv, OneAtATime, Settled, scene' = scene, NEW r \in Requests,
           \/ \E m \in Missions :
                \/ CreateMission(r, m) \/ Cancel(r, m) \/ UpdateStatus(r, m)
                \/ AssignVehicle(r, m) \/ Confirm(r, m) \/ TriggerDA(r, m)
                \/ Submit(r, m) \/ Resubmit(r, m) \/ Decide(r, m)
           \/ ReadRows(r) \/ AlreadyDecided(r)
           \/ (CountPurchases(r) \/ CreatePurchase(r)) /\ UNCHANGED missions
    PROVE  Settled'
<1>1. UNCHANGED << missions, purchases, link >>
  BY DEF CreateMission, Cancel, UpdateStatus, AssignVehicle, Confirm, TriggerDA, CheckLink,
         Submit, Resubmit, Decide, ReadRows, AlreadyDecided, CountPurchases, CreatePurchase,
         MissionCalled
<1>2. ASSUME r \in scene.requests \/ req[r] # Idle, NEW w, Await(r, w), StillSo(w)
      PROVE  Settled'
  BY <1>1, <1>2, ReadKeepsSettled
<1>3. \A endpoint : Free(r, endpoint) => r \in scene.requests /\ endpoint \in scene.endpoints
  BY DEF Free
<1>4. ASSUME NEW m \in Missions, CreateMission(r, m)
      PROVE  Settled'
  <2>1. PICK d, bypass :
            Await(r, [do |-> "createMission", mission |-> m, number |-> NextMissionNumber,
                      depart |-> d.depart, retour |-> d.retour,
                      createdAt |-> d.now, bypass |-> bypass])
    BY <1>4 DEF CreateMission
  <2> DEFINE w == [do |-> "createMission", mission |-> m, number |-> NextMissionNumber,
                   depart |-> d.depart, retour |-> d.retour,
                   createdAt |-> d.now, bypass |-> bypass]
  <2>2. StillSo(w)
    BY DEF StillSo
  <2>3. QED
    BY <1>2, <1>3, <1>4, <2>1, <2>2 DEF CreateMission, MissionCalled
<1>5. ASSUME NEW m, NEW status, WriteStatus(r, m, status), r \in scene.requests,
             status \in Booked /\ "updateStatus" \notin scene.endpoints
                => missions[m].status \in Booked
      PROVE  Settled'
  <2> DEFINE w == [do |-> "setStatus", mission |-> m, status |-> status]
  <2>1. StillSo(w)
    BY <1>5 DEF StillSo
  <2>2. QED
    BY <1>2, <1>5, <2>1 DEF WriteStatus
<1>6. ASSUME NEW m \in Missions, Cancel(r, m) \/ UpdateStatus(r, m) \/ Confirm(r, m)
      PROVE  Settled'
  <2>1. CASE Cancel(r, m)
    BY <1>3, <1>5, <2>1 DEF Cancel, MissionCalled, Booked
  <2>2. CASE UpdateStatus(r, m)
    BY <1>3, <1>5, <2>2 DEF UpdateStatus, MissionCalled
  <2>3. CASE Confirm(r, m)
    BY <1>3, <1>5, <2>3 DEF Confirm, MissionCalled, Booked, Found
  <2>4. QED
    BY <1>6, <2>1, <2>2, <2>3
<1>7. ASSUME NEW m \in Missions, AssignVehicle(r, m)
      PROVE  Settled'
  <2>1. PICK v \in Vehicles :
            /\ VehicleConflict(m, v) = {}
            /\ Await(r, [do |-> "assignVehicle", mission |-> m, vehicle |-> v])
    BY <1>7 DEF AssignVehicle
  <2> DEFINE w == [do |-> "assignVehicle", mission |-> m, vehicle |-> v]
  <2>2. StillSo(w)
    BY <2>1 DEF StillSo
  <2>3. QED
    BY <1>2, <1>3, <1>7, <2>1, <2>2 DEF AssignVehicle, MissionCalled
<1>8. ASSUME NEW m \in Missions, Submit(r, m) \/ Resubmit(r, m)
      PROVE  Settled'
  <2>1. PICK do \in {"submit", "resubmit"} :
            /\ Await(r, [do |-> do, mission |-> m])
            /\ do = "submit" => missions[m].report = None
            /\ do = "resubmit" => missions[m].report # None /\ HasRejection(missions[m].report)
    BY <1>8 DEF Submit, Resubmit, Write
  <2> DEFINE w == [do |-> do, mission |-> m]
  <2>2. StillSo(w)
    BY <2>1 DEF StillSo
  <2>3. QED
    BY <1>2, <1>3, <1>8, <2>1, <2>2 DEF Submit, Resubmit, MissionCalled
<1>9. ASSUME NEW m \in Missions, Decide(r, m)
      PROVE  Settled'
  <2>1. PICK v, vote :
            Await(r, [do |-> "readRows", mission |-> m, role |-> v, vote |-> vote,
                      seen |-> missions[m].status])
    BY <1>9 DEF Decide
  <2> DEFINE w == [do |-> "readRows", mission |-> m, role |-> v, vote |-> vote,
                   seen |-> missions[m].status]
  <2>2. StillSo(w)
    BY DEF StillSo
  <2>3. QED
    BY <1>2, <1>3, <1>9, <2>1, <2>2 DEF Decide, MissionCalled
<1>10. CASE ReadRows(r)
  <2> DEFINE v == req[r]
             rows == missions[v.mission].report
             outcome == Outcome([rows EXCEPT ![v.role] = v.vote], v.seen)
             w == [do |-> "decide", mission |-> v.mission, role |-> v.role, vote |-> v.vote,
                   status |-> outcome]
  <2>1. /\ v.do = "readRows" /\ rows[v.role] = "EN_ATTENTE" /\ Await(r, w)
    BY <1>10 DEF ReadRows
  <2>2. v.seen = missions[v.mission].status
    BY <2>1 DEF Settled, StillSo
  <2>3. StillSo(w)
    BY <2>1, <2>2 DEF StillSo
  <2>4. req[r] # Idle
    BY <2>1 DEF Idle
  <2>5. QED
    BY <1>2, <2>1, <2>3, <2>4
<1>11. CASE AlreadyDecided(r)
  BY <1>2, <1>11, IdleStillSo DEF AlreadyDecided, Done, Idle
<1>12. ASSUME NEW m \in Missions, TriggerDA(r, m)
      PROVE  Settled'
  <2> DEFINE w == [do |-> "countPurchases", origin |-> m]
  <2>1. link[m] = 0 /\ Await(r, w)
    BY <1>12 DEF TriggerDA, CheckLink
  <2>2. StillSo(w)
    BY <2>1 DEF StillSo
  <2>3. QED
    BY <1>2, <1>3, <1>12, <2>1, <2>2 DEF TriggerDA
<1>13. ASSUME r \in scene.requests \/ req[r] # Idle, NEW o, Await(r, Insert(o)),
              o # None => link[o] = 0
      PROVE  Settled'
  <2>1. StillSo(Insert(o))
    BY <1>13 DEF StillSo, Insert
  <2>2. QED
    BY <1>2, <1>13, <2>1
<1>14. CASE CountPurchases(r)
  <2>1. req[r].do = "countPurchases" /\ StillSo(req[r])
    BY <1>14 DEF CountPurchases, Settled
  <2>2. req[r].origin # None => link[req[r].origin] = 0
    BY <2>1 DEF StillSo
  <2>3. QED
    BY <1>13, <1>14, <2>1, <2>2 DEF CountPurchases, Idle
<1>15. CASE CreatePurchase(r)
  BY <1>3, <1>13, <1>15 DEF CreatePurchase
<1>16. QED
  BY <1>4, <1>6, <1>7, <1>8, <1>9, <1>10, <1>11, <1>12, <1>14, <1>15

\* The work of a handler that writes, and the rows it finds.
LEMMA WrittenKeepsPromises ==
    ASSUME MissionInv, Settled, NEW w \in Work, GoodWork(w), StillSo(w),
           w.do \in {"setStatus", "assignVehicle", "submit", "resubmit", "decide"}
    PROVE  LET row == Written(missions[w.mission], w)
           IN  /\ Verdict(row)
               /\ "updateStatus" \notin scene.endpoints => BookingKept(w.mission, row)
<1> DEFINE m == w.mission
           mission == missions[m]
           row == Written(mission, w)
<1>1. m \in Existing /\ mission \in MissionRow /\ Verdict(mission)
  BY RowFields DEF GoodWork, Existing, Settled, VerdictSound, Verdict
<1> HIDE DEF m
<1>2. CASE w.do = "setStatus"
  <2>1. row = [mission EXCEPT !.status = w.status]
    BY <1>2 DEF Written
  <2>2. w.status \notin {"LIQUIDATION_VALIDEE", "LIQUIDATION_REJETEE"}
    BY <1>2, WorkFields
  <2>3. "updateStatus" \notin scene.endpoints /\ w.status \in Booked => mission.status \in Booked
    BY <1>2 DEF StillSo, m
  <2>4. row.status = w.status /\ row.vehicle = mission.vehicle
    BY <1>1, <2>1 DEF MissionRow
  <2> HIDE DEF row
  <2>5. Verdict(row) /\ ("updateStatus" \notin scene.endpoints => BookingKept(m, row))
    BY <2>2, <2>3, <2>4 DEF Verdict, BookingKept
  <2>6. QED
    BY <2>5 DEF row, m
<1>3. CASE w.do = "assignVehicle"
  <2>1. row = [mission EXCEPT !.status = "VEHICULE_ATTRIBUE", !.vehicle = w.vehicle]
    BY <1>3 DEF Written
  <2>2. VehicleConflict(m, w.vehicle) = {}
    BY <1>3 DEF StillSo, m
  <2>3. row.status = "VEHICULE_ATTRIBUE" /\ row.vehicle = w.vehicle
    BY <1>1, <2>1 DEF MissionRow
  <2> HIDE DEF row
  <2>4. Verdict(row) /\ BookingKept(m, row)
    BY <2>2, <2>3 DEF Verdict, BookingKept
  <2>5. QED
    BY <2>4 DEF row, m
<1>4. CASE w.do \in {"submit", "resubmit"}
  <2>1. row = [mission EXCEPT !.status = "LIQUIDEE", !.report = BlankReport]
    BY <1>4 DEF Written, StillSo, m
  <2>2. row.status = "LIQUIDEE"
    BY <1>1, <2>1 DEF MissionRow
  <2> HIDE DEF row
  <2>3. Verdict(row) /\ BookingKept(m, row)
    BY <2>2 DEF Verdict, BookingKept, Booked
  <2>4. QED
    BY <2>3 DEF row, m
<1>5. CASE w.do = "decide"
  <2> DEFINE report == [mission.report EXCEPT ![w.role] = w.vote]
             status == IF w.status = None THEN mission.status ELSE w.status
  <2>1. row = [mission EXCEPT !.report = report, !.status = status]
    BY <1>1, <1>5 DEF Written, MissionRow
  <2>2. mission.report \in [Validators -> Votes] /\ mission.report[w.role] = "EN_ATTENTE"
        /\ w.status = Outcome(report, mission.status)
    BY <1>1, <1>5 DEF MissionRow, GoodWork, StillSo, m
  <2>3. w.role \in Validators /\ w.vote \in {"VALIDEE", "REJETEE"} /\ BlankReport # None
        /\ w.status \in {"LIQUIDATION_VALIDEE", "LIQUIDATION_REJETEE", None}
    BY <1>5, WorkFields, NullAssumption DEF Votes, BlankReport
  <2>4. row.status = status /\ row.report = report /\ row.vehicle = mission.vehicle
    BY <1>1, <2>1 DEF MissionRow
  <2>5. /\ report \in [Validators -> Votes] /\ report[w.role] = w.vote
        /\ \A v \in Validators \ {w.role} : report[v] = mission.report[v]
    BY <2>2, <2>3 DEF Votes
  <2>6. report # None /\ None \notin Statuses
    BY <2>5, NullAssumption
  <2> HIDE DEF row, report
  <2>7. Verdict(row)
    <3>1. CASE w.status = None
      <4>1. mission.status # "LIQUIDATION_VALIDEE"
        BY <1>1, <2>2, <2>3 DEF Verdict, AllValidated
      <4>2. mission.status = "LIQUIDATION_REJETEE" => HasRejection(report)
        BY <1>1, <2>2, <2>5 DEF Verdict, HasRejection
      <4>3. QED
        BY <2>4, <2>6, <3>1, <4>1, <4>2 DEF Verdict
    <3>2. CASE w.status = "LIQUIDATION_VALIDEE"
      BY <2>2, <2>4, <2>6, <3>2 DEF Verdict, Outcome, Statuses
    <3>3. CASE w.status = "LIQUIDATION_REJETEE"
      BY <2>2, <2>4, <2>6, <3>3 DEF Verdict, Outcome, Statuses
    <3>4. QED
      BY <2>3, <3>1, <3>2, <3>3
  <2>8. BookingKept(m, row)
    BY <2>3, <2>4 DEF BookingKept, Booked
  <2>9. QED
    BY <2>7, <2>8 DEF row, m
<1>6. QED
  BY <1>2, <1>3, <1>4, <1>5

LEMMA WritesStaySettled ==
    ASSUME MissionInv, OneAtATime, Settled, scene' = scene, NEW r \in Requests,
           \/ WriteMission(r)
           \/ \E m \in Missions : DeleteRequestor(r, m)
           \/ InsertMission(r) \/ InsertRental(r)
           \/ DeleteDraft(r) /\ UNCHANGED missions
    PROVE  Settled'
<1>1. /\ r \in scene.requests \/ req[r] # Idle
      /\ Await(r, Idle) \/ (req' = req /\ req[r] = Idle)
  BY DEF WriteMission, DeleteRequestor, InsertMission, InsertRental, InsertPurchase,
         DeleteDraft, Free, Done, Idle
<1>2. ASSUME LinksExact', VerdictSound',
             "updateStatus" \notin scene.endpoints => NoDoubleBooking'
      PROVE  Settled'
  BY <1>1, <1>2, WriteKeepsSettled
<1>3. req[r] \in Work /\ GoodWork(req[r]) /\ StillSo(req[r])
  BY CurrentWork DEF Settled
<1>4. \A m \in Missions : missions[m] \in MissionRow /\ Verdict(missions[m])
  BY RowFields DEF Settled, VerdictSound, Verdict
<1>5. ASSUME missions' = missions
      PROVE  VerdictSound' /\ ("updateStatus" \notin scene.endpoints => NoDoubleBooking')
  BY <1>5 DEF Settled, VerdictSound, NoDoubleBooking
<1>6. ASSUME purchases' = purchases, link' = link
      PROVE  LinksExact'
  BY <1>6, SameNumbers DEF MissionInv, Settled
<1>7. CASE WriteMission(r)
  <2> DEFINE w == req[r]
             m == w.mission
             row == Written(missions[m], w)
  <2>1. /\ w.do \in {"setStatus", "assignVehicle", "submit", "resubmit", "decide"}
        /\ missions' = [missions EXCEPT ![m] = row]
        /\ UNCHANGED << purchases, link >>
    BY <1>7 DEF WriteMission
  <2>2. m \in Existing /\ (w.do = "decide" => missions[m].report # None)
    BY <1>3, <2>1 DEF GoodWork
  <2>3. m \in Missions /\ missions[m] \in MissionRow /\ missions[m].status \in Statuses
    BY <2>2, RowFields DEF Existing
  <2>4. Verdict(row) /\ ("updateStatus" \notin scene.endpoints => BookingKept(m, row))
    BY <1>3, <2>1, WrittenKeepsPromises
  <2> HIDE DEF w, m
  <2>5. row.depart = missions[m].depart /\ row.retour = missions[m].retour
    BY <1>3, <2>1, <2>2, <2>3, WrittenRow DEF w
  <2> HIDE DEF row
  <2>6. QED
    BY <1>2, <1>6, <2>1, <2>3, <2>4, <2>5, RowKeepsPromises
<1>8. ASSUME NEW m \in Missions, DeleteRequestor(r, m)
      PROVE  Settled'
  <2> DEFINE row == [missions[m] EXCEPT !.requestor = FALSE]
  <2>1. missions' = [missions EXCEPT ![m] = row] /\ UNCHANGED << purchases, link >>
    BY <1>8 DEF DeleteRequestor
  <2>2. /\ row.depart = missions[m].depart /\ row.retour = missions[m].retour
        /\ row.status = missions[m].status /\ row.vehicle = missions[m].vehicle
        /\ row.report = missions[m].report
    BY <1>4 DEF MissionRow
  <2> HIDE DEF row
  <2>3. Verdict(row) /\ BookingKept(m, row)
    BY <1>4, <2>2 DEF Verdict, BookingKept
  <2>4. QED
    BY <1>2, <1>6, <2>1, <2>2, <2>3, RowKeepsPromises
<1>9. CASE InsertMission(r)
  <2> DEFINE new == req[r]
             m == new.mission
             row == [NoMission EXCEPT !.status = "EN_ATTENTE", !.number = new.number,
                                      !.depart = new.depart, !.retour = new.retour,
                                      !.createdAt = new.createdAt, !.bypass = new.bypass]
  <2>1. /\ missions' = missions \/ missions' = [missions EXCEPT ![m] = row]
        /\ UNCHANGED << purchases, link >> /\ new.do = "createMission"
    BY <1>9 DEF InsertMission
  <2>2. m \in Missions
    BY <1>3, <2>1, WorkFields
  <2>3. row.status = "EN_ATTENTE" /\ row.vehicle = None
    BY DEF NoMission
  <2> HIDE DEF row, m
  <2>4. Verdict(row) /\ BookingKept(m, row)
    BY <2>3 DEF Verdict, BookingKept
  <2>5. CASE missions' = missions
    BY <1>2, <1>5, <1>6, <2>1, <2>5
  <2>6. CASE missions' = [missions EXCEPT ![m] = row]
    BY <1>2, <1>6, <2>1, <2>2, <2>3, <2>4, <2>6, RowKeepsPromises
  <2>7. QED
    BY <2>1, <2>5, <2>6
<1>10. CASE InsertRental(r)
  <2> DEFINE o == req[r].origin
             row == [missions[o] EXCEPT !.status = "EN_ATTENTE_LOCATION"]
  <2>1. /\ req[r].do = "insertPurchase" /\ InsertPurchase(r)
        /\ missions' = missions
            \/ (o \in Missions /\ missions' = [missions EXCEPT ![o] = row])
    BY <1>10 DEF InsertRental, InsertPurchase
  <2>2. FoundNoLink(r)
    BY <1>3, <2>1 DEF FoundNoLink, StillSo
  <2>3. req[r] \in NumbersWork
    BY <1>3, <2>1, WorkFields
  <2>4. LinksExact'
    BY <2>1, <2>2, <2>3, InsertKeepsNumbers DEF MissionInv, Settled
  <2>5. CASE missions' = missions
    BY <1>2, <1>5, <2>4, <2>5
  <2>6. CASE o \in Missions /\ missions' = [missions EXCEPT ![o] = row]
    <3> HIDE DEF o
    <3>1. /\ row.depart = missions[o].depart /\ row.retour = missions[o].retour
          /\ row.status = "EN_ATTENTE_LOCATION"
      BY <1>4, <2>6 DEF MissionRow
    <3> HIDE DEF row
    <3>2. Verdict(row) /\ BookingKept(o, row)
      BY <3>1 DEF Verdict, BookingKept, Booked
    <3>3. QED
      BY <1>2, <2>4, <2>6, <3>1, <3>2, RowKeepsPromises
  <2>7. QED
    BY <2>1, <2>5, <2>6
<1>11. CASE DeleteDraft(r) /\ UNCHANGED missions
  <2>1. LinksExact'
    BY <1>11, DeleteKeepsNumbers DEF MissionInv, Settled
  <2>2. QED
    BY <1>2, <1>5, <1>11, <2>1
<1>12. QED
  BY <1>7, <1>8, <1>9, <1>10, <1>11

LEMMA InitSerial == Init => SerialInv
<1> SUFFICES ASSUME Init
             PROVE  SerialInv
  OBVIOUS
<1>1. MissionInv /\ LinksExact
  BY InitInv, NumbersStart DEF Init, MissionInit
<1>2. (\A r \in Requests : req[r] = Idle) /\ \A m \in Missions : missions[m] = NoMission
  BY DEF Init, MissionInit
<1>3. NoMission.status = None /\ NoMission.vehicle = None
  BY DEF NoMission
<1>4. VerdictSound /\ NoDoubleBooking
  BY <1>2, <1>3, NullAssumption DEF VerdictSound, NoDoubleBooking, Statuses
<1>5. \A r \in Requests : StillSo(req[r])
  BY <1>2, IdleStillSo
<1>6. QED
  BY <1>1, <1>2, <1>4, <1>5 DEF SerialInv, Settled

LEMMA StepSerial == SerialInv /\ [Next]_vars => SerialInv'
<1> SUFFICES ASSUME SerialInv, [Next]_vars
             PROVE  SerialInv'
  OBVIOUS
<1>1. MissionInv /\ MissionInv'
  BY StepInv DEF SerialInv
<1>2. scene' = scene
  BY DEF Next, vars
<1>3. ASSUME OneAtATime'
      PROVE  Settled'
  <2>1. OneAtATime /\ Settled
    BY <1>2, <1>3 DEF OneAtATime, SerialInv
  <2>2. CASE UNCHANGED vars
    BY <2>1, <2>2 DEF vars, Settled, StillSo, VehicleConflict, LinksExact, VerdictSound,
                      NoDoubleBooking
  <2>3. CASE Next
    <3>1. PICK r \in Requests : MissionNext(r)
      BY <2>3 DEF Next
    <3>2. CASE \/ \E m \in Missions :
                    \/ CreateMission(r, m) \/ Cancel(r, m) \/ UpdateStatus(r, m)
                    \/ AssignVehicle(r, m) \/ Confirm(r, m) \/ TriggerDA(r, m)
                    \/ Submit(r, m) \/ Resubmit(r, m) \/ Decide(r, m)
               \/ ReadRows(r) \/ AlreadyDecided(r)
               \/ (CountPurchases(r) \/ CreatePurchase(r)) /\ UNCHANGED missions
      BY <1>1, <1>2, <2>1, <3>2, ReadsStaySettled
    <3>3. CASE \/ WriteMission(r)
               \/ \E m \in Missions : DeleteRequestor(r, m)
               \/ InsertMission(r) \/ InsertRental(r)
               \/ DeleteDraft(r) /\ UNCHANGED missions
      BY <1>1, <1>2, <2>1, <3>3, WritesStaySettled
    <3>4. QED
      BY <3>1, <3>2, <3>3 DEF MissionNext, NumbersNext
  <2>4. QED
    BY <2>2, <2>3
<1>4. QED
  BY <1>1, <1>3 DEF SerialInv

LEMMA AlwaysSettled == Spec => []SerialInv
BY InitSerial, StepSerial, PTL DEF Spec

\* What a handler has found is still so when it writes, if no two overlap:
\* each guard of the desk and of the expense report holds at the write as it
\* did at the read.
THEOREM ReadsAlwaysStand == Spec => []ReadsStand
<1>1. SerialInv => ReadsStand
  BY DEF SerialInv, Settled, ReadsStand
<1>2. QED
  BY <1>1, AlwaysSettled, PTL

\* The status of a report is the verdict of its rows (decide, resubmit).
THEOREM VerdictsSound == Spec => [](OneAtATime => VerdictSound)
<1>1. SerialInv => (OneAtATime => VerdictSound)
  BY DEF SerialInv, Settled
<1>2. QED
  BY <1>1, AlwaysSettled, PTL

\* A mission has the purchase its link names and no other, or none
\* (triggerDA).
THEOREM OneRentalEach == Spec => [](OneAtATime => RentalLinked)
<1>1. ASSUME SerialInv, OneAtATime
      PROVE  RentalLinked
  <2>1. NumbersSound /\ LinksExact /\ Missions \subseteq Origins /\ None \notin Origins
    BY <1>1, MissionAssumption, PurchaseNumbersAssumption DEF SerialInv, Settled, MissionInv
  <2>2. \A p \in purchases : p.number # 0
    BY <2>1 DEF NumbersSound, NumbersType, Purchase
  <2>3. ASSUME NEW m \in Missions
        PROVE  {p.number : p \in {q \in purchases : q.origin = m}}
                    = IF link[m] = 0 THEN {} ELSE {link[m]}
    <3>1. \A p \in purchases : p.origin = m => link[m] = p.number /\ link[m] # 0
      BY <2>1, <2>2 DEF LinksExact
    <3>2. link[m] # 0 => [number |-> link[m], origin |-> m] \in purchases
      BY <2>1 DEF NumbersSound
    <3>3. QED
      BY <3>1, <3>2
  <2>4. QED
    BY <2>3 DEF RentalLinked
<1>2. SerialInv => (OneAtATime => RentalLinked)
  BY <1>1
<1>3. QED
  BY <1>2, AlwaysSettled, PTL

\* No vehicle is on two missions that overlap, for any number of missions and
\* vehicles and any dates, as long as the desk does not set a status by hand:
\* updateStatus can bring back a mission to a vehicle given away meanwhile.
THEOREM NoVehicleTwice ==
    Spec => [](OneAtATime /\ "updateStatus" \notin scene.endpoints => NoDoubleBooking)
<1>1. SerialInv => (OneAtATime /\ "updateStatus" \notin scene.endpoints => NoDoubleBooking)
  BY DEF SerialInv, Settled
<1>2. QED
  BY <1>1, AlwaysSettled, PTL

-----------------------------------------------------------------------------
(* The expense report of a mission is a ballot.                            *)

\* A row as the ballot has it.
RowVotes(mission) ==
    [v \in Validators |->
        IF mission.report = None \/ mission.report[v] = "EN_ATTENTE" THEN "none"
        ELSE IF mission.report[v] = "VALIDEE" THEN "yes" ELSE "no"]

RowVerdict(mission) ==
    IF mission.report = None THEN "closed"
    ELSE IF mission.status = "LIQUIDATION_VALIDEE" THEN "accepted"
    ELSE IF mission.status = "LIQUIDATION_REJETEE" THEN "refused" ELSE "open"

LEMMA RowsOfBallot ==
    /\ BallotVotes = [m \in Missions |-> RowVotes(missions[m])]
    /\ BallotVerdicts = [m \in Missions |-> RowVerdict(missions[m])]
BY DEF BallotVotes, BallotVerdicts, RowVotes, RowVerdict

\* A step that writes one row writes one ballot.
LEMMA RowBecomes ==
    ASSUME MissionInv, NEW m \in Missions, NEW row,
           missions' = [missions EXCEPT ![m] = row]
    PROVE  Ballot!Become(m, RowVotes(row), RowVerdict(row))
<1>1. missions'[m] = row /\ \A n \in Missions \ {m} : missions'[n] = missions[n]
  BY DEF MissionInv, MissionTypeOK
<1>2. BallotVotes' = [n \in Missions |-> RowVotes(missions'[n])]
  BY DEF BallotVotes, RowVotes
<1>3. BallotVerdicts' = [n \in Missions |-> RowVerdict(missions'[n])]
  BY DEF BallotVerdicts, RowVerdict
<1>4. BallotVotes' = [BallotVotes EXCEPT ![m] = RowVotes(row)]
  BY <1>1, <1>2, RowsOfBallot
<1>5. BallotVerdicts' = [BallotVerdicts EXCEPT ![m] = RowVerdict(row)]
  BY <1>1, <1>3, RowsOfBallot
<1>6. QED
  BY <1>4, <1>5 DEF Ballot!Become

LEMMA NoBallot ==
    ASSUME missions' = missions
    PROVE  UNCHANGED Ballot!vars
BY DEF Ballot!vars, BallotVotes, BallotVerdicts

\* The desk writes the status, or nothing the ballot knows of.
LEMMA DeskOverrides ==
    ASSUME MissionInv, NEW m \in Missions, NEW row,
           missions' = [missions EXCEPT ![m] = row], row.report = missions[m].report,
           \/ row.status = missions[m].status
           \/ row.report = None
           \/ row.status \notin {"LIQUIDATION_VALIDEE", "LIQUIDATION_REJETEE"}
    PROVE  [Ballot!Next]_Ballot!vars
<1>1. Ballot!Become(m, RowVotes(row), RowVerdict(row))
  BY RowBecomes
<1>2. /\ BallotVotes[m] = RowVotes(missions[m]) /\ BallotVerdicts[m] = RowVerdict(missions[m])
      /\ BallotVotes = [BallotVotes EXCEPT ![m] = @]
      /\ BallotVerdicts = [BallotVerdicts EXCEPT ![m] = @]
  BY RowsOfBallot
<1>3. RowVotes(row) = RowVotes(missions[m])
  BY DEF RowVotes
<1>4. CASE row.status = missions[m].status \/ row.report = None
  <2>1. RowVerdict(row) = RowVerdict(missions[m])
    BY <1>4 DEF RowVerdict
  <2>2. UNCHANGED Ballot!vars
    BY <1>1, <1>2, <1>3, <2>1 DEF Ballot!Become, Ballot!vars
  <2>3. QED
    BY <2>2
<1>5. CASE /\ row.report # None
           /\ row.status \notin {"LIQUIDATION_VALIDEE", "LIQUIDATION_REJETEE"}
  <2>1. RowVerdict(row) = "open" /\ RowVerdict(missions[m]) # "closed"
    BY <1>5 DEF RowVerdict
  <2>2. Ballot!Override(m)
    BY <1>1, <1>2, <1>3, <2>1 DEF Ballot!Override
  <2>3. QED
    BY <2>2 DEF Ballot!Next
<1>6. QED
  BY <1>4, <1>5

LEMMA WriteIsBallot ==
    ASSUME MissionInv, Settled, NEW r \in Requests, WriteMission(r)
    PROVE  [Ballot!Next]_Ballot!vars
<1> DEFINE w == req[r]
           m == w.mission
           mission == missions[m]
           row == Written(mission, w)
<1>1. /\ w.do \in {"setStatus", "assignVehicle", "submit", "resubmit", "decide"}
      /\ missions' = [missions EXCEPT ![m] = row]
  BY DEF WriteMission
<1>2. w \in Work /\ GoodWork(w) /\ StillSo(w)
  BY CurrentWork DEF Settled
<1>3. m \in Missions /\ mission \in MissionRow /\ (w.do = "decide" => mission.report # None)
      /\ mission.report \in [Validators -> Votes] \cup {None}
  BY <1>1, <1>2, RowFields DEF GoodWork, Existing
<1>4. Ballot!Become(m, RowVotes(row), RowVerdict(row))
  BY <1>1, <1>3, RowBecomes
<1>5. BallotVotes[m] = RowVotes(mission) /\ BallotVerdicts[m] = RowVerdict(mission)
  BY <1>3, RowsOfBallot
<1>6. BlankReport # None /\ None \notin Statuses /\ None \notin [Validators -> Votes]
  BY NullAssumption DEF BlankReport, Votes
<1>7. CASE w.do = "setStatus"
  <2>1. row = [mission EXCEPT !.status = w.status]
        /\ w.status \notin {"LIQUIDATION_VALIDEE", "LIQUIDATION_REJETEE"}
    BY <1>2, <1>7, WorkFields DEF Written
  <2>2. row.report = mission.report /\ row.status = w.status
    BY <1>3, <2>1 DEF MissionRow
  <2> HIDE DEF row, m
  <2>3. QED
    BY <1>1, <1>3, <2>1, <2>2, DeskOverrides
<1>8. CASE w.do = "assignVehicle"
  <2>1. row = [mission EXCEPT !.status = "VEHICULE_ATTRIBUE", !.vehicle = w.vehicle]
    BY <1>8 DEF Written
  <2>2. row.report = mission.report /\ row.status = "VEHICULE_ATTRIBUE"
    BY <1>3, <2>1 DEF MissionRow
  <2> HIDE DEF row, m
  <2>3. QED
    BY <1>1, <1>3, <2>2, DeskOverrides
<1>9. CASE w.do \in {"submit", "resubmit"}
  <2>1. row = [mission EXCEPT !.status = "LIQUIDEE", !.report = BlankReport]
    BY <1>2, <1>9 DEF Written, StillSo
  <2>2. row.report = BlankReport /\ row.status = "LIQUIDEE"
    BY <1>3, <2>1 DEF MissionRow
  <2>3. RowVotes(row) = Ballot!Blank /\ RowVerdict(row) = "open"
    BY <1>6, <2>2 DEF RowVotes, RowVerdict, Ballot!Blank, BlankReport
  <2> HIDE DEF row
  <2>4. CASE w.do = "submit"
    <3>1. RowVerdict(mission) = "closed"
      BY <1>2, <2>4 DEF StillSo, RowVerdict
    <3>2. Ballot!Open(m)
      BY <1>4, <1>5, <2>3, <3>1 DEF Ballot!Open
    <3>3. QED
      BY <1>3, <3>2 DEF Ballot!Next
  <2>5. CASE w.do = "resubmit"
    <3>1. mission.report # None /\ HasRejection(mission.report)
      BY <1>2, <2>5 DEF StillSo
    <3>2. Ballot!Refused(RowVotes(mission))
      BY <3>1 DEF HasRejection, Ballot!Refused, RowVotes
    <3>3. Ballot!Reopen(m)
      BY <1>4, <1>5, <2>3, <3>2 DEF Ballot!Reopen
    <3>4. QED
      BY <1>3, <3>3 DEF Ballot!Next
  <2>6. QED
    BY <1>9, <2>4, <2>5
<1>10. CASE w.do = "decide"
  <2> DEFINE report == [mission.report EXCEPT ![w.role] = w.vote]
             status == IF w.status = None THEN mission.status ELSE w.status
             v == w.role
             choice == IF w.vote = "VALIDEE" THEN "yes" ELSE "no"
             ballot == [RowVotes(mission) EXCEPT ![v] = choice]
  <2>1. row = [mission EXCEPT !.report = report, !.status = status]
    BY <1>3, <1>10 DEF Written, MissionRow
  <2>2. row.status = status /\ row.report = report
    BY <1>3, <2>1 DEF MissionRow
  <2>3. /\ mission.report \in [Validators -> Votes] /\ mission.report[v] = "EN_ATTENTE"
        /\ w.status = Outcome(report, mission.status)
    BY <1>2, <1>3, <1>10 DEF StillSo
  <2>4. v \in Validators /\ w.vote \in {"VALIDEE", "REJETEE"}
    BY <1>2, <1>10, WorkFields DEF Votes
  <2>5. /\ report \in [Validators -> Votes] /\ report[v] = w.vote
        /\ \A u \in Validators \ {v} : report[u] = mission.report[u]
    BY <2>3, <2>4 DEF Votes
  <2>6. report # None /\ mission.report # None
    BY <1>6, <2>3, <2>5
  <2> HIDE DEF row, report, v
  <2>7. RowVotes(mission)[v] = "none"
    BY <2>3, <2>4 DEF RowVotes
  <2>8. RowVotes(row) = ballot
    BY <2>2, <2>4, <2>5, <2>6 DEF RowVotes, v
  <2>9. \A u \in Validators : /\ ballot[u] = "no" <=> report[u] = "REJETEE"
                              /\ ballot[u] = "yes" <=> report[u] = "VALIDEE"
    BY <2>2, <2>5, <2>6, <2>8 DEF RowVotes, Votes
  <2>10. /\ Ballot!Refused(ballot) <=> HasRejection(report)
         /\ Ballot!Unanimous(ballot) <=> AllValidated(report)
    BY <2>9 DEF Ballot!Refused, Ballot!Unanimous, HasRejection, AllValidated
  <2> HIDE DEF ballot, choice, mission
  <2>11. RowVerdict(row) = IF Ballot!Refused(ballot) THEN "refused"
                           ELSE IF Ballot!Unanimous(ballot) THEN "accepted"
                           ELSE RowVerdict(mission)
    <3>1. /\ "LIQUIDATION_REJETEE" # None /\ "LIQUIDATION_VALIDEE" # None
          /\ HasRejection(report) => ~AllValidated(report)
      BY <1>6 DEF Statuses, HasRejection, AllValidated
    <3>2. status = IF HasRejection(report) THEN "LIQUIDATION_REJETEE"
                   ELSE IF AllValidated(report) THEN "LIQUIDATION_VALIDEE"
                   ELSE mission.status
      BY <2>3, <3>1 DEF Outcome
    <3>3. QED
      BY <2>2, <2>6, <2>10, <3>2 DEF RowVerdict
  <2>12. choice \in {"yes", "no"} /\ RowVerdict(mission) # "closed"
    BY <2>6 DEF choice, RowVerdict
  <2>13. Ballot!Vote(m, v, choice)
    BY <1>4, <1>5, <2>7, <2>8, <2>11, <2>12 DEF Ballot!Vote, ballot
  <2>14. QED
    BY <1>3, <2>4, <2>12, <2>13 DEF Ballot!Next
<1>11. QED
  BY <1>1, <1>7, <1>8, <1>9, <1>10

LEMMA OtherIsBallot ==
    ASSUME MissionInv, NEW r \in Requests,
           InsertMission(r) \/ InsertRental(r) \/ \E m \in Missions : DeleteRequestor(r, m)
    PROVE  [Ballot!Next]_Ballot!vars
<1>1. \A m \in Missions : missions[m] \in MissionRow
  BY RowFields
<1>2. CASE missions' = missions
  BY <1>2, NoBallot
<1>3. CASE InsertMission(r) /\ missions' # missions
  <2> DEFINE new == req[r]
             m == new.mission
             row == [NoMission EXCEPT !.status = "EN_ATTENTE", !.number = new.number,
                                      !.depart = new.depart, !.retour = new.retour,
                                      !.createdAt = new.createdAt, !.bypass = new.bypass]
  <2>1. missions' = [missions EXCEPT ![m] = row] /\ missions[m].status = None
        /\ new.do = "createMission"
    BY <1>3 DEF InsertMission
  <2>2. m \in Missions
    BY <2>1, CurrentWork, WorkFields
  <2>3. missions[m].report = None /\ row.report = None
    BY <2>1, <2>2, RowFields, NullAssumption DEF NoMission
  <2> HIDE DEF row, m
  <2>4. QED
    BY <2>1, <2>2, <2>3, DeskOverrides
<1>4. CASE InsertRental(r) /\ missions' # missions
  <2> DEFINE m == req[r].origin
             row == [missions[m] EXCEPT !.status = "EN_ATTENTE_LOCATION"]
  <2>1. m \in Missions /\ missions' = [missions EXCEPT ![m] = row]
    BY <1>4 DEF InsertRental
  <2>2. row.report = missions[m].report /\ row.status = "EN_ATTENTE_LOCATION"
    BY <1>1, <2>1 DEF MissionRow
  <2> HIDE DEF row, m
  <2>3. QED
    BY <2>1, <2>2, DeskOverrides
<1>5. ASSUME NEW m \in Missions, DeleteRequestor(r, m)
      PROVE  [Ballot!Next]_Ballot!vars
  <2> DEFINE row == [missions[m] EXCEPT !.requestor = FALSE]
  <2>1. missions' = [missions EXCEPT ![m] = row]
    BY <1>5 DEF DeleteRequestor
  <2>2. row.report = missions[m].report /\ row.status = missions[m].status
    BY <1>1 DEF MissionRow
  <2> HIDE DEF row
  <2>3. QED
    BY <2>1, <2>2, DeskOverrides
<1>6. QED
  BY <1>2, <1>3, <1>4, <1>5

\* Every step of the desk, of the users and of the validators is a step of the
\* ballot or none.
LEMMA StepIsBallot ==
    SerialInv /\ OneAtATime /\ [Next]_vars => [Ballot!Next]_Ballot!vars
<1> SUFFICES ASSUME SerialInv, OneAtATime, [Next]_vars
             PROVE  [Ballot!Next]_Ballot!vars
  OBVIOUS
<1>1. MissionInv /\ Settled
  BY DEF SerialInv
<1>2. CASE missions' = missions
  BY <1>2, NoBallot
<1>3. CASE missions' # missions
  <2>1. PICK r \in Requests : MissionNext(r)
    BY <1>3 DEF Next, vars
  <2>2. CASE WriteMission(r)
    BY <1>1, <2>2, WriteIsBallot
  <2>3. CASE InsertMission(r) \/ InsertRental(r) \/ \E m \in Missions : DeleteRequestor(r, m)
    BY <1>1, <2>3, OtherIsBallot
  <2>4. QED
    BY <1>3, <2>1, <2>2, <2>3
       DEF MissionNext, MissionCalled, CreateMission, Cancel, UpdateStatus, AssignVehicle,
           Confirm, TriggerDA, Submit, Resubmit, Decide, ReadRows, AlreadyDecided
<1>4. QED
  BY <1>2, <1>3

LEMMA BallotStarts == Init => Ballot!Init
<1> SUFFICES ASSUME Init
             PROVE  Ballot!Init
  OBVIOUS
<1>1. \A m \in Missions : missions[m] = NoMission
  BY DEF Init, MissionInit
<1>2. RowVotes(NoMission) = Ballot!Blank /\ RowVerdict(NoMission) = "closed"
  BY DEF RowVotes, RowVerdict, NoMission, Ballot!Blank
<1>3. QED
  BY <1>1, <1>2, RowsOfBallot DEF Ballot!Init

\* Decisions, verdicts and resubmissions are those of a ballot in which each
\* validator votes once a round, whatever the desk does to the mission, if
\* handlers do not overlap (decide, submit, resubmit).
THEOREM ReportIsBallot == Spec /\ OneAtATime => ImplementsBallot
<1>1. OneAtATime /\ [Next]_vars => OneAtATime'
  BY DEF OneAtATime, Next, vars
<1>2. QED
  BY <1>1, AlwaysSettled, StepIsBallot, BallotStarts, PTL
     DEF Spec, ImplementsBallot, Ballot!Spec
=============================================================================
