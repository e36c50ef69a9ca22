----------------------------- MODULE MCMission -----------------------------
EXTENDS MissionProperties, TLC

CONSTANTS r1, r2, m1, m2

Hour(day) == 24 * day
Voyage(first, last, now) == [depart |-> Hour(first), retour |-> Hour(last), now |-> now]

\* A voyage asked for in time, one that overlaps it and one that does not.
Early == {Voyage(20454, 20456, Hour(20440))}
Overlapping == Early \cup {Voyage(20455, 20457, Hour(20440)), Voyage(20456, 20458, Hour(20440))}

\* Departures on 1 January 2026, a Thursday of week 1, and on 1 January 2027,
\* a Friday of week 53, requested in the last hour before their deadline and
\* in the first one after it.
NewYears ==
    {Voyage(20454, 20456, Hour(20447) + h) : h \in {20, 21}}
    \cup {Voyage(20819, 20819, Hour(20811) + h) : h \in {20, 21}}

SceneOf(requests, endpoints, rows, dates) ==
    [requests |-> requests, endpoints |-> endpoints, rows |-> rows, dates |-> dates]

\* Requests one after the other, on one mission and any endpoint; on two
\* missions that may want the same vehicle; creations side by side.
DeskScene == SceneOf({r1},
    {"create", "cancel", "deleteUser", "updateStatus", "assignVehicle", "confirm",
     "triggerDA", "deleteDraft", "submit", "resubmit", "decide"}, {m1}, Early)
FleetScene == SceneOf({r1},
    {"create", "cancel", "assignVehicle", "confirm", "triggerDA", "createPurchase",
     "deleteDraft"}, {m1, m2}, Overlapping)
CreationScene == SceneOf({r1, r2}, {"create", "cancel"}, {m1, m2}, NewYears)
CircuitScene == SceneOf({r1, r2},
    {"create", "assignVehicle", "confirm", "submit", "decide", "cancel"}, {m1}, Early)

OneByOne == {DeskScene, FleetScene, CreationScene}
SideBySide == {CircuitScene}
=============================================================================
