--------------------------- MODULE MCNotification ---------------------------
EXTENDS NotificationProperties, TLC

CONSTANTS t1, t2

Signature(to) ==
    [type |-> "DA_CREATED", to |-> to, resource |-> "purchase",
     threshold |-> None, hasReminder |-> TRUE]
Event(type, to) ==
    [type |-> type, to |-> to, resource |-> "mission",
     threshold |-> None, hasReminder |-> FALSE]

Base ==
    [requests |-> {t1}, endpoints |-> {"mailCron", "notify"}, messages |-> {},
     disabledEvents |-> {}, days |-> {}, faults |-> 0, expiring |-> {},
     rows |-> 2, admins |-> {"admin"}, newYear |-> 1000]

\* Signatures that are asked for, given and reminded of, over a few days.
Signing ==
    [Base EXCEPT !.endpoints = @ \cup {"sign"}, !.days = 1 .. 3,
                 !.messages = {Signature("first"), Signature("second")}]

\* Two runs at once; failing calls and crashes.
Overlapping == [Signing EXCEPT !.requests = {t1, t2}, !.days = {1},
                                   !.messages = {Signature("first")}]
Failing ==
    [Base EXCEPT !.faults = 3, !.rows = 1, !.messages = {Signature("first")}]

\* The events of the other parts, among them the ones no mail is written for.
Mixed ==
    [Base EXCEPT !.rows = 4,
                 !.messages = {Signature("first"), Event("LIQUIDATION_REJETEE", "first"),
                               Event("TRIP_CREATED", None), Event("TRIP_STATUS_CHANGED", "first"),
                               Event("MAINTENANCE_STATUS_CHANGED", "first")},
                 !.disabledEvents = {"MAINTENANCE_STATUS_CHANGED"}]

\* A document and a lease that expire, across a new year, with a crash.
Alerting ==
    [Base EXCEPT !.endpoints = {"mailCron", "alertCron"}, !.faults = 1, !.rows = 7,
                 !.days = {5, 10, 33, 34}, !.newYear = 10,
                 !.expiring = {[kind |-> "document", name |-> "insurance", expires |-> 34],
                               [kind |-> "contract", name |-> "office", expires |-> 95]}]
NoAdmin == [Alerting EXCEPT !.admins = {}]

Regular == {Signing, Overlapping, Failing, Mixed, Alerting, NoAdmin}
Stuck == {[Base EXCEPT !.messages = {Signature("first"), Event("TRIP_STATUS_CHANGED", "first")}]}
=============================================================================
