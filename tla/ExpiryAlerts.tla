---------------------------- MODULE ExpiryAlerts ----------------------------
(***************************************************************************)
(* The two crons that announce, at eight every morning, the documents of   *)
(* vehicles and the leases that expire within one of four thresholds.  A   *)
(* log row says what has been announced: per document and threshold, and   *)
(* per lease, threshold and year.                                          *)
(***************************************************************************)
EXTENDS Notification

VARIABLES
    logs,     \* the alert log rows
    ran       \* the last day each cron has started, 0 at first

Thresholds == [document |-> << 30, 15, 7, 0 >>, contract |-> << 90, 30, 15, 7 >>]
AlertEvent == [document |-> "VEHICLE_DOCUMENT_EXPIRY_ALERT", contract |-> "BAIL_EXPIRY_ALERT"]

\* The year a log row counts for: a document's is never announced again.
LogYear(kind) == IF kind = "document" \/ today < scene.newYear THEN 0 ELSE 1

LogRow(s, threshold) == [subject |-> s, threshold |-> threshold, year |-> LogYear(s.kind)]

\* What expires: a document of a vehicle, or a lease.
Subject == [kind : DOMAIN Thresholds, name : STRING, expires : Nat]
LogRows == [subject : Subject, threshold : Nat, year : {0, 1}]

\* An expiry date is a midnight, and the query runs at eight: it looks ahead,
\* but for the threshold 0, which takes the twelve hours before and after.
Expiring(kind, threshold) ==
    {s \in scene.expiring :
        /\ s.kind = kind
        /\ IF threshold = 0 THEN s.expires = today
           ELSE today < s.expires /\ s.expires <= today + threshold
        /\ LogRow(s, threshold) \notin logs}

\* At the threshold at the head of the list, with the rows found for it.
AlertRun(do, kind, thresholds, found) ==
    [do |-> do, kind |-> kind, thresholds |-> thresholds, found |-> found]

\* What such a run has still to do: rows found at a threshold are announced one
\* by one, and logged when they are.
AlertWork ==
    [do : {"readExpiring", "alert"}, kind : DOMAIN Thresholds,
     thresholds : Seq(Nat) \ {<< >>}, found : SUBSET Subject]
    \cup [do : {"logAlert"}, kind : DOMAIN Thresholds,
          thresholds : Seq(Nat) \ {<< >>}, found : Subject \X SUBSET Subject]

HandleExpiryAlerts(r, kind) ==
    /\ Free(r, "alertCron")
    /\ ran[kind] # today
    /\ ran' = [ran EXCEPT ![kind] = today]
    /\ IF scene.admins = {} THEN UNCHANGED req
       ELSE Await(r, AlertRun("readExpiring", kind, Thresholds[kind], {}))
    /\ UNCHANGED << MailVars, logs >>

NextAlert(r, found) ==
    LET w == req[r]
        later == Tail(w.thresholds)
    IN  Await(r, IF found # {} THEN AlertRun("alert", w.kind, w.thresholds, found)
                 ELSE IF later = << >> THEN Idle
                 ELSE AlertRun("readExpiring", w.kind, later, {}))

ReadExpiring(r) ==
    /\ req[r].do = "readExpiring"
    /\ NextAlert(r, Expiring(req[r].kind, Head(req[r].thresholds)))
    /\ UNCHANGED << MailVars, logs, ran >>

AlertMessage(s, threshold) ==
    [type |-> AlertEvent[s.kind], to |-> CHOOSE a \in scene.admins : TRUE,
     resource |-> s.name, threshold |-> threshold, hasReminder |-> FALSE]

\* Mutant of CreateAlert: the alert is logged even if it cannot be created.
CreateAlertOrNot(r) ==
    /\ req[r].do = "alert"
    /\ \E s \in req[r].found :
        /\ \/ CreateNotification(AlertMessage(s, Head(req[r].thresholds)))
           \/ UNCHANGED notes
        /\ Await(r, [AlertRun("logAlert", req[r].kind, req[r].thresholds, req[r].found)
                        EXCEPT !.found = << s, @ >>])
    /\ UNCHANGED << jobs, outcomes, today, faults, logs, ran >>

CreateAlert(r) ==
    /\ req[r].do = "alert"
    /\ \E s \in req[r].found :
        /\ CreateNotification(AlertMessage(s, Head(req[r].thresholds)))
        /\ Await(r, [AlertRun("logAlert", req[r].kind, req[r].thresholds, req[r].found)
                        EXCEPT !.found = << s, @ >>])
    /\ UNCHANGED << jobs, outcomes, today, faults, logs, ran >>

\* A second row for the same alert violates a unique key: the error is caught.
CreateAlertLog(r) ==
    LET s == req[r].found[1]
    IN  /\ req[r].do = "logAlert"
        /\ logs' = logs \cup {LogRow(s, Head(req[r].thresholds))}
        /\ NextAlert(r, req[r].found[2] \ {s})
        /\ UNCHANGED << MailVars, ran >>

\* The days that matter are the scene's; each has its run of both crons,
\* which is over before the next day unless the process has died in it.
Midnight ==
    /\ \E day \in scene.days :
        /\ day > today /\ \A d \in scene.days : d > today => d >= day
        /\ today' = day
    /\ "alertCron" \in scene.endpoints => \A kind \in DOMAIN ran : ran[kind] = today
    /\ \A r \in Requests : req[r] = Idle
    /\ UNCHANGED << req, notes, jobs, outcomes, faults, logs, ran >>

AlertsInit == logs = {} /\ ran = [kind \in DOMAIN Thresholds |-> 0]

AlertNext(r) ==
    \/ \E kind \in DOMAIN Thresholds : HandleExpiryAlerts(r, kind)
    \/ ReadExpiring(r) \/ CreateAlert(r) \/ CreateAlertLog(r)

=============================================================================
