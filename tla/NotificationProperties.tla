----------------------- MODULE NotificationProperties -----------------------
(***************************************************************************)
(* Notifications and expiry alerts together, and what is to hold of them.  *)
(***************************************************************************)
EXTENDS ExpiryAlerts

CONSTANT Scenes    \* the scenes a behaviour may be about

\* Only the alerts of the crons have a threshold, and what expires has an id.
ASSUME ScenesAssumption ==
    \A s \in Scenes :
        /\ IsScene(s) /\ IsFiniteSet(s.requests)
        /\ s.rows \in 0 .. MaxNotes /\ s.faults \in Nat /\ s.days \subseteq Nat
        /\ s.messages \subseteq Message /\ s.expiring \subseteq Subject
        /\ s.admins \subseteq STRING /\ s.newYear \in Nat
        /\ \A m \in s.messages : m.threshold \notin Nat
        /\ \A x, y \in s.expiring : x.name = y.name => x = y

vars == << scene, req, notes, jobs, outcomes, today, faults, logs, ran >>

Init ==
    /\ scene \in Scenes
    /\ req = [r \in Requests |-> Idle]
    /\ NotificationInit /\ AlertsInit

Next ==
    /\ \/ MailNext /\ UNCHANGED << logs, ran >>
       \/ Midnight
       \/ \E r \in Requests : AlertNext(r)
    /\ UNCHANGED scene

Spec == Init /\ [][Next]_vars

\* The scheduler keeps starting the crons, a run that has begun goes on, and
\* so does the worker of the queue.  Time need not pass, nobody need sign.
Fairness ==
    /\ WF_vars((\E r \in Requests : ProcessAllPending(r)) /\ UNCHANGED << scene, logs, ran >>)
    /\ \A r \in Requests :
        /\ WF_vars((QueueMail(r) \/ MarkSent(r)) /\ UNCHANGED << scene, logs, ran >>)
        /\ WF_vars((ReadExpiring(r) \/ CreateAlert(r) \/ CreateAlertLog(r)) /\ UNCHANGED scene)
    /\ WF_vars(SendMail /\ UNCHANGED << scene, logs, ran >>)

FairSpec == Spec /\ Fairness

-----------------------------------------------------------------------------
\* The rows have their types (model Notification of schema.prisma), and the
\* jobs and the runs are about rows that exist.
NotificationTypeOK ==
    /\ scene \in Scenes
    /\ notes \in Seq(NoteRow)
    /\ jobs \in Seq(Job)
    /\ outcomes \subseteq Outcome
    /\ today \in Nat /\ faults \in Nat
    /\ logs \subseteq LogRows
    /\ ran \in [DOMAIN Thresholds -> Nat]
    /\ req \in [Requests -> {Idle} \cup MailWork \cup AlertWork]

\* The first mail of the row is in the queue, or has been delivered or given up.
HasFirstMail(n) ==
    \/ \E i \in 1 .. Len(jobs) : jobs[i].note = n /\ jobs[i].kind = "first"
    \/ \E o \in outcomes : o.note = n /\ o.kind = "first"

\* No notification is lost: one that is marked sent, and has a mail, has it in
\* the queue, or it was delivered, or tried three times; through crashes,
\* failed calls and runs that overlap.
NothingLost ==
    \A n \in Rows :
        notes[n].status = "SENT" /\ Payload(notes[n].message) = "mail" => HasFirstMail(n)

AlertsOf(s, threshold) ==
    {n \in Rows : notes[n].message.resource = s.name /\ notes[n].message.threshold = threshold}

\* What the log says was announced was announced: the notification is created
\* first, so that a crash in between repeats an alert and never skips one.
LogMeansNotified ==
    \A row \in logs : AlertsOf(row.subject, row.threshold) # {}

\* Why the two hold, as an inductive invariant: a run about to mark a row sent
\* has queued its mail, one about to log an alert has created it, and neither
\* goes away.
WriteBehind(r) ==
    /\ req[r].do = "markSent" /\ req[r].kind = "first"
       /\ Payload(notes[Current(r)].message) = "mail"
            => HasFirstMail(Current(r))
    /\ req[r].do = "logAlert" => AlertsOf(req[r].found[1], Head(req[r].thresholds)) # {}
    /\ req[r].do \in {"readExpiring", "alert", "logAlert"} => scene.admins # {}

MarksComeLast ==
    NothingLost /\ LogMeansNotified /\ \A r \in Requests : WriteBehind(r)

\* As long as no call fails and a run of a cron ends before the next begins,
\* no first mail is queued twice and no alert is created twice in a year.
Alone == faults = 0 /\ Cardinality(scene.requests) = 1

FirstMails(n) == {i \in 1 .. Len(jobs) : jobs[i].note = n /\ jobs[i].kind = "first"}

OnceWithoutFaults ==
    Alone =>
        /\ \A n \in Rows :
            Cardinality(FirstMails(n))
              + Cardinality({o \in outcomes : o.note = n /\ o.kind = "first"}) <= 1
        /\ \A s \in scene.expiring : \A threshold \in {0, 7, 15, 30, 90} :
            Cardinality(AlertsOf(s, threshold))
                <= IF s.kind = "contract" /\ today >= scene.newYear THEN 2 ELSE 1

\* Once the reminders of a row are stopped, only a run that had read it
\* before can still queue one.
RemindersStop ==
    \A n \in Rows : notes[n].late <= Cardinality(scene.requests)

\* The runs that may yet queue a reminder of row n.
Reminding(n) ==
    {r \in scene.requests : /\ req[r].do \in {"queueMail", "markSent"}
                            /\ req[r].kind = "reminder" /\ n \in req[r].batch
                            /\ req[r].do = "markSent" => n # Current(r)}

\* Why that is so, as an inductive invariant: no run that begins later reads a
\* row that has been stopped, and a run takes each row once.
LateCounted(n) ==
    IF notes[n].stopped
    THEN /\ notes[n].expiresOn <= today
         /\ notes[n].late + Cardinality(Reminding(n)) <= Cardinality(scene.requests)
    ELSE notes[n].late = 0

LateRunsCounted == \A n \in Rows : LateCounted(n)

\* A notification that can be sent is, and its mail delivered or given up,
\* unless the batch is full of older rows whose event no mail is written for:
\* those stay pending for ever, and every run takes the oldest.
Blocked(n) ==
    Cardinality({k \in Rows : k < n /\ Payload(notes[k].message) = "throws"}) >= BatchSize

Sendable(n) == n \in Rows /\ Payload(notes[n].message) # "throws"

Settled(n) ==
    /\ n \in Rows /\ notes[n].status = "SENT"
    /\ Payload(notes[n].message) = "mail" =>
        \E o \in outcomes : o.note = n /\ o.kind = "first"

SentUnlessBlocked ==
    \A n \in 1 .. MaxNotes : Sendable(n) ~> (Settled(n) \/ (n \in Rows /\ Blocked(n)))

\* Every notification that can be sent is: what the cron is there for.
PendingTreated ==
    \A n \in 1 .. MaxNotes : Sendable(n) ~> Settled(n)

=============================================================================
