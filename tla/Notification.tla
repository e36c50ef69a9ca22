---------------------------- MODULE Notification ----------------------------
(***************************************************************************)
(* Notifications: a row that a handler creates, a cron that turns pending  *)
(* rows into mail jobs, a cron that turns sent ones into reminders, and    *)
(* the worker of the queue.  A run of a cron is a request of Server; it    *)
(* begins every minute whether or not the one before has ended, so that    *)
(* two may run at once.  The queue is in Redis and outlives the process.   *)
(***************************************************************************)
EXTENDS Server

CONSTANTS
    BatchSize,    \* rows a run takes at once (10 in the code)
    Lifetime,     \* days until expiredAt (7 in the code)
    MaxNotes      \* bound on scene.rows, the rows of a behaviour

ASSUME NotificationAssumption ==
    /\ BatchSize \in Nat \ {0} /\ Lifetime \in Nat \ {0}
    /\ MaxNotes \in Nat

VARIABLES
    notes,       \* the rows, oldest first
    jobs,        \* the mail jobs in the queue
    outcomes,    \* how jobs ended: the row, first mail or reminder, the result
    today,       \* the day
    faults       \* crashes and failed calls so far: at most scene.faults

\* The events a notification can be mailed for, those that are shown in the
\* application only, and those no case of the switch names.
Templates ==
    {"DA_CREATED", "BC_UPLOADED", "PV_UPLOADED", "QR_UPLOADED", "DAP_CREATED",
     "PURCHASE_COMMENT_ADDED", "FORGOT_PASSWORD", "MAINTENANCE_STATUS_CHANGED",
     "IT_DEMANDE_STATUS_CHANGED"}
InAppOnly ==
    {"VEHICLE_DOCUMENT_EXPIRY_ALERT", "LIQUIDATION_VALIDATION_REQUISE",
     "LIQUIDATION_REJETEE", "LIQUIDATION_VALIDEE_COMPLETE"}
Unsupported ==
    {"DEPLACEMENT_NOUVEAU", "DEPLACEMENT_STATUS_CHANGED", "DEPLACEMENT_CONFIRME",
     "DEPLACEMENT_LIQUIDE", "TRIP_CREATED", "TRIP_STATUS_CHANGED",
     "FUEL_SUPPLY_CREATED", "FUEL_SUPPLY_STATUS_CHANGED", "BAIL_EXPIRY_ALERT",
     "BAIL_INDEXATION_APPLIED", "BAIL_CONTRAT_UPLOADED", "BAIL_AVENANT_ADDED"}

Kinds == {"first", "reminder"}

\* What the caller of createNotification gives: the event, the first recipient,
\* the only one that is mailed, the resource and, for an alert, its threshold.
Message == [type : Templates \cup InAppOnly \cup Unsupported,
            to : STRING \cup {None}, resource : STRING,
            threshold : Nat \cup {None}, hasReminder : BOOLEAN]

\* A row: the message, the status and the days.  stopped and late are there for
\* the properties: the reminders of the row were stopped, and how many were
\* queued since.
NoteRow == [message : Message, status : {"PENDING", "SENT"}, sentOn : Nat,
            expiresOn : Nat, stopped : BOOLEAN, late : Nat]

Note(m) ==
    [message |-> m, status |-> "PENDING", sentOn |-> 0,
     expiresOn |-> today + Lifetime, stopped |-> FALSE, late |-> 0]

CreateNotification(m) ==
    /\ Len(notes) < scene.rows
    /\ notes' = Append(notes, Note(m))

\* The mail of a row: none when the event is switched off or has no recipient,
\* or is shown in the application only; an exception for the other events.
Payload(m) ==
    IF m.type \in scene.disabledEvents \/ m.to = None THEN "none"
    ELSE IF m.type \in Templates THEN "mail"
    ELSE IF m.type \in InAppOnly THEN "none" ELSE "throws"

Rows == 1 .. Len(notes)

\* A mail in the queue, tried so many times, and how a mail ended.
Job == [note : Rows, kind : Kinds, attempts : 0 .. 2]
Outcome == [note : Rows, kind : Kinds, result : {"delivered", "failed"}]

\* Mutant of AllPending: the newest rows.
NewestPending ==
    LET pending == {n \in Rows : notes[n].status = "PENDING"}
    IN  {n \in pending : Cardinality({k \in pending : k > n}) < BatchSize}

\* The oldest pending rows.
AllPending ==
    LET pending == {n \in Rows : notes[n].status = "PENDING"}
    IN  {n \in pending : Cardinality({k \in pending : k < n}) < BatchSize}

\* Mutant of EligibleForReminder: rows that have expired, too.
ExpiredToo ==
    {n \in Rows :
        /\ notes[n].status = "SENT" /\ notes[n].message.hasReminder
        /\ notes[n].sentOn + 1 <= today}

EligibleForReminder ==
    {n \in Rows :
        /\ notes[n].status = "SENT" /\ notes[n].message.hasReminder
        /\ notes[n].expiresOn > today
        /\ notes[n].sentOn + 1 <= today}

MailVars == << notes, jobs, outcomes, today, faults >>

-----------------------------------------------------------------------------
\* What a run has still to do: rows to take, the oldest first.
MailWork == [do : {"queueMail", "markSent"}, kind : Kinds, batch : (SUBSET Rows) \ {{}}]

\* A handler somewhere in the system creates a notification.
Notify ==
    /\ "notify" \in scene.endpoints
    /\ \E m \in scene.messages : CreateNotification(m)
    /\ UNCHANGED << req, jobs, outcomes, today, faults >>

\* The recipient signs: the reminders of the rows already sent expire now.
StopActiveReminders ==
    /\ "sign" \in scene.endpoints
    /\ \E n \in Rows :
        LET mine == {k \in Rows :
                        /\ notes[k].status = "SENT"
                        /\ notes[k].message.resource = notes[n].message.resource
                        /\ notes[k].message.to = notes[n].message.to}
        IN  /\ mine # {}
            /\ notes' = [k \in Rows |-> IF k \notin mine THEN notes[k]
                            ELSE [notes[k] EXCEPT !.expiresOn = today, !.stopped = TRUE]]
    /\ UNCHANGED << req, jobs, outcomes, today, faults >>

\* A run reads its batch, and then takes one row after the other.
Run(kind, batch) == [do |-> "queueMail", kind |-> kind, batch |-> batch]

StartRun(r, kind, batch) ==
    /\ Free(r, "mailCron")
    /\ batch # {}
    /\ Await(r, Run(kind, batch))
    /\ UNCHANGED MailVars

ProcessAllPending(r) == StartRun(r, "first", AllPending)
ProcessReminders(r) == StartRun(r, "reminder", EligibleForReminder)

Oldest(batch) == CHOOSE n \in batch : \A k \in batch : n <= k
Current(r) == Oldest(req[r].batch)

\* The row is done, or failed: handleError only counts the attempt.
NextRow(r) ==
    LET rest == req[r].batch \ {Current(r)}
    IN  Await(r, IF rest = {} THEN Idle ELSE Run(req[r].kind, rest))

QueueMail(r) ==
    /\ req[r].do = "queueMail"
    /\ LET n == Current(r)
           payload == Payload(notes[n].message)
       IN  /\ jobs' = IF payload # "mail" THEN jobs
                      ELSE Append(jobs, [note |-> n, kind |-> req[r].kind, attempts |-> 0])
           /\ IF payload = "throws" THEN NextRow(r)
              ELSE Await(r, [req[r] EXCEPT !.do = "markSent"])
           /\ notes' = IF payload = "mail" /\ req[r].kind = "reminder" /\ notes[n].stopped
                       THEN [notes EXCEPT ![n].late = @ + 1] ELSE notes
    /\ UNCHANGED << outcomes, today, faults >>

\* Mutant of MarkSent: the status of a first mail is not written.
MarkDateOnly(r) ==
    /\ req[r].do = "markSent"
    /\ notes' = [notes EXCEPT ![Current(r)].sentOn = today]
    /\ NextRow(r)
    /\ UNCHANGED << jobs, outcomes, today, faults >>

MarkSent(r) ==
    /\ req[r].do = "markSent"
    /\ notes' = [notes EXCEPT ![Current(r)].status =
                                IF req[r].kind = "first" THEN "SENT" ELSE @,
                              ![Current(r)].sentOn = today]
    /\ NextRow(r)
    /\ UNCHANGED << jobs, outcomes, today, faults >>

\* The worker: a mail that fails is tried three times in all.
End(job, result) == outcomes' = outcomes \cup {[note |-> job.note, kind |-> job.kind,
                                                result |-> result]}

SendMail ==
    /\ jobs # << >>
    /\ jobs' = Tail(jobs)
    /\ End(Head(jobs), "delivered")
    /\ UNCHANGED << req, notes, today, faults >>

-----------------------------------------------------------------------------
Fault == faults < scene.faults /\ faults' = faults + 1

\* Mutant of FailedSend: a mail is tried four times.
FailedSendAgain ==
    /\ Fault
    /\ jobs # << >>
    /\ LET job == [Head(jobs) EXCEPT !.attempts = @ + 1]
       IN  IF job.attempts <= 3
           THEN jobs' = Append(Tail(jobs), job) /\ UNCHANGED outcomes
           ELSE jobs' = Tail(jobs) /\ End(job, "failed")
    /\ UNCHANGED << req, notes, today >>

FailedSend ==
    /\ Fault
    /\ jobs # << >>
    /\ LET job == [Head(jobs) EXCEPT !.attempts = @ + 1]
       IN  IF job.attempts < 3
           THEN jobs' = Append(Tail(jobs), job) /\ UNCHANGED outcomes
           ELSE jobs' = Tail(jobs) /\ End(job, "failed")
    /\ UNCHANGED << req, notes, today >>

\* Mutant of FailedCall: the row is marked sent all the same.
FailedCallMarks(r) ==
    /\ Fault
    /\ req[r].do \in {"queueMail", "markSent"}
    /\ notes' = [notes EXCEPT ![Current(r)].status = "SENT"]
    /\ NextRow(r)
    /\ UNCHANGED << jobs, outcomes, today >>

\* The queue or the database refuses a call of a run.
FailedCall(r) ==
    /\ Fault
    /\ req[r].do \in {"queueMail", "markSent"}
    /\ NextRow(r)
    /\ UNCHANGED << notes, jobs, outcomes, today >>

\* The process dies with everything that was running in it.
Crash ==
    /\ Fault
    /\ \E r \in Requests : req[r] # Idle
    /\ req' = [r \in Requests |-> Idle]
    /\ UNCHANGED << notes, jobs, outcomes, today >>

-----------------------------------------------------------------------------
NotificationInit ==
    /\ notes = << >> /\ jobs = << >> /\ outcomes = {}
    /\ today = 0 /\ faults = 0

MailRun(r) ==
    ProcessAllPending(r) \/ ProcessReminders(r) \/ QueueMail(r) \/ MarkSent(r)

MailNext ==
    \/ Notify \/ StopActiveReminders \/ SendMail \/ FailedSend \/ Crash
    \/ \E r \in Requests : MailRun(r) \/ FailedCall(r)

=============================================================================
