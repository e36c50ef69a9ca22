------------------------- MODULE NotificationProofs -------------------------
(***************************************************************************)
(* Proofs about notifications and expiry alerts, for any scenes (any rows, *)
(* any number of runs at once, any number of crashes and failed calls).    *)
(***************************************************************************)
EXTENDS NotificationProperties, SequenceTheorems, FiniteSetTheorems,
        WellFoundedInduction, TLAPS

-----------------------------------------------------------------------------
(* The oldest row of a batch, and rows that are added.                     *)

LEMMA OldestIsIn ==
    ASSUME NEW batch \in SUBSET Nat, batch # {}
    PROVE  Oldest(batch) \in batch
<1> DEFINE R == {p \in Nat \X Nat : p[1] < p[2]}
<1>1. OpToRel(<, Nat) = R
  BY DEF OpToRel
<1>2. IsWellFoundedOn(R, Nat)
  BY <1>1, NatLessThanWellFounded
<1> HIDE DEF R
<1>3. PICK x \in batch : \A y \in batch : << y, x >> \notin R
  BY <1>2, WFMin
<1>4. ASSUME NEW y \in batch
      PROVE  x <= y
  <2>1. << y, x >> \in Nat \X Nat /\ ~(<< y, x >>[1] < << y, x >>[2])
    BY <1>3 DEF R
  <2>2. x \in Nat /\ y \in Nat /\ ~(y < x)
    BY <2>1
  <2>3. QED
    BY <2>2
<1>5. QED
  BY <1>3, <1>4 DEF Oldest

Work == {Idle} \cup MailWork \cup AlertWork

\* A run of the mail cron is at a row of its batch.
LEMMA CurrentType ==
    ASSUME NotificationTypeOK, NEW r \in Requests,
           req[r].do \in {"queueMail", "markSent"}
    PROVE  /\ req[r] \in MailWork
           /\ req[r].kind \in Kinds
           /\ req[r].batch \subseteq Rows
           /\ Current(r) \in req[r].batch
           /\ Current(r) \in Rows
<1>1. req[r] \in Work
  BY DEF NotificationTypeOK, Work
<1>2. req[r] \in MailWork
  BY <1>1 DEF Work, Idle, AlertWork
<1>3. req[r].kind \in Kinds /\ req[r].batch \subseteq Rows /\ req[r].batch # {}
  BY <1>2 DEF MailWork
<1>4. req[r].batch \in SUBSET Nat
  BY <1>3 DEF Rows
<1>5. Current(r) \in req[r].batch
  BY <1>3, <1>4, OldestIsIn DEF Current
<1>6. QED
  BY <1>2, <1>3, <1>5

\* What no step undoes: the rows are there to stay, with their messages.
RowsKept ==
    /\ Len(notes) <= Len(notes')
    /\ \A n \in Rows : notes'[n].message = notes[n].message

LEMMA RowsGrow ==
    ASSUME NotificationTypeOK, notes' \in Seq(NoteRow), Len(notes) <= Len(notes')
    PROVE  /\ Rows \subseteq Rows'
           /\ Job \subseteq Job' /\ Seq(Job) \subseteq Seq(Job')
           /\ Outcome \subseteq Outcome'
           /\ MailWork \subseteq MailWork'
<1>1. Len(notes) \in Nat /\ Len(notes') \in Nat
  BY DEF NotificationTypeOK
<1>2. Rows \subseteq Rows'
  BY <1>1 DEF Rows
<1>3. Job \subseteq Job'
  BY <1>2 DEF Job
<1>4. Seq(Job) \subseteq Seq(Job')
  BY <1>3, SeqMonotonic
<1>5. Outcome \subseteq Outcome'
  BY <1>2 DEF Outcome
<1>6. MailWork \subseteq MailWork'
  BY <1>2 DEF MailWork
<1>7. QED
  BY <1>2, <1>3, <1>4, <1>5, <1>6

\* Whatever a step awaits next, the requests stay well-formed.
LEMMA AwaitType ==
    ASSUME NotificationTypeOK, notes' \in Seq(NoteRow), Len(notes) <= Len(notes'),
           NEW r \in Requests, NEW w \in {Idle} \cup MailWork' \cup AlertWork,
           Await(r, w)
    PROVE  req' \in [Requests -> {Idle} \cup MailWork' \cup AlertWork]
<1>1. {Idle} \cup MailWork \cup AlertWork \subseteq {Idle} \cup MailWork' \cup AlertWork
  BY RowsGrow
<1>2. req \in [Requests -> {Idle} \cup MailWork' \cup AlertWork]
  BY <1>1 DEF NotificationTypeOK
<1>3. QED
  BY <1>2 DEF Await


\* A row is added at the end.
LEMMA NotificationCreated ==
    ASSUME NotificationTypeOK, NEW m \in Message, CreateNotification(m)
    PROVE  /\ notes' \in Seq(NoteRow)
           /\ Len(notes') = Len(notes) + 1
           /\ \A n \in Rows : notes'[n] = notes[n]
           /\ notes'[Len(notes')] = Note(m)
           /\ RowsKept
<1>1. notes \in Seq(NoteRow) /\ today \in Nat /\ Lifetime \in Nat
  BY NotificationAssumption DEF NotificationTypeOK
<1>2. Note(m) \in NoteRow
  BY <1>1 DEF Note, NoteRow
<1> DEFINE row == Note(m)
<1> HIDE DEF row
<1>3. notes' = Append(notes, row)
  BY DEF CreateNotification, row
<1>4. /\ notes' \in Seq(NoteRow)
      /\ Len(notes') = Len(notes) + 1
      /\ \A n \in 1 .. Len(notes) : notes'[n] = notes[n]
      /\ notes'[Len(notes) + 1] = row
  BY <1>1, <1>2, <1>3, AppendProperties DEF row
<1>5. Len(notes) <= Len(notes')
  BY <1>1, <1>4
<1>6. QED
  BY <1>4, <1>5 DEF RowsKept, Rows, row

\* The rows keep their number and their messages.
LEMMA RowsUpdated ==
    ASSUME NotificationTypeOK,
           notes' \in [Rows -> NoteRow],
           \A n \in Rows : notes'[n].message = notes[n].message
    PROVE  notes' \in Seq(NoteRow) /\ Len(notes') = Len(notes) /\ RowsKept
<1>1. Len(notes) \in Nat
  BY DEF NotificationTypeOK
<1>2. notes' \in Seq(NoteRow) /\ Len(notes') = Len(notes)
  BY <1>1 DEF Rows
<1>3. QED
  BY <1>1, <1>2 DEF RowsKept

\* A run that is done with a row has fewer rows to take, or is over.
LEMMA NextRowWork ==
    ASSUME NotificationTypeOK, NEW r \in Requests,
           req[r].do \in {"queueMail", "markSent"}, NextRow(r)
    PROVE  \E w \in {Idle} \cup MailWork :
                /\ Await(r, w)
                /\ w # Idle => /\ w.do = "queueMail" /\ w.kind = req[r].kind
                               /\ w.batch = req[r].batch \ {Current(r)}
<1> DEFINE rest == req[r].batch \ {Current(r)}
           w == IF rest = {} THEN Idle ELSE Run(req[r].kind, rest)
<1>1. req[r].kind \in Kinds /\ rest \subseteq Rows
  BY CurrentType
<1>2. rest # {} => Run(req[r].kind, rest) \in MailWork
  BY <1>1 DEF Run, MailWork
<1>3. Await(r, w)
  BY DEF NextRow
<1>4. w # Idle => /\ w.do = "queueMail" /\ w.kind = req[r].kind /\ w.batch = rest
  BY DEF Run
<1>5. w \in {Idle} \cup MailWork
  BY <1>2
<1> HIDE DEF w, rest
<1>6. QED
  BY <1>3, <1>4, <1>5 DEF rest

-----------------------------------------------------------------------------
(* Types.  An alert is addressed to an administrator, so that its message  *)
(* has its type only if there is one when the alert is created.            *)

HasReader(r) == req[r].do \in {"readExpiring", "alert", "logAlert"} => scene.admins # {}

TypeInv == NotificationTypeOK /\ \A r \in Requests : HasReader(r)

\* What a request awaits next, when it is well-formed, keeps the invariant.
LEMMA AwaitKeepsType ==
    ASSUME TypeInv, notes' \in Seq(NoteRow), Len(notes) <= Len(notes'),
           scene' = scene,
           NEW r \in Requests, NEW w \in {Idle} \cup MailWork' \cup AlertWork,
           w \in AlertWork => scene.admins # {},
           Await(r, w)
    PROVE  /\ req' \in [Requests -> {Idle} \cup MailWork' \cup AlertWork]
           /\ \A q \in Requests : HasReader(q)'
<1>1. req' \in [Requests -> {Idle} \cup MailWork' \cup AlertWork]
  BY AwaitType DEF TypeInv
<1>2. w.do \in {"readExpiring", "alert", "logAlert"} => w \in AlertWork
  BY DEF MailWork, Idle
<1>3. ASSUME NEW q \in Requests
      PROVE  HasReader(q)'
  <2>1. req \in [Requests -> Work]
    BY DEF TypeInv, NotificationTypeOK, Work
  <2>2. req'[q] = IF q = r THEN w ELSE req[q]
    BY <2>1 DEF Await
  <2>3. HasReader(q)
    BY DEF TypeInv
  <2>4. QED
    BY <1>2, <2>2, <2>3 DEF HasReader
<1>4. QED
  BY <1>1, <1>3

\* When no request moves, either.
LEMMA IdleKeepsType ==
    ASSUME TypeInv, notes' \in Seq(NoteRow), Len(notes) <= Len(notes'),
           scene' = scene, req' = req
    PROVE  /\ req' \in [Requests -> {Idle} \cup MailWork' \cup AlertWork]
           /\ \A q \in Requests : HasReader(q)'
<1>1. MailWork \subseteq MailWork'
  BY RowsGrow DEF TypeInv
<1>2. req' \in [Requests -> {Idle} \cup MailWork' \cup AlertWork]
  BY <1>1 DEF TypeInv, NotificationTypeOK
<1>3. QED
  BY <1>2 DEF TypeInv, HasReader

\* The rest of the type invariant, row numbers included.
LEMMA KeepsType ==
    ASSUME TypeInv, scene' = scene,
           notes' \in Seq(NoteRow), Len(notes) <= Len(notes'),
           jobs' \in Seq(Job'), outcomes' \subseteq Outcome',
           today' \in Nat, faults' \in Nat, logs' \subseteq LogRows,
           ran' \in [DOMAIN Thresholds -> Nat],
           req' \in [Requests -> {Idle} \cup MailWork' \cup AlertWork],
           \A q \in Requests : HasReader(q)'
    PROVE  TypeInv'
<1>1. scene' \in Scenes
  BY DEF TypeInv, NotificationTypeOK
<1>2. NotificationTypeOK'
  BY <1>1 DEF NotificationTypeOK
<1>3. QED
  BY <1>2 DEF TypeInv

\* What the lists keep when the rows only grow.
LEMMA ListsKept ==
    ASSUME TypeInv, notes' \in Seq(NoteRow), Len(notes) <= Len(notes')
    PROVE  /\ jobs \in Seq(Job') /\ outcomes \subseteq Outcome'
           /\ today \in Nat /\ faults \in Nat /\ logs \subseteq LogRows
           /\ ran \in [DOMAIN Thresholds -> Nat]
<1>1. jobs \in Seq(Job) /\ outcomes \subseteq Outcome
  BY DEF TypeInv, NotificationTypeOK
<1>2. Seq(Job) \subseteq Seq(Job') /\ Outcome \subseteq Outcome'
  BY RowsGrow DEF TypeInv
<1>3. QED
  BY <1>1, <1>2 DEF TypeInv, NotificationTypeOK

LEMMA InitTypes == Init => TypeInv
<1> SUFFICES ASSUME Init
             PROVE  TypeInv
  OBVIOUS
<1>1. scene \in Scenes /\ req = [r \in Requests |-> Idle]
  BY DEF Init
<1>2. notes = << >> /\ jobs = << >> /\ outcomes = {} /\ today = 0 /\ faults = 0
  BY DEF Init, NotificationInit
<1>3. logs = {} /\ ran = [kind \in DOMAIN Thresholds |-> 0]
  BY DEF Init, AlertsInit
<1>4. req \in [Requests -> {Idle} \cup MailWork \cup AlertWork]
  BY <1>1
<1>5. notes \in Seq(NoteRow) /\ jobs \in Seq(Job)
  BY <1>2
<1>6. NotificationTypeOK
  BY <1>1, <1>2, <1>3, <1>4, <1>5 DEF NotificationTypeOK
<1>7. QED
  BY <1>1, <1>6 DEF TypeInv, HasReader, Idle

\* The messages a scene may give and the admins it may have.
LEMMA SceneTyped ==
    ASSUME NotificationTypeOK
    PROVE  /\ IsFiniteSet(scene.requests) /\ scene.requests \subseteq Requests
           /\ scene.messages \subseteq Message /\ scene.expiring \subseteq Subject
           /\ scene.admins \subseteq STRING /\ scene.days \subseteq Nat
BY ScenesAssumption DEF NotificationTypeOK, IsScene

LEMMA NotifyTypes ==
    ASSUME TypeInv, Notify, UNCHANGED << logs, ran, scene >>
    PROVE  TypeInv' /\ RowsKept
<1>1. PICK m \in scene.messages : CreateNotification(m)
  BY DEF Notify
<1>2. m \in Message
  BY SceneTyped DEF TypeInv
<1>3. notes' \in Seq(NoteRow) /\ Len(notes') = Len(notes) + 1 /\ RowsKept
  BY <1>1, <1>2, NotificationCreated DEF TypeInv
<1>4. Len(notes) <= Len(notes')
  BY <1>3 DEF RowsKept
<1>5. req' = req /\ jobs' = jobs /\ outcomes' = outcomes /\ today' = today /\ faults' = faults
  BY DEF Notify
<1>6. QED
  BY <1>3, <1>4, <1>5, IdleKeepsType, ListsKept, KeepsType

LEMMA StopTypes ==
    ASSUME TypeInv, StopActiveReminders, UNCHANGED << logs, ran, scene >>
    PROVE  TypeInv' /\ RowsKept
<1>1. PICK n \in Rows :
        LET mine == {k \in Rows :
                        /\ notes[k].status = "SENT"
                        /\ notes[k].message.resource = notes[n].message.resource
                        /\ notes[k].message.to = notes[n].message.to}
        IN  notes' = [k \in Rows |-> IF k \notin mine THEN notes[k]
                        ELSE [notes[k] EXCEPT !.expiresOn = today, !.stopped = TRUE]]
  BY DEF StopActiveReminders
<1>2. \A k \in Rows : notes[k] \in NoteRow
  BY DEF TypeInv, NotificationTypeOK, Rows
<1>3. today \in Nat
  BY DEF TypeInv, NotificationTypeOK
<1>4. \A k \in Rows : [notes[k] EXCEPT !.expiresOn = today, !.stopped = TRUE] \in NoteRow
  BY <1>2, <1>3 DEF NoteRow
<1>5. notes' \in [Rows -> NoteRow]
  BY <1>1, <1>2, <1>4
<1>6. ASSUME NEW k \in Rows
      PROVE  notes'[k].message = notes[k].message
  BY <1>1, <1>2 DEF NoteRow
<1>7. notes' \in Seq(NoteRow) /\ Len(notes') = Len(notes) /\ RowsKept
  BY <1>5, <1>6, RowsUpdated DEF TypeInv
<1>8. Len(notes) <= Len(notes')
  BY <1>7 DEF RowsKept
<1>9. req' = req /\ jobs' = jobs /\ outcomes' = outcomes /\ today' = today /\ faults' = faults
  BY DEF StopActiveReminders
<1>10. QED
  BY <1>7, <1>8, <1>9, IdleKeepsType, ListsKept, KeepsType

\* A step that adds no row and changes none.
LEMMA SameRows ==
    ASSUME TypeInv, notes' = notes
    PROVE  /\ notes' \in Seq(NoteRow) /\ Len(notes) <= Len(notes')
           /\ Rows' = Rows /\ Job' = Job /\ Outcome' = Outcome /\ MailWork' = MailWork
           /\ RowsKept
<1>1. notes \in Seq(NoteRow)
  BY DEF TypeInv, NotificationTypeOK
<1>2. Rows' = Rows
  BY DEF Rows
<1>3. QED
  BY <1>1, <1>2 DEF Job, Outcome, MailWork, RowsKept, Rows

LEMMA StartTypes ==
    ASSUME TypeInv, NEW r \in Requests, NEW kind \in Kinds, NEW batch \in SUBSET Rows,
           StartRun(r, kind, batch), UNCHANGED << logs, ran, scene >>
    PROVE  TypeInv' /\ RowsKept
<1>1. notes' = notes /\ jobs' = jobs /\ outcomes' = outcomes /\ today' = today /\ faults' = faults
  BY DEF StartRun, MailVars
<1> DEFINE w == Run(kind, batch)
<1>2. w \in MailWork /\ w \notin AlertWork /\ Await(r, w)
  BY DEF Run, MailWork, AlertWork, StartRun
<1> HIDE DEF w
<1>3. QED
  BY <1>1, <1>2, SameRows, AwaitKeepsType, ListsKept, KeepsType

LEMMA QueueTypes ==
    ASSUME TypeInv, NEW r \in Requests, QueueMail(r), UNCHANGED << logs, ran, scene >>
    PROVE  TypeInv' /\ RowsKept
<1> DEFINE n == Current(r)
           payload == Payload(notes[n].message)
           w == [req[r] EXCEPT !.do = "markSent"]
<1>1. req[r].do = "queueMail" /\ outcomes' = outcomes /\ today' = today /\ faults' = faults
  BY DEF QueueMail
<1>2. req[r] \in MailWork /\ n \in Rows /\ req[r].kind \in Kinds
  BY <1>1, CurrentType DEF TypeInv
<1>3. /\ jobs' = IF payload # "mail" THEN jobs
                 ELSE Append(jobs, [note |-> n, kind |-> req[r].kind, attempts |-> 0])
      /\ IF payload = "throws" THEN NextRow(r) ELSE Await(r, w)
      /\ notes' = IF payload = "mail" /\ req[r].kind = "reminder" /\ notes[n].stopped
                  THEN [notes EXCEPT ![n].late = @ + 1] ELSE notes
  BY DEF QueueMail
<1>4. notes' \in [Rows -> NoteRow] /\ \A k \in Rows : notes'[k].message = notes[k].message
  <2>1. notes \in [Rows -> NoteRow]
    BY DEF TypeInv, NotificationTypeOK, Rows
  <2> HIDE DEF n, payload
  <2>2. [notes EXCEPT ![n].late = @ + 1] \in [Rows -> NoteRow]
    BY <1>2, <2>1 DEF NoteRow
  <2>3. \A k \in Rows : [notes EXCEPT ![n].late = @ + 1][k].message = notes[k].message
    BY <1>2, <2>1 DEF NoteRow
  <2>4. QED
    BY <1>3, <2>1, <2>2, <2>3
<1>5. notes' \in Seq(NoteRow) /\ Len(notes') = Len(notes) /\ RowsKept
  BY <1>4, RowsUpdated DEF TypeInv
<1>6. Len(notes) <= Len(notes')
  BY <1>5 DEF RowsKept
<1>7. MailWork \subseteq MailWork' /\ Rows \subseteq Rows'
  BY <1>5, <1>6, RowsGrow DEF TypeInv
<1>8. jobs' \in Seq(Job')
  <2>1. jobs \in Seq(Job')
    BY <1>5, <1>6, ListsKept
  <2>2. [note |-> n, kind |-> req[r].kind, attempts |-> 0] \in Job'
    BY <1>2, <1>7 DEF Job
  <2> DEFINE job == [note |-> n, kind |-> req[r].kind, attempts |-> 0]
  <2> HIDE DEF job, n, payload
  <2>3. Append(jobs, job) \in Seq(Job')
    BY <2>1, <2>2, AppendProperties DEF job
  <2>4. QED
    BY <1>3, <2>1, <2>3 DEF job
<1>9. \E v \in {Idle} \cup MailWork : Await(r, v)
  <2>1. CASE payload = "throws"
    BY <1>1, <1>3, <2>1, NextRowWork DEF TypeInv
  <2>2. CASE payload # "throws"
    <3>1. w \in MailWork
      BY <1>2 DEF MailWork
    <3>2. QED
      BY <1>3, <2>2, <3>1
  <2>3. QED
    BY <2>1, <2>2
<1> HIDE DEF n, payload, w
<1>10. PICK v \in {Idle} \cup MailWork : Await(r, v)
  BY <1>9
<1>11. v \notin AlertWork
  BY <1>10 DEF MailWork, AlertWork, Idle
<1>12. QED
  BY <1>1, <1>5, <1>6, <1>7, <1>8, <1>10, <1>11, AwaitKeepsType, ListsKept, KeepsType

LEMMA MarkTypes ==
    ASSUME TypeInv, NEW r \in Requests, MarkSent(r), UNCHANGED << logs, ran, scene >>
    PROVE  TypeInv' /\ RowsKept
<1> DEFINE n == Current(r)
<1>1. /\ req[r].do = "markSent" /\ jobs' = jobs /\ outcomes' = outcomes
      /\ today' = today /\ faults' = faults /\ NextRow(r)
  BY DEF MarkSent
<1>2. n \in Rows
  BY <1>1, CurrentType DEF TypeInv
<1>3. notes' = [notes EXCEPT ![n].status = IF req[r].kind = "first" THEN "SENT" ELSE @,
                             ![n].sentOn = today]
  BY DEF MarkSent
<1> HIDE DEF n
<1>4. notes' \in [Rows -> NoteRow] /\ \A k \in Rows : notes'[k].message = notes[k].message
  <2>1. notes \in [Rows -> NoteRow] /\ today \in Nat
    BY DEF TypeInv, NotificationTypeOK, Rows
  <2>2. notes[n] \in NoteRow
    BY <1>2, <2>1
  <2>3. notes' = [notes EXCEPT ![n] = [notes[n] EXCEPT
                    !.status = IF req[r].kind = "first" THEN "SENT" ELSE notes[n].status,
                    !.sentOn = today]]
    BY <1>2, <1>3, <2>1, <2>2 DEF NoteRow
  <2> DEFINE row == [notes[n] EXCEPT
                    !.status = IF req[r].kind = "first" THEN "SENT" ELSE notes[n].status,
                    !.sentOn = today]
  <2>4. row \in NoteRow /\ row.message = notes[n].message
    BY <2>1, <2>2 DEF NoteRow
  <2> HIDE DEF row
  <2>5. QED
    BY <1>2, <2>1, <2>3, <2>4 DEF row
<1>5. notes' \in Seq(NoteRow) /\ Len(notes') = Len(notes) /\ RowsKept
  BY <1>4, RowsUpdated DEF TypeInv
<1>6. Len(notes) <= Len(notes')
  BY <1>5 DEF RowsKept
<1>7. PICK v \in {Idle} \cup MailWork : Await(r, v)
  BY <1>1, NextRowWork DEF TypeInv
<1>8. v \notin AlertWork /\ MailWork \subseteq MailWork'
  BY <1>5, <1>6, <1>7, RowsGrow DEF MailWork, AlertWork, Idle, TypeInv
<1>9. QED
  BY <1>1, <1>5, <1>6, <1>7, <1>8, AwaitKeepsType, ListsKept, KeepsType

LEMMA CallTypes ==
    ASSUME TypeInv, NEW r \in Requests, FailedCall(r), UNCHANGED << logs, ran, scene >>
    PROVE  TypeInv' /\ RowsKept
<1>1. /\ notes' = notes /\ jobs' = jobs /\ outcomes' = outcomes
      /\ today' = today /\ faults' = faults + 1
      /\ req[r].do \in {"queueMail", "markSent"} /\ NextRow(r)
  BY DEF FailedCall, Fault
<1>2. faults' \in Nat
  BY <1>1 DEF TypeInv, NotificationTypeOK
<1>3. PICK v \in {Idle} \cup MailWork : Await(r, v)
  BY <1>1, NextRowWork DEF TypeInv
<1>4. v \notin AlertWork
  BY <1>3 DEF MailWork, AlertWork, Idle
<1>5. QED
  BY <1>1, <1>2, <1>3, <1>4, SameRows, AwaitKeepsType, ListsKept, KeepsType

\* The worker takes the first mail of the queue; it may put it back at the end.
LEMMA WorkerTypes ==
    ASSUME TypeInv, SendMail \/ FailedSend, UNCHANGED << logs, ran, scene >>
    PROVE  TypeInv' /\ RowsKept
<1>1. /\ jobs \in Seq(Job) /\ outcomes \subseteq Outcome /\ today \in Nat /\ faults \in Nat
  BY DEF TypeInv, NotificationTypeOK
<1>2. /\ jobs # << >> /\ req' = req /\ notes' = notes /\ today' = today
      /\ faults' \in Nat
  BY <1>1 DEF SendMail, FailedSend, Fault
<1>3. Head(jobs) \in Job /\ Tail(jobs) \in Seq(Job)
  BY <1>1, <1>2, HeadTailProperties
<1>4. CASE SendMail
  <2>1. jobs' = Tail(jobs)
        /\ outcomes' = outcomes \cup {[note |-> Head(jobs).note, kind |-> Head(jobs).kind,
                                       result |-> "delivered"]}
    BY <1>4 DEF SendMail, End
  <2>2. [note |-> Head(jobs).note, kind |-> Head(jobs).kind, result |-> "delivered"] \in Outcome
    BY <1>3 DEF Job, Outcome
  <2>3. jobs' \in Seq(Job') /\ outcomes' \subseteq Outcome'
    BY <1>1, <1>2, <1>3, <2>1, <2>2, SameRows
  <2>4. QED
    BY <1>1, <1>2, <2>3, SameRows, IdleKeepsType, ListsKept, KeepsType
<1>5. CASE FailedSend
  <2> DEFINE job == [Head(jobs) EXCEPT !.attempts = @ + 1]
             ended == [note |-> job.note, kind |-> job.kind, result |-> "failed"]
  <2>1. IF job.attempts < 3 THEN jobs' = Append(Tail(jobs), job) /\ outcomes' = outcomes
        ELSE jobs' = Tail(jobs) /\ outcomes' = outcomes \cup {ended}
    BY <1>5 DEF FailedSend, End
  <2>2. ended \in Outcome /\ (job.attempts < 3 => job \in Job)
    BY <1>3 DEF Job, Outcome
  <2> HIDE DEF job, ended
  <2>3. job.attempts < 3 => Append(Tail(jobs), job) \in Seq(Job)
    BY <1>3, <2>2, AppendProperties
  <2>4. jobs' \in Seq(Job) /\ outcomes' \subseteq Outcome
    BY <1>1, <1>3, <2>1, <2>2, <2>3
  <2>5. jobs' \in Seq(Job') /\ outcomes' \subseteq Outcome'
    BY <1>2, <2>4, SameRows
  <2>6. QED
    BY <1>1, <1>2, <2>5, SameRows, IdleKeepsType, ListsKept, KeepsType
<1>6. QED
  BY <1>4, <1>5

LEMMA CrashTypes ==
    ASSUME TypeInv, Crash, UNCHANGED << logs, ran, scene >>
    PROVE  TypeInv' /\ RowsKept
<1>1. /\ notes' = notes /\ jobs' = jobs /\ outcomes' = outcomes /\ today' = today
      /\ faults' = faults + 1 /\ req' = [r \in Requests |-> Idle]
  BY DEF Crash, Fault
<1>2. faults' \in Nat
  BY <1>1 DEF TypeInv, NotificationTypeOK
<1>3. \A r \in Requests : HasReader(r)'
  BY <1>1 DEF HasReader, Idle
<1>4. req' \in [Requests -> {Idle} \cup MailWork' \cup AlertWork]
  BY <1>1
<1>5. QED
  BY <1>1, <1>2, <1>3, <1>4, SameRows, ListsKept, KeepsType

LEMMA MidnightTypes ==
    ASSUME TypeInv, Midnight, UNCHANGED scene
    PROVE  TypeInv' /\ RowsKept
<1>1. /\ req' = req /\ notes' = notes /\ jobs' = jobs /\ outcomes' = outcomes
      /\ faults' = faults /\ logs' = logs /\ ran' = ran /\ today' \in scene.days
  BY DEF Midnight
<1>2. today' \in Nat
  BY <1>1, SceneTyped DEF TypeInv
<1>3. QED
  BY <1>1, <1>2, SameRows, IdleKeepsType, ListsKept, KeepsType

\* The thresholds of the two crons: a list that is not empty.
LEMMA ThresholdsListed ==
    /\ DOMAIN Thresholds = {"document", "contract"}
    /\ \A kind \in DOMAIN Thresholds : Thresholds[kind] \in Seq(Nat) \ {<< >>}
<1> DEFINE d == << 30, 15, 7, 0 >>
           c == << 90, 30, 15, 7 >>
<1>1. d \in Seq(Nat) \ {<< >>} /\ c \in Seq(Nat) \ {<< >>}
  OBVIOUS
<1> HIDE DEF d, c
<1>2. Thresholds = [document |-> d, contract |-> c]
  BY DEF Thresholds, d, c
<1>3. QED
  BY <1>1, <1>2

LEMMA HandleTypes ==
    ASSUME TypeInv, NEW r \in Requests, NEW kind \in DOMAIN Thresholds,
           HandleExpiryAlerts(r, kind), UNCHANGED scene
    PROVE  TypeInv' /\ RowsKept
<1>1. /\ notes' = notes /\ jobs' = jobs /\ outcomes' = outcomes /\ today' = today
      /\ faults' = faults /\ logs' = logs /\ ran' = [ran EXCEPT ![kind] = today]
  BY DEF HandleExpiryAlerts, MailVars
<1>2. ran' \in [DOMAIN Thresholds -> Nat]
  BY <1>1 DEF TypeInv, NotificationTypeOK
<1>3. CASE scene.admins = {}
  <2>1. req' = req
    BY <1>3 DEF HandleExpiryAlerts
  <2>2. QED
    BY <1>1, <1>2, <2>1, SameRows, IdleKeepsType, ListsKept, KeepsType
<1>4. CASE scene.admins # {}
  <2> DEFINE w == AlertRun("readExpiring", kind, Thresholds[kind], {})
  <2>1. Await(r, w)
    BY <1>4 DEF HandleExpiryAlerts
  <2>2. w \in AlertWork
    BY ThresholdsListed DEF AlertRun, AlertWork
  <2> HIDE DEF w
  <2>3. QED
    BY <1>1, <1>2, <1>4, <2>1, <2>2, SameRows, AwaitKeepsType, ListsKept, KeepsType
<1>5. QED
  BY <1>3, <1>4

\* A run of an alert cron has a threshold to work at.
LEMMA AlertType ==
    ASSUME TypeInv, NEW r \in Requests, req[r].do \in {"readExpiring", "alert", "logAlert"}
    PROVE  /\ req[r] \in AlertWork /\ scene.admins # {}
           /\ req[r].kind \in DOMAIN Thresholds
           /\ req[r].thresholds \in Seq(Nat) \ {<< >>}
           /\ Head(req[r].thresholds) \in Nat
           /\ Tail(req[r].thresholds) \in Seq(Nat)
           /\ req[r].do # "logAlert" => req[r].found \subseteq Subject
           /\ req[r].do = "logAlert" =>
                /\ req[r].found[1] \in Subject /\ req[r].found[2] \subseteq Subject
<1>1. req[r] \in Work
  BY DEF TypeInv, NotificationTypeOK, Work
<1>2. req[r] \in AlertWork
  BY <1>1 DEF Work, Idle, MailWork
<1>3. req[r].kind \in DOMAIN Thresholds /\ req[r].thresholds \in Seq(Nat) \ {<< >>}
  BY <1>2 DEF AlertWork
<1>4. req[r].do # "logAlert" => req[r].found \subseteq Subject
  BY <1>2 DEF AlertWork
<1>5. req[r].do = "logAlert" => req[r].found \in Subject \X SUBSET Subject
  BY <1>2 DEF AlertWork
<1>6. Head(req[r].thresholds) \in Nat /\ Tail(req[r].thresholds) \in Seq(Nat)
  BY <1>3, HeadTailProperties
<1>7. HasReader(r)
  BY DEF TypeInv
<1>8. QED
  BY <1>2, <1>3, <1>4, <1>5, <1>6, <1>7 DEF HasReader

\* The next row found, the next threshold, or the end.
LEMMA NextAlertWork ==
    ASSUME TypeInv, NEW r \in Requests,
           req[r].do \in {"readExpiring", "alert", "logAlert"},
           NEW found \in SUBSET Subject, NextAlert(r, found)
    PROVE  \E w \in {Idle} \cup AlertWork :
                Await(r, w) /\ w.do \in {"idle", "readExpiring", "alert"}
<1> DEFINE work == req[r]
           later == Tail(work.thresholds)
           w == IF found # {} THEN AlertRun("alert", work.kind, work.thresholds, found)
                ELSE IF later = << >> THEN Idle
                ELSE AlertRun("readExpiring", work.kind, later, {})
<1>1. /\ work.kind \in DOMAIN Thresholds
      /\ work.thresholds \in Seq(Nat) \ {<< >>} /\ later \in Seq(Nat)
  BY AlertType
<1>2. AlertRun("alert", work.kind, work.thresholds, found) \in AlertWork
  BY <1>1 DEF AlertRun, AlertWork
<1>3. later # << >> => AlertRun("readExpiring", work.kind, later, {}) \in AlertWork
  BY <1>1 DEF AlertRun, AlertWork
<1>4. Await(r, w)
  BY DEF NextAlert
<1>5. w \in {Idle} \cup AlertWork
  BY <1>2, <1>3
<1>6. w.do \in {"idle", "readExpiring", "alert"}
  BY DEF AlertRun, Idle
<1> HIDE DEF w
<1>7. QED
  BY <1>4, <1>5, <1>6

LEMMA ReadTypes ==
    ASSUME TypeInv, NEW r \in Requests, ReadExpiring(r), UNCHANGED scene
    PROVE  TypeInv' /\ RowsKept
<1>1. /\ notes' = notes /\ jobs' = jobs /\ outcomes' = outcomes /\ today' = today
      /\ faults' = faults /\ logs' = logs /\ ran' = ran /\ req[r].do = "readExpiring"
  BY DEF ReadExpiring, MailVars
<1> DEFINE found == Expiring(req[r].kind, Head(req[r].thresholds))
<1>2. NextAlert(r, found)
  BY DEF ReadExpiring
<1>3. found \in SUBSET Subject
  BY SceneTyped DEF Expiring, TypeInv
<1> HIDE DEF found
<1>4. PICK w \in {Idle} \cup AlertWork : Await(r, w)
  BY <1>1, <1>2, <1>3, NextAlertWork
<1>5. scene.admins # {}
  BY <1>1, AlertType
<1>6. QED
  BY <1>1, <1>4, <1>5, SameRows, AwaitKeepsType, ListsKept, KeepsType

LEMMA LogTypes ==
    ASSUME TypeInv, NEW r \in Requests, CreateAlertLog(r), UNCHANGED scene
    PROVE  TypeInv' /\ RowsKept
<1> DEFINE s == req[r].found[1]
           row == LogRow(s, Head(req[r].thresholds))
           found == req[r].found[2] \ {s}
<1>1. /\ notes' = notes /\ jobs' = jobs /\ outcomes' = outcomes /\ today' = today
      /\ faults' = faults /\ ran' = ran /\ req[r].do = "logAlert"
      /\ logs' = logs \cup {row} /\ NextAlert(r, found)
  BY DEF CreateAlertLog, MailVars
<1>2. s \in Subject /\ found \in SUBSET Subject /\ Head(req[r].thresholds) \in Nat
      /\ scene.admins # {}
  BY <1>1, AlertType
<1>3. row \in LogRows
  BY <1>2 DEF LogRow, LogRows, LogYear
<1> HIDE DEF s, row, found
<1>4. logs' \subseteq LogRows
  BY <1>1, <1>3 DEF TypeInv, NotificationTypeOK
<1>5. PICK w \in {Idle} \cup AlertWork : Await(r, w)
  BY <1>1, <1>2, NextAlertWork
<1>6. QED
  BY <1>1, <1>2, <1>4, <1>5, SameRows, AwaitKeepsType, ListsKept, KeepsType

\* The alert about s at a threshold is a message that names both.
LEMMA AlertMessageTyped ==
    ASSUME TypeInv, scene.admins # {}, NEW s \in Subject, NEW threshold \in Nat
    PROVE  /\ AlertMessage(s, threshold) \in Message
           /\ AlertMessage(s, threshold).resource = s.name
           /\ AlertMessage(s, threshold).threshold = threshold
<1> DEFINE admin == CHOOSE a \in scene.admins : TRUE
<1>1. admin \in STRING
  BY SceneTyped DEF TypeInv
<1>2. s.kind \in {"document", "contract"} /\ s.name \in STRING
  BY ThresholdsListed DEF Subject
<1>3. AlertEvent[s.kind] \in InAppOnly \cup Unsupported
  BY <1>2 DEF AlertEvent, InAppOnly, Unsupported
<1> HIDE DEF admin
<1>4. AlertMessage(s, threshold) = [type |-> AlertEvent[s.kind], to |-> admin,
        resource |-> s.name, threshold |-> threshold, hasReminder |-> FALSE]
  BY DEF AlertMessage, admin
<1>5. QED
  BY <1>1, <1>2, <1>3, <1>4 DEF Message

LEMMA CreateAlertTypes ==
    ASSUME TypeInv, NEW r \in Requests, CreateAlert(r), UNCHANGED scene
    PROVE  /\ TypeInv' /\ RowsKept
           /\ req'[r].do = "logAlert"
           /\ AlertsOf(req[r].found[1], Head(req[r].thresholds))' # {}
<1> DEFINE threshold == Head(req[r].thresholds)
<1>1. /\ jobs' = jobs /\ outcomes' = outcomes /\ today' = today
      /\ faults' = faults /\ logs' = logs /\ ran' = ran /\ req[r].do = "alert"
  BY DEF CreateAlert
<1>2. PICK s \in req[r].found :
        /\ CreateNotification(AlertMessage(s, threshold))
        /\ Await(r, [AlertRun("logAlert", req[r].kind, req[r].thresholds, req[r].found)
                        EXCEPT !.found = << s, @ >>])
  BY DEF CreateAlert
<1> DEFINE w == AlertRun("logAlert", req[r].kind, req[r].thresholds, << s, req[r].found >>)
           m == AlertMessage(s, threshold)
<1>3. Await(r, w)
  BY <1>2 DEF AlertRun
<1>4. /\ s \in Subject /\ threshold \in Nat /\ req[r].found \subseteq Subject
      /\ scene.admins # {} /\ req[r].kind \in DOMAIN Thresholds
      /\ req[r].thresholds \in Seq(Nat) \ {<< >>}
  BY <1>1, AlertType
<1>5. m \in Message /\ m.resource = s.name /\ m.threshold = threshold
  BY <1>4, AlertMessageTyped
<1>6. w \in AlertWork /\ w.do = "logAlert" /\ w.found[1] = s
      /\ w.thresholds = req[r].thresholds
  BY <1>4 DEF AlertRun, AlertWork
<1> HIDE DEF w, m, threshold
<1>7. /\ notes' \in Seq(NoteRow) /\ Len(notes') = Len(notes) + 1 /\ RowsKept
      /\ notes'[Len(notes')] = Note(m)
  BY <1>2, <1>5, NotificationCreated DEF m, TypeInv
<1>8. Len(notes) <= Len(notes') /\ Len(notes) \in Nat
  BY <1>7 DEF RowsKept
<1>9. TypeInv'
  BY <1>1, <1>3, <1>4, <1>6, <1>7, <1>8, AwaitKeepsType, ListsKept, KeepsType
<1>10. req'[r] = w
  BY <1>3 DEF Await, TypeInv, NotificationTypeOK
<1>11. /\ Len(notes') \in Rows'
       /\ notes'[Len(notes')].message.resource = req'[r].found[1].name
       /\ notes'[Len(notes')].message.threshold = Head(req'[r].thresholds)
  <2>1. notes'[Len(notes')].message = m
    BY <1>7 DEF Note
  <2>2. Len(notes') \in Rows'
    BY <1>7, <1>8 DEF Rows
  <2>3. QED
    BY <1>5, <1>6, <1>10, <2>1, <2>2 DEF threshold
<1>12. QED
  BY <1>6, <1>7, <1>9, <1>10, <1>11 DEF AlertsOf

\* Every step, at once: what holds of each action holds of the next-state
\* relation.
LEMMA StepTypes ==
    ASSUME TypeInv, [Next]_vars
    PROVE  TypeInv' /\ RowsKept
<1>1. CASE UNCHANGED vars
  <2>1. TypeInv'
    BY <1>1 DEF vars, TypeInv, NotificationTypeOK, HasReader, NoteRow, Rows, Job, Outcome,
                MailWork
  <2>2. QED
    BY <1>1, <2>1, SameRows DEF vars
<1>2. CASE MailNext /\ UNCHANGED << logs, ran, scene >>
  <2>1. \A r \in Requests :
            AllPending \in SUBSET Rows /\ EligibleForReminder \in SUBSET Rows
    BY DEF AllPending, EligibleForReminder
  <2>2. ASSUME NEW r \in Requests, MailRun(r) \/ FailedCall(r)
        PROVE  TypeInv' /\ RowsKept
    BY <1>2, <2>1, <2>2, StartTypes, QueueTypes, MarkTypes, CallTypes
       DEF MailRun, ProcessAllPending, ProcessReminders, Kinds
  <2>3. QED
    BY <1>2, <2>2, NotifyTypes, StopTypes, WorkerTypes, CrashTypes DEF MailNext
<1>3. CASE Midnight /\ UNCHANGED scene
  BY <1>3, MidnightTypes
<1>4. CASE (\E r \in Requests : AlertNext(r)) /\ UNCHANGED scene
  BY <1>4, HandleTypes, ReadTypes, CreateAlertTypes, LogTypes DEF AlertNext
<1>5. QED
  BY <1>1, <1>2, <1>3, <1>4 DEF Next

\* The rows, the queue, the outcomes and the runs always have
\* their types (model Notification of schema.prisma; the batches of
\* processAllPending and processReminders), whatever fails and however many
\* runs overlap.
THEOREM MailTypesSound == Spec => []NotificationTypeOK
<1>1. Init => TypeInv
  BY InitTypes
<1>2. TypeInv /\ [Next]_vars => TypeInv'
  BY StepTypes
<1>3. TypeInv => NotificationTypeOK
  BY DEF TypeInv
<1>4. QED
  BY <1>1, <1>2, <1>3, PTL DEF Spec

-----------------------------------------------------------------------------
(* No notification is lost and no alert is skipped: marks and logs are     *)
(* written last, and what they speak of stays.                             *)

\* The first mails queued or ended do not go away.
MailsKept == \A n \in Rows : HasFirstMail(n) => HasFirstMail(n)'

LEMMA AlertsKept ==
    ASSUME TypeInv, RowsKept, Len(notes') \in Nat, NEW s, NEW threshold,
           AlertsOf(s, threshold) # {}
    PROVE  \E n \in Rows' : /\ notes'[n].message.resource = s.name
                            /\ notes'[n].message.threshold = threshold
<1>1. PICK n \in Rows : /\ notes[n].message.resource = s.name
                        /\ notes[n].message.threshold = threshold
  BY DEF AlertsOf
<1>2. n \in Rows' /\ notes'[n].message = notes[n].message
  BY DEF RowsKept, Rows, TypeInv, NotificationTypeOK
<1>3. QED
  BY <1>1, <1>2

\* What a run has written before it marks or logs is still written, if the run
\* has not moved.
LEMMA WriteBehindKept ==
    ASSUME TypeInv, TypeInv', RowsKept, MailsKept, scene' = scene,
           NEW r \in Requests, WriteBehind(r), req'[r] = req[r]
    PROVE  WriteBehind(r)'
<1>1. ASSUME req[r].do = "markSent", req[r].kind = "first",
             (Payload(notes[Current(r)].message) = "mail")'
      PROVE  HasFirstMail(Current(r))'
  <2>1. Current(r) \in Rows
    BY <1>1, CurrentType DEF TypeInv
  <2>2. notes'[Current(r)].message = notes[Current(r)].message
    BY <2>1 DEF RowsKept
  <2>3. Current(r)' = Current(r)
    BY DEF Current
  <2>4. Payload(notes[Current(r)].message) = "mail"
    BY <1>1, <2>2, <2>3 DEF Payload
  <2>5. HasFirstMail(Current(r))
    BY <1>1, <2>4 DEF WriteBehind
  <2> DEFINE n == Current(r)
  <2>6. HasFirstMail(n) /\ n \in Rows /\ n' = n
    BY <2>1, <2>3, <2>5
  <2> HIDE DEF n
  <2>7. HasFirstMail(n)'
    BY <2>6 DEF MailsKept, HasFirstMail
  <2>8. QED
    BY <2>6, <2>7 DEF n
<1>2. ASSUME req[r].do = "logAlert"
      PROVE  AlertsOf(req[r].found[1], Head(req[r].thresholds))' # {}
  <2>1. AlertsOf(req[r].found[1], Head(req[r].thresholds)) # {}
    BY <1>2 DEF WriteBehind
  <2>2. Len(notes') \in Nat
    BY DEF TypeInv, NotificationTypeOK
  <2>3. \E n \in Rows' : /\ notes'[n].message.resource = req[r].found[1].name
                         /\ notes'[n].message.threshold = Head(req[r].thresholds)
    BY <2>1, <2>2, AlertsKept
  <2>4. QED
    BY <2>3 DEF AlertsOf
<1>3. HasReader(r)'
  BY DEF TypeInv
<1>4. (req[r].do \in {"readExpiring", "alert", "logAlert"} => scene.admins # {})'
  BY <1>3 DEF HasReader
<1>5. QED
  BY <1>1, <1>2, <1>4 DEF WriteBehind

\* A step that marks no row and logs no alert without its having been written
\* before keeps the invariant.
LEMMA KeepsMarks ==
    ASSUME TypeInv, TypeInv', RowsKept, MailsKept, MarksComeLast, scene' = scene,
           \A n \in Rows' : notes'[n].status = "SENT" =>
                /\ n \in Rows
                /\ \/ notes[n].status = "SENT"
                   \/ Payload(notes[n].message) = "mail" => HasFirstMail(n),
           \A row \in logs' : row \in logs \/ AlertsOf(row.subject, row.threshold) # {},
           \A r \in Requests : \/ req'[r] = req[r]
                               \/ req'[r].do \notin {"markSent", "logAlert"}
                               \/ WriteBehind(r)'
    PROVE  MarksComeLast'
<1>1. Len(notes') \in Nat
  BY DEF TypeInv, NotificationTypeOK
<1>2. NothingLost'
  <2> SUFFICES ASSUME NEW n \in Rows', notes'[n].status = "SENT",
                      (Payload(notes[n].message) = "mail")'
               PROVE  HasFirstMail(n)'
    BY DEF NothingLost
  <2>1. n \in Rows /\ notes'[n].message = notes[n].message
    BY DEF RowsKept
  <2>2. Payload(notes[n].message) = "mail"
    BY <2>1 DEF Payload
  <2>3. HasFirstMail(n)
    BY <2>1, <2>2 DEF MarksComeLast, NothingLost
  <2>4. QED
    BY <2>1, <2>3 DEF MailsKept
<1>3. LogMeansNotified'
  <2> SUFFICES ASSUME NEW row \in logs'
               PROVE  \E n \in Rows' : /\ notes'[n].message.resource = row.subject.name
                                       /\ notes'[n].message.threshold = row.threshold
    BY DEF LogMeansNotified, AlertsOf
  <2>1. AlertsOf(row.subject, row.threshold) # {}
    BY DEF MarksComeLast, LogMeansNotified
  <2>2. QED
    BY <1>1, <2>1, AlertsKept
<1>4. ASSUME NEW r \in Requests
      PROVE  WriteBehind(r)'
  <2>1. CASE req'[r] = req[r]
    BY <2>1, WriteBehindKept DEF MarksComeLast
  <2>2. CASE req'[r].do \notin {"markSent", "logAlert"}
    <3>1. HasReader(r)'
      BY DEF TypeInv
    <3>2. (req[r].do \in {"readExpiring", "alert", "logAlert"} => scene.admins # {})'
      BY <3>1 DEF HasReader
    <3>3. QED
      BY <2>2, <3>2 DEF WriteBehind
  <2>3. QED
    BY <2>1, <2>2
<1>5. QED
  BY <1>2, <1>3, <1>4 DEF MarksComeLast

\* The queue grows at its end.
LEMMA QueueGrows ==
    ASSUME TypeInv, outcomes' = outcomes,
           jobs' = jobs \/ \E job : jobs' = Append(jobs, job)
    PROVE  MailsKept
<1>1. jobs \in Seq(Job)
  BY DEF TypeInv, NotificationTypeOK
<1>2. ASSUME NEW i \in 1 .. Len(jobs)
      PROVE  i \in 1 .. Len(jobs') /\ jobs'[i] = jobs[i]
  <2>1. CASE jobs' = jobs
    BY <2>1
  <2>2. CASE \E job : jobs' = Append(jobs, job)
    BY <1>1, <2>2
  <2>3. QED
    BY <2>1, <2>2
<1>3. QED
  BY <1>2 DEF MailsKept, HasFirstMail

\* The worker puts what it takes into the outcomes or back into the queue.
LEMMA WorkerKeepsMails ==
    ASSUME TypeInv, SendMail \/ FailedSend
    PROVE  MailsKept
<1>1. jobs \in Seq(Job) /\ jobs # << >>
  BY DEF TypeInv, NotificationTypeOK, SendMail, FailedSend
<1>2. /\ Head(jobs) = jobs[1] /\ Head(jobs) \in Job
      /\ Tail(jobs) \in Seq(Job) /\ Len(Tail(jobs)) = Len(jobs) - 1
      /\ \A i \in 1 .. Len(Tail(jobs)) : Tail(jobs)[i] = jobs[i + 1]
  BY <1>1, HeadTailProperties
<1> DEFINE job == [Head(jobs) EXCEPT !.attempts = @ + 1]
           ended(result) == [note |-> jobs[1].note, kind |-> jobs[1].kind, result |-> result]
<1>3. job.note = jobs[1].note /\ job.kind = jobs[1].kind
  BY <1>2 DEF Job
<1>4. \/ jobs' = Tail(jobs) /\ \E result \in {"delivered", "failed"} :
                                    outcomes' = outcomes \cup {ended(result)}
      \/ jobs' = Append(Tail(jobs), job) /\ outcomes' = outcomes
  BY <1>2, <1>3 DEF SendMail, FailedSend, End
<1>5. ASSUME NEW n \in Rows, HasFirstMail(n)
      PROVE  HasFirstMail(n)'
  <2>1. CASE \E o \in outcomes : o.note = n /\ o.kind = "first"
    BY <1>4, <2>1 DEF HasFirstMail
  <2>2. CASE jobs[1].note = n /\ jobs[1].kind = "first"
    <3>1. CASE \E result \in {"delivered", "failed"} : outcomes' = outcomes \cup {ended(result)}
      <4>1. PICK result \in {"delivered", "failed"} : ended(result) \in outcomes'
        BY <3>1
      <4>2. QED
        BY <2>2, <4>1 DEF HasFirstMail
    <3>2. CASE jobs' = Append(Tail(jobs), job)
      <4> HIDE DEF job
      <4>1. jobs'[Len(jobs)] = job /\ Len(jobs') = Len(jobs) /\ Len(jobs) \in 1 .. Len(jobs')
        BY <1>1, <1>2, <3>2
      <4>2. QED
        BY <1>3, <2>2, <4>1 DEF HasFirstMail
    <3>3. QED
      BY <1>4, <3>1, <3>2
  <2>3. ASSUME NEW i \in 2 .. Len(jobs), jobs[i].note = n, jobs[i].kind = "first"
        PROVE  HasFirstMail(n)'
    <3> HIDE DEF job, ended
    <3>1. i - 1 \in 1 .. Len(Tail(jobs)) /\ Tail(jobs)[i - 1] = jobs[i]
      BY <1>1, <1>2, <2>3
    <3>2. i - 1 \in 1 .. Len(jobs') /\ jobs'[i - 1] = jobs[i]
      BY <1>2, <1>4, <3>1
    <3>3. QED
      BY <2>3, <3>2 DEF HasFirstMail
  <2>4. QED
    BY <1>1, <1>5, <2>1, <2>2, <2>3 DEF HasFirstMail
<1>6. QED
  BY <1>5 DEF MailsKept

\* A step of a run that neither queues nor marks: what it awaits next has
\* nothing behind it to be written.
LEMMA QuietKeepsMarks ==
    ASSUME TypeInv, TypeInv', MarksComeLast, scene' = scene,
           notes' = notes, jobs' = jobs, outcomes' = outcomes, logs' = logs,
           \A r \in Requests : req'[r] = req[r] \/ req'[r].do \notin {"markSent", "logAlert"}
    PROVE  MarksComeLast'
<1>1. RowsKept /\ Rows' = Rows
  BY SameRows
<1>2. MailsKept
  BY QueueGrows
<1>3. QED
  BY <1>1, <1>2, KeepsMarks

\* A request that is awaited is the only one that moves.
LEMMA OnlyOneMoves ==
    ASSUME TypeInv, NEW r \in Requests, NEW w, Await(r, w)
    PROVE  /\ req'[r] = w
           /\ \A q \in Requests \ {r} : req'[q] = req[q]
BY DEF Await, TypeInv, NotificationTypeOK

LEMMA StopMarks ==
    ASSUME TypeInv, TypeInv', MarksComeLast, RowsKept, scene' = scene,
           StopActiveReminders, UNCHANGED logs
    PROVE  MarksComeLast'
<1>1. req' = req /\ jobs' = jobs /\ outcomes' = outcomes
  BY DEF StopActiveReminders
<1>2. PICK mine \in SUBSET Rows :
        notes' = [k \in Rows |-> IF k \notin mine THEN notes[k]
                    ELSE [notes[k] EXCEPT !.expiresOn = today, !.stopped = TRUE]]
  BY DEF StopActiveReminders
<1>3. \A k \in Rows : notes[k] \in NoteRow
  BY DEF TypeInv, NotificationTypeOK, Rows
<1>4. DOMAIN notes' = Rows
  BY <1>2
<1>5. Rows' = Rows
  BY <1>4 DEF Rows, TypeInv, NotificationTypeOK
<1>6. \A k \in Rows : notes'[k].status = notes[k].status
  BY <1>2, <1>3 DEF NoteRow
<1>7. MailsKept
  BY <1>1, QueueGrows
<1>8. QED
  BY <1>1, <1>5, <1>6, <1>7, KeepsMarks

LEMMA NotifyMarks ==
    ASSUME TypeInv, TypeInv', MarksComeLast, scene' = scene, RowsKept,
           NEW m \in Message, CreateNotification(m),
           jobs' = jobs, outcomes' = outcomes, logs' = logs,
           \A r \in Requests : \/ req'[r] = req[r]
                               \/ req'[r].do \notin {"markSent", "logAlert"}
                               \/ WriteBehind(r)'
    PROVE  MarksComeLast'
<1>1. /\ Len(notes') = Len(notes) + 1 /\ \A n \in Rows : notes'[n] = notes[n]
      /\ notes'[Len(notes')] = Note(m)
  BY NotificationCreated DEF TypeInv
<1>2. Len(notes) \in Nat
  BY DEF TypeInv, NotificationTypeOK
<1>3. \A n \in Rows' : notes'[n].status = "SENT" => n \in Rows /\ notes[n].status = "SENT"
  BY <1>1, <1>2 DEF Rows, Note
<1>4. MailsKept
  BY QueueGrows
<1>5. QED
  BY <1>3, <1>4, KeepsMarks

LEMMA QueueMarks ==
    ASSUME TypeInv, TypeInv', MarksComeLast, scene' = scene, RowsKept,
           NEW r \in Requests, QueueMail(r), UNCHANGED logs
    PROVE  MarksComeLast'
<1> DEFINE n == Current(r)
           payload == Payload(notes[n].message)
           w == [req[r] EXCEPT !.do = "markSent"]
           job == [note |-> n, kind |-> req[r].kind, attempts |-> 0]
<1>1. /\ req[r].do = "queueMail" /\ outcomes' = outcomes
      /\ jobs' = IF payload # "mail" THEN jobs ELSE Append(jobs, job)
      /\ IF payload = "throws" THEN NextRow(r) ELSE Await(r, w)
      /\ notes' = IF payload = "mail" /\ req[r].kind = "reminder" /\ notes[n].stopped
                  THEN [notes EXCEPT ![n].late = @ + 1] ELSE notes
  BY DEF QueueMail
<1>2. n \in Rows /\ req[r] \in MailWork
  BY <1>1, CurrentType DEF TypeInv
<1>3. MailsKept
  BY <1>1, QueueGrows
<1>4. Rows' = Rows /\ \A k \in Rows : notes'[k].status = notes[k].status
  <2>1. notes \in [Rows -> NoteRow]
    BY DEF TypeInv, NotificationTypeOK, Rows
  <2> HIDE DEF n, payload, job, w
  <2> DEFINE counted == [notes EXCEPT ![n].late = @ + 1]
  <2>2. DOMAIN counted = Rows /\ \A k \in Rows : counted[k].status = notes[k].status
    BY <1>2, <2>1 DEF NoteRow
  <2> HIDE DEF counted
  <2>3. DOMAIN notes' = Rows /\ \A k \in Rows : notes'[k].status = notes[k].status
    BY <1>1, <2>1, <2>2 DEF counted
  <2>4. Rows' = Rows
    BY <2>3 DEF Rows, TypeInv, NotificationTypeOK
  <2>5. QED
    BY <2>3, <2>4
<1>5. \/ req'[r].do \notin {"markSent", "logAlert"}
      \/ WriteBehind(r)'
  <2>1. CASE payload = "throws"
    <3>1. NextRow(r)
      BY <1>1, <2>1
    <3>2. PICK v \in {Idle} \cup MailWork :
                Await(r, v) /\ (v # Idle => v.do = "queueMail")
      BY <1>1, <3>1, NextRowWork DEF TypeInv
    <3>3. req'[r] = v
      BY <3>2, OnlyOneMoves
    <3>4. QED
      BY <3>2, <3>3 DEF Idle
  <2>2. CASE payload # "throws"
    <3>1. Await(r, w)
      BY <1>1, <2>2
    <3>2. req'[r] = w
      BY <3>1, OnlyOneMoves
    <3>3. w.do = "markSent" /\ w.batch = req[r].batch /\ w.kind = req[r].kind
      BY <1>2 DEF MailWork
    <3>4. Current(r)' = n
      BY <3>2, <3>3 DEF Current
    <3>5. ASSUME req[r].kind = "first", payload = "mail"
          PROVE  HasFirstMail(Current(r))'
      <4>1. jobs' = Append(jobs, job) /\ jobs \in Seq(Job)
        BY <1>1, <3>5 DEF TypeInv, NotificationTypeOK
      <4>2. job.note = n /\ job.kind = "first"
        BY <3>5
      <4> HIDE DEF job, n
      <4>3. Len(jobs) + 1 \in 1 .. Len(jobs') /\ jobs'[Len(jobs) + 1] = job
        BY <4>1
      <4>4. QED
        BY <3>4, <4>2, <4>3 DEF HasFirstMail
    <3>6. (Payload(notes[Current(r)].message))' = payload
      BY <1>2, <3>4 DEF Payload, RowsKept
    <3>7. QED
      BY <3>2, <3>3, <3>5, <3>6 DEF WriteBehind
  <2>3. QED
    BY <2>1, <2>2
<1>6. \A q \in Requests \ {r} : req'[q] = req[q]
  <2>1. \E v : Await(r, v)
    BY <1>1 DEF NextRow
  <2>2. QED
    BY <2>1, OnlyOneMoves
<1>7. QED
  BY <1>3, <1>4, <1>5, <1>6, KeepsMarks

LEMMA MarkMarks ==
    ASSUME TypeInv, TypeInv', MarksComeLast, scene' = scene, RowsKept,
           NEW r \in Requests, MarkSent(r), UNCHANGED logs
    PROVE  MarksComeLast'
<1> DEFINE n == Current(r)
<1>1. /\ req[r].do = "markSent" /\ outcomes' = outcomes /\ jobs' = jobs /\ NextRow(r)
      /\ notes' = [notes EXCEPT ![n].status = IF req[r].kind = "first" THEN "SENT" ELSE @,
                                ![n].sentOn = today]
  BY DEF MarkSent
<1>2. n \in Rows
  BY <1>1, CurrentType DEF TypeInv
<1>3. MailsKept
  BY <1>1, QueueGrows
<1>4. Payload(notes[n].message) = "mail" /\ req[r].kind = "first" => HasFirstMail(n)
  BY <1>1 DEF MarksComeLast, WriteBehind
<1>5. /\ Rows' = Rows
      /\ \A k \in Rows \ {n} : notes'[k] = notes[k]
      /\ req[r].kind # "first" => notes'[n].status = notes[n].status
  <2>1. notes \in [Rows -> NoteRow]
    BY DEF TypeInv, NotificationTypeOK, Rows
  <2> HIDE DEF n
  <2>2. DOMAIN notes' = Rows /\ \A k \in Rows \ {n} : notes'[k] = notes[k]
    BY <1>1, <1>2, <2>1
  <2>3. req[r].kind # "first" => notes'[n].status = notes[n].status
    BY <1>1, <1>2, <2>1 DEF NoteRow
  <2>4. Rows' = Rows
    BY <2>2 DEF Rows, TypeInv, NotificationTypeOK
  <2>5. QED
    BY <2>2, <2>3, <2>4
<1>6. \A k \in Rows' : notes'[k].status = "SENT" =>
        /\ k \in Rows
        /\ \/ notes[k].status = "SENT"
           \/ Payload(notes[k].message) = "mail" => HasFirstMail(k)
  BY <1>4, <1>5
<1>7. \A q \in Requests : req'[q] = req[q] \/ req'[q].do \notin {"markSent", "logAlert"}
  <2>1. PICK v \in {Idle} \cup MailWork : Await(r, v) /\ (v # Idle => v.do = "queueMail")
    BY <1>1, NextRowWork DEF TypeInv
  <2>2. v.do \notin {"markSent", "logAlert"}
    BY <2>1 DEF Idle
  <2>3. QED
    BY <2>1, <2>2, OnlyOneMoves
<1> HIDE DEF n
<1>8. QED
  BY <1>3, <1>6, <1>7, KeepsMarks

LEMMA CallMarks ==
    ASSUME TypeInv, TypeInv', MarksComeLast, scene' = scene,
           NEW r \in Requests, FailedCall(r), UNCHANGED logs
    PROVE  MarksComeLast'
<1>1. /\ notes' = notes /\ jobs' = jobs /\ outcomes' = outcomes
      /\ req[r].do \in {"queueMail", "markSent"} /\ NextRow(r)
  BY DEF FailedCall
<1>2. PICK v \in {Idle} \cup MailWork : Await(r, v) /\ (v # Idle => v.do = "queueMail")
  BY <1>1, NextRowWork DEF TypeInv
<1>3. v.do \notin {"markSent", "logAlert"}
  BY <1>2 DEF Idle
<1>4. \A q \in Requests : req'[q] = req[q] \/ req'[q].do \notin {"markSent", "logAlert"}
  BY <1>2, <1>3, OnlyOneMoves
<1>5. QED
  BY <1>1, <1>4, QuietKeepsMarks

LEMMA AlertMarks ==
    ASSUME TypeInv, TypeInv', MarksComeLast, scene' = scene, RowsKept,
           NEW r \in Requests, AlertNext(r)
    PROVE  MarksComeLast'
<1>1. ASSUME NEW kind \in DOMAIN Thresholds, HandleExpiryAlerts(r, kind)
      PROVE  MarksComeLast'
  <2>1. /\ notes' = notes /\ jobs' = jobs /\ outcomes' = outcomes /\ logs' = logs
        /\ \/ req' = req
           \/ Await(r, AlertRun("readExpiring", kind, Thresholds[kind], {}))
    BY <1>1 DEF HandleExpiryAlerts, MailVars
  <2>2. \A q \in Requests : req'[q] = req[q] \/ req'[q].do \notin {"markSent", "logAlert"}
    <3>1. CASE req' = req
      BY <3>1
    <3>2. CASE Await(r, AlertRun("readExpiring", kind, Thresholds[kind], {}))
      <4>1. AlertRun("readExpiring", kind, Thresholds[kind], {}).do = "readExpiring"
        BY DEF AlertRun
      <4>2. QED
        BY <3>2, <4>1, OnlyOneMoves
    <3>3. QED
      BY <2>1, <3>1, <3>2
  <2>3. QED
    BY <2>1, <2>2, QuietKeepsMarks
<1>2. CASE ReadExpiring(r)
  <2> DEFINE found == Expiring(req[r].kind, Head(req[r].thresholds))
  <2>1. /\ notes' = notes /\ jobs' = jobs /\ outcomes' = outcomes /\ logs' = logs
        /\ req[r].do = "readExpiring" /\ NextAlert(r, found)
    BY <1>2 DEF ReadExpiring, MailVars
  <2>2. found \in SUBSET Subject
    BY SceneTyped DEF Expiring, TypeInv
  <2> HIDE DEF found
  <2>3. PICK w \in {Idle} \cup AlertWork :
            Await(r, w) /\ w.do \in {"idle", "readExpiring", "alert"}
    BY <2>1, <2>2, NextAlertWork
  <2>4. \A q \in Requests : req'[q] = req[q] \/ req'[q].do \notin {"markSent", "logAlert"}
    BY <2>3, OnlyOneMoves
  <2>5. QED
    BY <2>1, <2>4, QuietKeepsMarks
<1>3. CASE CreateAlert(r)
  <2> DEFINE threshold == Head(req[r].thresholds)
  <2>1. PICK s \in req[r].found :
            /\ CreateNotification(AlertMessage(s, threshold))
            /\ \E w : Await(r, w)
    BY <1>3 DEF CreateAlert
  <2>2. req[r].do = "alert" /\ jobs' = jobs /\ outcomes' = outcomes /\ logs' = logs
    BY <1>3 DEF CreateAlert
  <2>3. AlertMessage(s, threshold) \in Message
    BY <2>2, AlertType, AlertMessageTyped
  <2>4. WriteBehind(r)'
    <3>1. /\ req'[r].do = "logAlert"
          /\ AlertsOf(req[r].found[1], Head(req[r].thresholds))' # {}
      BY <1>3, CreateAlertTypes
    <3>2. HasReader(r)'
      BY DEF TypeInv
    <3>3. (req[r].do \in {"readExpiring", "alert", "logAlert"} => scene.admins # {})'
      BY <3>2 DEF HasReader
    <3>4. QED
      BY <3>1, <3>3 DEF WriteBehind
  <2>5. \A q \in Requests \ {r} : req'[q] = req[q]
    BY <2>1, OnlyOneMoves
  <2> HIDE DEF threshold
  <2>6. QED
    BY <2>1, <2>2, <2>3, <2>4, <2>5, NotifyMarks
<1>4. CASE CreateAlertLog(r)
  <2> DEFINE s == req[r].found[1]
             threshold == Head(req[r].thresholds)
             found == req[r].found[2] \ {s}
  <2>1. /\ notes' = notes /\ jobs' = jobs /\ outcomes' = outcomes
        /\ req[r].do = "logAlert" /\ NextAlert(r, found)
        /\ logs' = logs \cup {LogRow(s, threshold)}
    BY <1>4 DEF CreateAlertLog, MailVars
  <2>2. found \in SUBSET Subject
    BY <2>1, AlertType
  <2>3. AlertsOf(s, threshold) # {}
    BY <2>1 DEF MarksComeLast, WriteBehind
  <2>4. LogRow(s, threshold).subject = s /\ LogRow(s, threshold).threshold = threshold
    BY DEF LogRow
  <2> HIDE DEF s, threshold, found
  <2>5. \A row \in logs' : row \in logs \/ AlertsOf(row.subject, row.threshold) # {}
    BY <2>1, <2>3, <2>4
  <2>6. PICK w \in {Idle} \cup AlertWork :
            Await(r, w) /\ w.do \in {"idle", "readExpiring", "alert"}
    BY <2>1, <2>2, NextAlertWork
  <2>7. \A q \in Requests : req'[q] = req[q] \/ req'[q].do \notin {"markSent", "logAlert"}
    BY <2>6, OnlyOneMoves
  <2>8. Rows' = Rows /\ MailsKept
    BY <2>1, SameRows, QueueGrows
  <2>9. QED
    BY <2>1, <2>5, <2>7, <2>8, KeepsMarks
<1>5. QED
  BY <1>1, <1>2, <1>3, <1>4 DEF AlertNext

LEMMA InitMarks == Init => MarksComeLast
BY DEF Init, NotificationInit, AlertsInit, MarksComeLast, NothingLost, LogMeansNotified,
       WriteBehind, Rows, Idle

LEMMA StepMarks ==
    ASSUME TypeInv, MarksComeLast, [Next]_vars
    PROVE  MarksComeLast'
<1>1. TypeInv' /\ RowsKept
  BY StepTypes
<1>2. CASE UNCHANGED vars
  BY <1>1, <1>2, QuietKeepsMarks DEF vars
<1>3. CASE MailNext /\ UNCHANGED << logs, ran, scene >>
  <2>1. CASE Notify
    <3>1. PICK m \in scene.messages : CreateNotification(m)
      BY <2>1 DEF Notify
    <3>2. m \in Message
      BY SceneTyped DEF TypeInv
    <3>3. req' = req /\ jobs' = jobs /\ outcomes' = outcomes
      BY <2>1 DEF Notify
    <3>4. QED
      BY <1>1, <1>3, <3>1, <3>2, <3>3, NotifyMarks
  <2>2. CASE StopActiveReminders
    BY <1>1, <1>3, <2>2, StopMarks
  <2>3. CASE SendMail \/ FailedSend
    <3>1. MailsKept
      BY <2>3, WorkerKeepsMails
    <3>2. notes' = notes /\ req' = req
      BY <2>3 DEF SendMail, FailedSend
    <3>3. Rows' = Rows
      BY <3>2, SameRows
    <3>4. QED
      BY <1>1, <1>3, <3>1, <3>2, <3>3, KeepsMarks
  <2>4. CASE Crash
    <3>1. /\ notes' = notes /\ jobs' = jobs /\ outcomes' = outcomes
          /\ \A q \in Requests : req'[q].do \notin {"markSent", "logAlert"}
      BY <2>4 DEF Crash, Idle
    <3>2. QED
      BY <1>1, <1>3, <3>1, QuietKeepsMarks
  <2>5. ASSUME NEW r \in Requests, MailRun(r) \/ FailedCall(r)
        PROVE  MarksComeLast'
    <3>1. ASSUME NEW kind, NEW batch, StartRun(r, kind, batch)
          PROVE  MarksComeLast'
      <4>1. Await(r, Run(kind, batch)) /\ notes' = notes /\ jobs' = jobs
            /\ outcomes' = outcomes
        BY <3>1 DEF StartRun, MailVars
      <4>2. Run(kind, batch).do = "queueMail"
        BY DEF Run
      <4>3. \A q \in Requests :
                req'[q] = req[q] \/ req'[q].do \notin {"markSent", "logAlert"}
        BY <4>1, <4>2, OnlyOneMoves
      <4>4. QED
        BY <1>1, <1>3, <4>1, <4>3, QuietKeepsMarks
    <3>2. QED
      BY <1>1, <1>3, <2>5, <3>1, QueueMarks, MarkMarks, CallMarks
         DEF MailRun, ProcessAllPending, ProcessReminders
  <2>6. QED
    BY <1>3, <2>1, <2>2, <2>3, <2>4, <2>5 DEF MailNext
<1>4. CASE Midnight /\ UNCHANGED scene
  BY <1>1, <1>4, QuietKeepsMarks DEF Midnight
<1>5. CASE (\E r \in Requests : AlertNext(r)) /\ UNCHANGED scene
  BY <1>1, <1>5, AlertMarks
<1>6. QED
  BY <1>2, <1>3, <1>4, <1>5 DEF Next

\* The inductive invariant: a run about to mark a row sent has queued its mail
\* (processPending marks after sendMailByTemplate), and one about to log an
\* alert has created it (handleExpiryAlerts logs after createNotification).
THEOREM WritesComeInOrder == Spec => []MarksComeLast
<1>1. Init => TypeInv /\ MarksComeLast
  BY InitTypes, InitMarks
<1>2. TypeInv /\ MarksComeLast /\ [Next]_vars => (TypeInv /\ MarksComeLast)'
  BY StepTypes, StepMarks
<1>3. QED
  BY <1>1, <1>2, PTL DEF Spec

\* No notification is lost: whatever crashes, fails or overlaps, a row that the
\* cron has marked sent and that has a mail has it in the queue, or it was
\* delivered, or tried as often as the queue tries (processPending).
THEOREM NeverLost == Spec => []NothingLost
<1>1. MarksComeLast => NothingLost
  BY DEF MarksComeLast
<1>2. QED
  BY <1>1, WritesComeInOrder, PTL

\* The log of alerts never claims one that was not created: a crash in between
\* repeats an alert and never skips one (the two expiry crons).
THEOREM LogNeverAhead == Spec => []LogMeansNotified
<1>1. MarksComeLast => LogMeansNotified
  BY DEF MarksComeLast
<1>2. QED
  BY <1>1, WritesComeInOrder, PTL

-----------------------------------------------------------------------------
(* Reminders stop: a run that has read a row before its reminders were     *)
(* stopped queues at most one, and no later run reads the row.             *)

\* Only the requests of the scene run.
SceneRuns == \A r \in Requests \ scene.requests : req[r] = Idle

LEMMA RemindersAreRuns ==
    ASSUME TypeInv, NEW n \in Rows
    PROVE  /\ IsFiniteSet(Reminding(n))
           /\ Cardinality(Reminding(n)) \in Nat /\ Cardinality(scene.requests) \in Nat
           /\ Cardinality(Reminding(n)) <= Cardinality(scene.requests)
<1>1. IsFiniteSet(scene.requests)
  BY SceneTyped DEF TypeInv
<1>2. Reminding(n) \subseteq scene.requests
  BY DEF Reminding
<1> DEFINE S == scene.requests
           T == Reminding(n)
<1> HIDE DEF S, T
<1>3. IsFiniteSet(S) /\ T \subseteq S
  BY <1>1, <1>2 DEF S, T
<1>4. IsFiniteSet(T) /\ Cardinality(T) <= Cardinality(S)
  BY <1>3, FS_Subset
<1>5. Cardinality(S) \in Nat /\ Cardinality(T) \in Nat
  BY <1>3, <1>4, FS_CardinalityType
<1>6. QED
  BY <1>4, <1>5 DEF S, T

\* A run that goes on, ends or begins does not come back to a stopped row.
LEMMA RemindersShrink ==
    ASSUME TypeInv, scene' = scene, NEW n \in Rows, NEW r \in Requests,
           NEW w, Await(r, w),
           \/ w.do \notin {"queueMail", "markSent"}
           \/ w.do = "queueMail" /\ (w.kind = "reminder" => n \notin w.batch)
           \/ /\ req[r].do \in {"queueMail", "markSent"} /\ w.kind = req[r].kind
              /\ \/ w.do = "queueMail" /\ w.batch = req[r].batch \ {Current(r)}
                 \/ w.do = "markSent" /\ w.batch = req[r].batch
    PROVE  Reminding(n)' \subseteq Reminding(n)
<1> SUFFICES ASSUME NEW q \in Reminding(n)'
             PROVE  q \in Reminding(n)
  OBVIOUS
<1>1. /\ q \in scene.requests /\ q \in Requests
      /\ req'[q].do \in {"queueMail", "markSent"} /\ req'[q].kind = "reminder"
      /\ n \in req'[q].batch /\ (req'[q].do = "markSent" => n # Current(q)')
  BY SceneTyped DEF Reminding, TypeInv
<1>2. CASE q # r
  <2>1. req'[q] = req[q]
    BY <1>1, <1>2, OnlyOneMoves
  <2>2. Current(q)' = Current(q)
    BY <2>1 DEF Current
  <2>3. QED
    BY <1>1, <2>1, <2>2 DEF Reminding
<1>3. CASE q = r
  <2>1. req'[r] = w
    BY OnlyOneMoves
  <2>2. CASE w.do = "queueMail" /\ w.batch = req[r].batch \ {Current(r)}
    BY <1>1, <1>3, <2>1, <2>2 DEF Reminding
  <2>3. CASE w.do = "markSent" /\ w.batch = req[r].batch
    <3>1. Current(r)' = Current(r)
      BY <2>1, <2>3 DEF Current
    <3>2. QED
      BY <1>1, <1>3, <2>1, <2>3, <3>1 DEF Reminding
  <2>4. QED
    BY <1>1, <1>3, <2>1, <2>2, <2>3
<1>4. QED
  BY <1>2, <1>3

\* A row whose reminders a step neither stops nor queues.
LEMMA KeepsRow ==
    ASSUME TypeInv, TypeInv', scene' = scene, today <= today',
           NEW n \in Rows, LateCounted(n),
           notes'[n].stopped = notes[n].stopped,
           notes'[n].late = notes[n].late,
           notes'[n].expiresOn = notes[n].expiresOn,
           notes[n].stopped => Reminding(n)' \subseteq Reminding(n)
    PROVE  LateCounted(n)'
<1>1. CASE ~notes[n].stopped
  BY <1>1 DEF LateCounted
<1>2. CASE notes[n].stopped
  <2>1. /\ notes[n].expiresOn <= today
        /\ notes[n].late + Cardinality(Reminding(n)) <= Cardinality(scene.requests)
    BY <1>2 DEF LateCounted
  <2>2. notes[n] \in NoteRow /\ today \in Nat /\ today' \in Nat
    BY DEF TypeInv, NotificationTypeOK, Rows
  <2>3. notes[n].late \in Nat /\ notes[n].expiresOn \in Nat
    BY <2>2 DEF NoteRow
  <2> DEFINE S == Reminding(n)
             T == Reminding(n)'
             bound == Cardinality(scene.requests)
  <2>4. IsFiniteSet(S) /\ Cardinality(S) \in Nat /\ bound \in Nat
    BY RemindersAreRuns
  <2>5. T \subseteq S
    BY <1>2
  <2> HIDE DEF S, T, bound
  <2>6. IsFiniteSet(T) /\ Cardinality(T) <= Cardinality(S)
    BY <2>4, <2>5, FS_Subset
  <2>7. Cardinality(T) \in Nat
    BY <2>6, FS_CardinalityType
  <2>8. notes[n].late + Cardinality(S) <= bound
    BY <2>1 DEF S, bound
  <2>9. notes[n].late + Cardinality(T) <= bound
    BY <2>3, <2>4, <2>6, <2>7, <2>8
  <2>10. notes[n].expiresOn <= today'
    BY <2>1, <2>2, <2>3
  <2>11. QED
    BY <1>2, <2>9, <2>10 DEF T, bound, LateCounted
<1>3. QED
  BY <1>1, <1>2

\* A step that stops no reminder and queues none of a stopped row.
LEMMA KeepsCount ==
    ASSUME TypeInv, TypeInv', LateRunsCounted, scene' = scene, today <= today',
           \A n \in Rows' : IF n \in Rows
                THEN /\ notes'[n].stopped = notes[n].stopped
                     /\ notes'[n].late = notes[n].late
                     /\ notes'[n].expiresOn = notes[n].expiresOn
                ELSE notes'[n].stopped = FALSE /\ notes'[n].late = 0,
           \A n \in Rows : notes[n].stopped => Reminding(n)' \subseteq Reminding(n)
    PROVE  LateRunsCounted'
<1> SUFFICES ASSUME NEW n \in Rows'
             PROVE  LateCounted(n)'
  BY DEF LateRunsCounted
<1>1. CASE n \notin Rows
  BY <1>1 DEF LateCounted
<1>2. CASE n \in Rows
  BY <1>2, KeepsRow DEF LateRunsCounted
<1>3. QED
  BY <1>1, <1>2

\* A step of a run that changes no row.
LEMMA RunKeepsCount ==
    ASSUME TypeInv, TypeInv', LateRunsCounted, scene' = scene, notes' = notes,
           today <= today', NEW r \in Requests, NEW w, Await(r, w),
           \A n \in Rows : notes[n].stopped =>
               \/ w.do \notin {"queueMail", "markSent"}
               \/ w.do = "queueMail" /\ (w.kind = "reminder" => n \notin w.batch)
               \/ /\ req[r].do \in {"queueMail", "markSent"} /\ w.kind = req[r].kind
                  /\ \/ w.do = "queueMail" /\ w.batch = req[r].batch \ {Current(r)}
                     \/ w.do = "markSent" /\ w.batch = req[r].batch
    PROVE  LateRunsCounted'
<1>1. Rows' = Rows
  BY SameRows
<1>2. \A n \in Rows : notes[n].stopped => Reminding(n)' \subseteq Reminding(n)
  BY RemindersShrink
<1>3. QED
  BY <1>1, <1>2, KeepsCount

\* No run moves, and no row changes.
LEMMA StillKeepsCount ==
    ASSUME TypeInv, TypeInv', LateRunsCounted, scene' = scene, notes' = notes,
           today <= today',
           \A r \in Requests : req'[r] = req[r] \/ req'[r].do = "idle"
    PROVE  LateRunsCounted'
<1>1. Rows' = Rows
  BY SameRows
<1>2. ASSUME NEW n \in Rows, NEW q \in Reminding(n)'
      PROVE  q \in Reminding(n)
  <2>1. q \in Requests /\ q \in scene.requests /\ req'[q].do # "idle"
    BY <1>2, SceneTyped DEF Reminding, TypeInv
  <2>2. req'[q] = req[q]
    BY <2>1
  <2>3. Current(q)' = Current(q)
    BY <2>2 DEF Current
  <2>4. QED
    BY <1>2, <2>1, <2>2, <2>3 DEF Reminding
<1>3. QED
  BY <1>1, <1>2, KeepsCount

LEMMA StopCounts ==
    ASSUME TypeInv, TypeInv', LateRunsCounted, scene' = scene, StopActiveReminders
    PROVE  LateRunsCounted'
<1>1. req' = req /\ today' = today /\ today \in Nat
  BY DEF StopActiveReminders, TypeInv, NotificationTypeOK
<1>2. PICK mine \in SUBSET Rows :
        notes' = [k \in Rows |-> IF k \notin mine THEN notes[k]
                    ELSE [notes[k] EXCEPT !.expiresOn = today, !.stopped = TRUE]]
  BY DEF StopActiveReminders
<1>3. DOMAIN notes' = Rows
  BY <1>2
<1>4. Rows' = Rows
  BY <1>3 DEF Rows, TypeInv, NotificationTypeOK
<1>5. ASSUME NEW n \in Rows
      PROVE  Reminding(n)' = Reminding(n)
  BY <1>1 DEF Reminding, Current
<1> SUFFICES ASSUME NEW n \in Rows
             PROVE  IF notes'[n].stopped
                    THEN /\ notes'[n].expiresOn <= today'
                         /\ notes'[n].late + Cardinality(Reminding(n)) <= Cardinality(scene.requests)
                    ELSE notes'[n].late = 0
  BY <1>4, <1>5 DEF LateRunsCounted, LateCounted
<1>6. IF notes[n].stopped
      THEN /\ notes[n].expiresOn <= today
           /\ notes[n].late + Cardinality(Reminding(n)) <= Cardinality(scene.requests)
      ELSE notes[n].late = 0
  BY DEF LateRunsCounted, LateCounted
<1>7. CASE n \notin mine
  BY <1>1, <1>2, <1>6, <1>7
<1>8. CASE n \in mine
  <2>1. notes[n] \in NoteRow
    BY DEF TypeInv, NotificationTypeOK, Rows
  <2>2. notes'[n] = [notes[n] EXCEPT !.expiresOn = today, !.stopped = TRUE]
    BY <1>2, <1>8
  <2>3. notes'[n].stopped /\ notes'[n].expiresOn = today /\ notes'[n].late = notes[n].late
    BY <2>1, <2>2 DEF NoteRow
  <2> DEFINE S == Cardinality(Reminding(n))
             bound == Cardinality(scene.requests)
  <2>4. S \in Nat /\ bound \in Nat /\ S <= bound
    BY RemindersAreRuns
  <2> HIDE DEF S, bound
  <2>5. notes[n].late + S <= bound
    BY <1>6, <2>4 DEF S, bound
  <2>6. QED
    BY <1>1, <2>3, <2>5 DEF S, bound
<1>9. QED
  BY <1>7, <1>8

LEMMA NewRowCounts ==
    ASSUME TypeInv, TypeInv', LateRunsCounted, scene' = scene, today' = today,
           NEW m \in Message, CreateNotification(m),
           \A n \in Rows : notes[n].stopped => Reminding(n)' \subseteq Reminding(n)
    PROVE  LateRunsCounted'
<1>1. /\ Len(notes') = Len(notes) + 1 /\ \A n \in Rows : notes'[n] = notes[n]
      /\ notes'[Len(notes')] = Note(m)
  BY NotificationCreated DEF TypeInv
<1>2. Len(notes) \in Nat /\ today \in Nat
  BY DEF TypeInv, NotificationTypeOK
<1>3. Note(m).stopped = FALSE /\ Note(m).late = 0
  BY DEF Note
<1>4. \A n \in Rows' : n \in Rows \/ n = Len(notes')
  BY <1>1, <1>2 DEF Rows
<1>5. \A n \in Rows' : IF n \in Rows
                THEN /\ notes'[n].stopped = notes[n].stopped
                     /\ notes'[n].late = notes[n].late
                     /\ notes'[n].expiresOn = notes[n].expiresOn
                ELSE notes'[n].stopped = FALSE /\ notes'[n].late = 0
  BY <1>1, <1>3, <1>4
<1>6. today <= today'
  BY <1>2
<1>7. QED
  BY <1>5, <1>6, KeepsCount

LEMMA QueueCounts ==
    ASSUME TypeInv, TypeInv', LateRunsCounted, SceneRuns, scene' = scene,
           NEW r \in Requests, QueueMail(r)
    PROVE  LateRunsCounted'
<1> DEFINE n == Current(r)
           w == [req[r] EXCEPT !.do = "markSent"]
           counts == /\ Payload(notes[n].message) = "mail"
                     /\ req[r].kind = "reminder" /\ notes[n].stopped
<1>1. /\ req[r].do = "queueMail" /\ today' = today /\ today \in Nat
      /\ IF Payload(notes[n].message) = "throws" THEN NextRow(r) ELSE Await(r, w)
      /\ notes' = IF counts THEN [notes EXCEPT ![n].late = @ + 1] ELSE notes
  BY DEF QueueMail, TypeInv, NotificationTypeOK
<1>2. n \in Rows /\ n \in req[r].batch /\ req[r] \in MailWork
  BY <1>1, CurrentType DEF TypeInv
<1>3. w.do = "markSent" /\ w.batch = req[r].batch /\ w.kind = req[r].kind
  BY <1>2 DEF MailWork
<1>4. \E v : /\ Await(r, v)
             /\ \/ v.do = "idle"
                \/ /\ v.kind = req[r].kind
                   /\ \/ v.do = "queueMail" /\ v.batch = req[r].batch \ {n}
                      \/ v.do = "markSent" /\ v.batch = req[r].batch
  <2>1. CASE Payload(notes[n].message) = "throws"
    <3>1. NextRow(r)
      BY <1>1, <2>1
    <3>2. QED
      BY <1>1, <3>1, NextRowWork DEF TypeInv, Idle
  <2>2. CASE Payload(notes[n].message) # "throws"
    <3> HIDE DEF w
    <3>1. QED
      BY <1>1, <1>3, <2>2
  <2>3. QED
    BY <2>1, <2>2
<1>5. \A k \in Rows : Reminding(k)' \subseteq Reminding(k)
  BY <1>1, <1>4, RemindersShrink
<1>6. today <= today'
  BY <1>1
<1>7. CASE ~counts
  <2>1. notes' = notes
    BY <1>1, <1>7
  <2>2. Rows' = Rows
    BY <2>1, SameRows
  <2> HIDE DEF counts
  <2>3. QED
    BY <1>5, <1>6, <2>1, <2>2, KeepsCount
<1>8. CASE counts
  <2>1. notes' = [notes EXCEPT ![n].late = @ + 1]
    BY <1>1, <1>8
  <2>2. notes \in [Rows -> NoteRow]
    BY DEF TypeInv, NotificationTypeOK, Rows
  <2>3. r \in scene.requests
    BY <1>1 DEF SceneRuns, Idle
  <2>4. r \in Reminding(n)
    BY <1>1, <1>2, <1>8, <2>3 DEF Reminding
  <2>5. ASSUME NEW k \in Rows, k = n
        PROVE  r \notin Reminding(k)'
    <3>1. Await(r, w)
      BY <1>1, <1>8
    <3>2. req'[r] = w
      BY <3>1, OnlyOneMoves
    <3>3. Current(r)' = n
      BY <1>3, <3>2 DEF Current
    <3> HIDE DEF n
    <3>4. QED
      BY <1>3, <2>5, <3>2, <3>3 DEF Reminding
  <2> HIDE DEF n, counts, w
  <2>6. /\ Rows' = Rows
        /\ \A k \in Rows \ {n} : notes'[k] = notes[k]
        /\ notes'[n].stopped = notes[n].stopped
        /\ notes'[n].expiresOn = notes[n].expiresOn
        /\ notes'[n].late = notes[n].late + 1
    <3>1. /\ \A k \in Rows \ {n} : notes'[k] = notes[k]
          /\ notes'[n].stopped = notes[n].stopped
          /\ notes'[n].expiresOn = notes[n].expiresOn
          /\ notes'[n].late = notes[n].late + 1
      BY <1>2, <2>1, <2>2 DEF NoteRow
    <3>2. DOMAIN notes' = Rows
      BY <2>1, <2>2
    <3>3. Rows' = Rows
      BY <3>2 DEF Rows, TypeInv, NotificationTypeOK
    <3>4. QED
      BY <3>1, <3>3
  <2>7. ASSUME NEW k \in Rows \ {n}
        PROVE  LateCounted(k)'
    <3>1. notes'[k] = notes[k]
      BY <2>6
    <3>2. LateCounted(k) /\ Reminding(k)' \subseteq Reminding(k)
      BY <1>5 DEF LateRunsCounted
    <3>3. QED
      BY <1>6, <3>1, <3>2, KeepsRow
  <2>8. ASSUME NEW k \in Rows, k = n
        PROVE  LateCounted(k)'
    <3> DEFINE S == Reminding(k)
               T == Reminding(k)'
               bound == Cardinality(scene.requests)
    <3>1. IsFiniteSet(S) /\ Cardinality(S) \in Nat /\ bound \in Nat
      BY RemindersAreRuns
    <3>2. notes[k].stopped
      BY <1>8, <2>8 DEF counts
    <3>3. notes[k].expiresOn <= today /\ notes[k].late + Cardinality(S) <= bound
      BY <3>2 DEF LateRunsCounted, LateCounted
    <3>4. T \subseteq S /\ r \in S /\ r \notin T
      BY <1>5, <2>4, <2>5, <2>8
    <3>5. notes[k] \in NoteRow
      BY <2>2
    <3>6. notes[k].late \in Nat
      BY <3>5 DEF NoteRow
    <3> HIDE DEF S, T, bound
    <3>7. T \subseteq S \ {r}
      BY <3>4
    <3>8. IsFiniteSet(S \ {r}) /\ Cardinality(S \ {r}) = Cardinality(S) - 1
      BY <3>1, <3>4, FS_RemoveElement
    <3>9. IsFiniteSet(T) /\ Cardinality(T) <= Cardinality(S \ {r})
      BY <3>7, <3>8, FS_Subset
    <3>10. Cardinality(T) \in Nat
      BY <3>9, FS_CardinalityType
    <3>11. notes'[k].late + Cardinality(T) <= bound
      BY <2>6, <2>8, <3>1, <3>3, <3>6, <3>8, <3>9, <3>10
    <3>12. QED
      BY <1>1, <2>6, <2>8, <3>2, <3>3, <3>11 DEF LateCounted, T, bound
  <2>9. QED
    BY <2>6, <2>7, <2>8 DEF LateRunsCounted
<1>9. QED
  BY <1>7, <1>8

\* The rows keep what counts when one is marked.
LEMMA MarkCounts ==
    ASSUME TypeInv, TypeInv', LateRunsCounted, scene' = scene,
           NEW r \in Requests, MarkSent(r)
    PROVE  LateRunsCounted'
<1> DEFINE n == Current(r)
<1>1. /\ req[r].do = "markSent" /\ NextRow(r) /\ today' = today /\ today \in Nat
      /\ notes' = [notes EXCEPT ![n].status = IF req[r].kind = "first" THEN "SENT" ELSE @,
                                ![n].sentOn = today]
  BY DEF MarkSent, TypeInv, NotificationTypeOK
<1>2. n \in Rows
  BY <1>1, CurrentType DEF TypeInv
<1>3. \A k \in Rows : Reminding(k)' \subseteq Reminding(k)
  <2>1. PICK v \in {Idle} \cup MailWork :
            /\ Await(r, v)
            /\ v # Idle => /\ v.do = "queueMail" /\ v.kind = req[r].kind
                           /\ v.batch = req[r].batch \ {Current(r)}
    BY <1>1, NextRowWork DEF TypeInv
  <2>2. QED
    BY <1>1, <2>1, RemindersShrink DEF Idle
<1> HIDE DEF n
<1>4. notes \in [Rows -> NoteRow]
  BY DEF TypeInv, NotificationTypeOK, Rows
<1>5. DOMAIN notes' = Rows
  BY <1>1, <1>4
<1>6. Rows' = Rows
  BY <1>5 DEF Rows, TypeInv, NotificationTypeOK
<1>7. \A k \in Rows : /\ notes'[k].stopped = notes[k].stopped
                      /\ notes'[k].late = notes[k].late
                      /\ notes'[k].expiresOn = notes[k].expiresOn
  BY <1>1, <1>2, <1>4 DEF NoteRow
<1>8. today <= today'
  BY <1>1
<1>9. QED
  BY <1>3, <1>6, <1>7, <1>8, KeepsCount

LEMMA StartCounts ==
    ASSUME TypeInv, TypeInv', LateRunsCounted, scene' = scene,
           NEW r \in Requests, ProcessAllPending(r) \/ ProcessReminders(r)
    PROVE  LateRunsCounted'
<1>1. \E w : /\ Await(r, w) /\ w.do = "queueMail"
             /\ w.kind = "reminder" => w.batch = EligibleForReminder
  BY DEF ProcessAllPending, ProcessReminders, StartRun, Run
<1>2. PICK w : /\ Await(r, w) /\ w.do = "queueMail"
               /\ w.kind = "reminder" => w.batch = EligibleForReminder
  BY <1>1
<1>3. /\ notes' = notes /\ today' = today /\ today \in Nat
  BY DEF ProcessAllPending, ProcessReminders, StartRun, MailVars, TypeInv, NotificationTypeOK
<1>4. ASSUME NEW n \in Rows, notes[n].stopped
      PROVE  n \notin EligibleForReminder
  <2>1. notes[n].expiresOn <= today
    BY <1>4 DEF LateRunsCounted, LateCounted
  <2>2. notes[n] \in NoteRow
    BY DEF TypeInv, NotificationTypeOK, Rows
  <2>3. notes[n].expiresOn \in Nat
    BY <2>2 DEF NoteRow
  <2>4. QED
    BY <1>3, <2>1, <2>3 DEF EligibleForReminder
<1>5. today <= today'
  BY <1>3
<1>6. QED
  BY <1>2, <1>3, <1>4, <1>5, RunKeepsCount

LEMMA CallCounts ==
    ASSUME TypeInv, TypeInv', LateRunsCounted, scene' = scene,
           NEW r \in Requests, FailedCall(r)
    PROVE  LateRunsCounted'
<1>1. /\ notes' = notes /\ today' = today /\ today \in Nat
      /\ req[r].do \in {"queueMail", "markSent"} /\ NextRow(r)
  BY DEF FailedCall, TypeInv, NotificationTypeOK
<1>2. PICK v \in {Idle} \cup MailWork :
            /\ Await(r, v)
            /\ v # Idle => /\ v.do = "queueMail" /\ v.kind = req[r].kind
                           /\ v.batch = req[r].batch \ {Current(r)}
  BY <1>1, NextRowWork DEF TypeInv
<1>3. today <= today'
  BY <1>1
<1>4. QED
  BY <1>1, <1>2, <1>3, RunKeepsCount DEF Idle

LEMMA AlertCounts ==
    ASSUME TypeInv, TypeInv', LateRunsCounted, scene' = scene,
           NEW r \in Requests, AlertNext(r)
    PROVE  LateRunsCounted'
<1>1. today' = today /\ today \in Nat
  BY DEF AlertNext, HandleExpiryAlerts, ReadExpiring, CreateAlert, CreateAlertLog, MailVars,
         TypeInv, NotificationTypeOK
<1>2. today <= today'
  BY <1>1
<1>3. CASE CreateAlert(r)
  <2> DEFINE threshold == Head(req[r].thresholds)
  <2>1. PICK s \in req[r].found :
            /\ CreateNotification(AlertMessage(s, threshold))
            /\ \E w : Await(r, w) /\ w.do = "logAlert"
    BY <1>3 DEF CreateAlert, AlertRun
  <2>2. req[r].do = "alert"
    BY <1>3 DEF CreateAlert
  <2>3. AlertMessage(s, threshold) \in Message
    BY <2>2, AlertType, AlertMessageTyped
  <2> HIDE DEF threshold
  <2>4. \A n \in Rows : notes[n].stopped => Reminding(n)' \subseteq Reminding(n)
    BY <2>1, RemindersShrink
  <2>5. QED
    BY <1>1, <2>1, <2>3, <2>4, NewRowCounts
<1>4. CASE ReadExpiring(r)
  <2> DEFINE found == Expiring(req[r].kind, Head(req[r].thresholds))
  <2>1. req[r].do = "readExpiring" /\ NextAlert(r, found) /\ notes' = notes
    BY <1>4 DEF ReadExpiring, MailVars
  <2>2. found \in SUBSET Subject
    BY SceneTyped DEF Expiring, TypeInv
  <2> HIDE DEF found
  <2>3. PICK w \in {Idle} \cup AlertWork :
            Await(r, w) /\ w.do \in {"idle", "readExpiring", "alert"}
    BY <2>1, <2>2, NextAlertWork
  <2>4. QED
    BY <1>2, <2>1, <2>3, RunKeepsCount
<1>5. CASE CreateAlertLog(r)
  <2> DEFINE found == req[r].found[2] \ {req[r].found[1]}
  <2>1. req[r].do = "logAlert" /\ NextAlert(r, found) /\ notes' = notes
    BY <1>5 DEF CreateAlertLog, MailVars
  <2>2. found \in SUBSET Subject
    BY <2>1, AlertType
  <2> HIDE DEF found
  <2>3. PICK w \in {Idle} \cup AlertWork :
            Await(r, w) /\ w.do \in {"idle", "readExpiring", "alert"}
    BY <2>1, <2>2, NextAlertWork
  <2>4. QED
    BY <1>2, <2>1, <2>3, RunKeepsCount
<1>6. ASSUME NEW kind \in DOMAIN Thresholds, HandleExpiryAlerts(r, kind)
      PROVE  LateRunsCounted'
  <2>1. /\ notes' = notes
        /\ \/ req' = req
           \/ Await(r, AlertRun("readExpiring", kind, Thresholds[kind], {}))
    BY <1>6 DEF HandleExpiryAlerts, MailVars
  <2>2. AlertRun("readExpiring", kind, Thresholds[kind], {}).do = "readExpiring"
    BY DEF AlertRun
  <2>3. CASE req' = req
    BY <1>2, <2>1, <2>3, StillKeepsCount
  <2>4. CASE Await(r, AlertRun("readExpiring", kind, Thresholds[kind], {}))
    BY <1>2, <2>1, <2>2, <2>4, RunKeepsCount
  <2>5. QED
    BY <2>1, <2>3, <2>4
<1>7. QED
  BY <1>3, <1>4, <1>5, <1>6 DEF AlertNext

\* A request that no scene lets run never does.
LEMMA StepRuns ==
    ASSUME TypeInv, SceneRuns, [Next]_vars
    PROVE  SceneRuns'
<1>1. scene' = scene
  BY DEF Next, vars
<1>2. ASSUME NEW r \in Requests, req[r] # Idle, \E w : Await(r, w)
      PROVE  SceneRuns'
  BY <1>1, <1>2, OnlyOneMoves DEF SceneRuns
<1>3. ASSUME NEW r \in Requests, r \in scene.requests, \E w : Await(r, w)
      PROVE  SceneRuns'
  BY <1>1, <1>3, OnlyOneMoves DEF SceneRuns
<1>4. ASSUME req' = req \/ req' = [r \in Requests |-> Idle]
      PROVE  SceneRuns'
  BY <1>1, <1>4 DEF SceneRuns
<1>5. CASE UNCHANGED vars \/ Midnight
  BY <1>4, <1>5 DEF vars, Midnight
<1>6. CASE Notify \/ StopActiveReminders \/ SendMail \/ FailedSend \/ Crash
  BY <1>4, <1>6 DEF Notify, StopActiveReminders, SendMail, FailedSend, Crash
<1>7. ASSUME NEW r \in Requests, MailRun(r) \/ FailedCall(r)
      PROVE  SceneRuns'
  <2>1. (r \in scene.requests \/ req[r] # Idle) /\ \E w : Await(r, w)
    BY <1>7 DEF MailRun, FailedCall, ProcessAllPending, ProcessReminders, StartRun, Free,
                QueueMail, MarkSent, NextRow, Idle
  <2>2. QED
    BY <1>2, <1>3, <2>1
<1>8. ASSUME NEW r \in Requests, AlertNext(r)
      PROVE  SceneRuns'
  <2>1. \/ req' = req
        \/ (r \in scene.requests \/ req[r] # Idle) /\ \E w : Await(r, w)
    <3>1. ASSUME NEW kind, HandleExpiryAlerts(r, kind)
          PROVE  req' = req \/ (r \in scene.requests /\ \E w : Await(r, w))
      BY <3>1 DEF HandleExpiryAlerts, Free
    <3>2. ASSUME ReadExpiring(r) \/ CreateAlertLog(r)
          PROVE  req[r] # Idle /\ \E w : Await(r, w)
      BY <3>2 DEF ReadExpiring, CreateAlertLog, NextAlert, Idle
    <3>3. ASSUME CreateAlert(r)
          PROVE  req[r] # Idle /\ \E w : Await(r, w)
      BY <3>3 DEF CreateAlert, Idle
    <3>4. QED
      BY <1>8, <3>1, <3>2, <3>3 DEF AlertNext
  <2>2. QED
    BY <1>2, <1>3, <1>4, <2>1
<1>9. QED
  BY <1>5, <1>6, <1>7, <1>8 DEF Next, MailNext

LEMMA StepCounts ==
    ASSUME TypeInv, LateRunsCounted, SceneRuns, [Next]_vars
    PROVE  LateRunsCounted'
<1>1. TypeInv' /\ scene' = scene /\ today \in Nat
  BY StepTypes DEF Next, vars, TypeInv, NotificationTypeOK
<1>2. ASSUME notes' = notes, today <= today',
             \A r \in Requests : req'[r] = req[r] \/ req'[r].do = "idle"
      PROVE  LateRunsCounted'
  BY <1>1, <1>2, StillKeepsCount
<1>3. CASE UNCHANGED vars
  BY <1>1, <1>2, <1>3 DEF vars
<1>4. CASE Midnight
  <2>1. notes' = notes /\ req' = req /\ today' \in Nat /\ today' > today
    BY <1>1, <1>4 DEF Midnight, TypeInv, NotificationTypeOK
  <2>2. today <= today'
    BY <1>1, <2>1
  <2>3. QED
    BY <1>2, <2>1, <2>2
<1>5. CASE SendMail \/ FailedSend \/ Crash
  <2>1. /\ notes' = notes /\ today' = today
        /\ req' = req \/ req' = [r \in Requests |-> Idle]
    BY <1>5 DEF SendMail, FailedSend, Crash
  <2>2. today <= today'
    BY <1>1, <2>1
  <2>3. QED
    BY <1>2, <2>1, <2>2 DEF Idle
<1>6. CASE Notify
  <2>1. PICK m \in scene.messages : CreateNotification(m)
    BY <1>6 DEF Notify
  <2>2. m \in Message
    BY SceneTyped DEF TypeInv
  <2>3. today' = today /\ req' = req
    BY <1>6 DEF Notify
  <2>4. \A n \in Rows : Reminding(n)' \subseteq Reminding(n)
    BY <1>1, <2>3 DEF Reminding, Current
  <2>5. QED
    BY <1>1, <2>1, <2>2, <2>3, <2>4, NewRowCounts
<1>7. CASE StopActiveReminders
  BY <1>1, <1>7, StopCounts
<1>8. ASSUME NEW r \in Requests, MailRun(r) \/ FailedCall(r)
      PROVE  LateRunsCounted'
  BY <1>1, <1>8, StartCounts, QueueCounts, MarkCounts, CallCounts DEF MailRun
<1>9. ASSUME NEW r \in Requests, AlertNext(r)
      PROVE  LateRunsCounted'
  BY <1>1, <1>9, AlertCounts
<1>10. QED
  BY <1>3, <1>4, <1>5, <1>6, <1>7, <1>8, <1>9 DEF Next, MailNext

\* The inductive invariant: of a row whose reminders were stopped, the
\* reminders queued since and the runs that may yet queue one are together no
\* more than the runs there are (processReminders reads no stopped row).
THEOREM LateRunsAreCounted == Spec => []LateRunsCounted
<1>1. Init => TypeInv /\ LateRunsCounted /\ SceneRuns
  BY InitTypes DEF Init, NotificationInit, LateRunsCounted, SceneRuns, Rows
<1>2. TypeInv /\ LateRunsCounted /\ SceneRuns /\ [Next]_vars
        => (TypeInv /\ LateRunsCounted /\ SceneRuns)'
  BY StepTypes, StepCounts, StepRuns
<1>3. QED
  BY <1>1, <1>2, PTL DEF Spec

\* Reminders stop when the recipient signs (stopActiveReminders): however many
\* runs overlap and whatever fails, each queues at most one after that.
THEOREM RemindersAlwaysStop == Spec => []RemindersStop
<1>1. NotificationTypeOK /\ LateRunsCounted => RemindersStop
  <2> SUFFICES ASSUME NotificationTypeOK, LateRunsCounted, NEW n \in Rows
               PROVE  notes[n].late <= Cardinality(scene.requests)
    BY DEF RemindersStop
  <2>1. notes[n] \in NoteRow
    BY DEF NotificationTypeOK, Rows
  <2>2. notes[n].late \in Nat
    BY <2>1 DEF NoteRow
  <2> DEFINE S == scene.requests
             T == Reminding(n)
  <2>3. IsFiniteSet(S) /\ T \subseteq S
    BY SceneTyped DEF Reminding
  <2> HIDE DEF S, T
  <2>4. IsFiniteSet(T) /\ Cardinality(T) \in Nat /\ Cardinality(S) \in Nat
    BY <2>3, FS_Subset, FS_CardinalityType
  <2>5. notes[n].late = 0 \/ notes[n].late + Cardinality(T) <= Cardinality(S)
    BY DEF LateRunsCounted, LateCounted, S, T
  <2>6. QED
    BY <2>2, <2>4, <2>5 DEF S
<1>2. QED
  BY <1>1, MailTypesSound, LateRunsAreCounted, PTL

-----------------------------------------------------------------------------
(* Once without faults: with one run at a time and no failing call, a row  *)
(* is pending until its first mail is queued and it is marked, and what is *)
(* announced is logged before it is looked for again.                      *)

AtMostOne(S) == \A x, y \in S : x = y

FirstEnds(n) == {o \in outcomes : o.note = n /\ o.kind = "first"}

NoMail(n) == FirstMails(n) = {} /\ FirstEnds(n) = {}

OneMail(n) ==
    /\ AtMostOne(FirstMails(n)) /\ AtMostOne(FirstEnds(n))
    /\ FirstMails(n) = {} \/ FirstEnds(n) = {}

MailWords == {"queueMail", "markSent"}

\* The run of r is between the mail of row n and its mark.
Marking(r, n) == req[r].do = "markSent" /\ req[r].kind = "first" /\ Current(r) = n

MailOnce ==
    /\ \A n \in Rows :
        /\ OneMail(n)
        /\ notes[n].status = "PENDING" /\ (\A r \in scene.requests : ~Marking(r, n)) => NoMail(n)
    /\ \A r \in scene.requests :
        req[r].do \in MailWords /\ req[r].kind = "first" =>
            \A n \in req[r].batch : notes[n].status = "PENDING"

LEMMA NewRowsHaveNoMail ==
    ASSUME TypeInv, NEW n, n \notin Rows
    PROVE  NoMail(n)
<1>1. jobs \in Seq(Job) /\ outcomes \subseteq Outcome
  BY DEF TypeInv, NotificationTypeOK
<1>2. \A i \in 1 .. Len(jobs) : jobs[i] \in Job
  BY <1>1
<1>3. \A job \in Job : job.note \in Rows
  BY DEF Job
<1>4. \A o \in Outcome : o.note \in Rows
  BY DEF Outcome
<1>5. QED
  BY <1>1, <1>2, <1>3, <1>4 DEF NoMail, FirstMails, FirstEnds

LEMMA QueueStands ==
    ASSUME jobs' = jobs, outcomes' = outcomes
    PROVE  \A n : /\ FirstMails(n)' = FirstMails(n) /\ FirstEnds(n)' = FirstEnds(n)
                  /\ OneMail(n)' <=> OneMail(n)
                  /\ NoMail(n)' <=> NoMail(n)
<1>1. \A n : FirstMails(n)' = FirstMails(n) /\ FirstEnds(n)' = FirstEnds(n)
  BY DEF FirstMails, FirstEnds
<1>2. QED
  BY <1>1 DEF OneMail, NoMail, AtMostOne

\* The steps that touch neither the queue, nor the status of a row, nor a run.
LEMMA MailStands ==
    ASSUME TypeInv, MailOnce, RowsKept, scene' = scene, jobs' = jobs, outcomes' = outcomes,
           \A n \in Rows' : n \in Rows => notes'[n].status = notes[n].status,
           \A r \in scene.requests :
                req'[r] = req[r] \/ (req[r].do \notin MailWords /\ req'[r].do \notin MailWords)
    PROVE  MailOnce'
<1>1. \A r \in scene.requests : \A n : Marking(r, n)' <=> Marking(r, n)
  BY DEF Marking, Current, MailWords
<1>2. ASSUME NEW n \in Rows'
      PROVE  /\ OneMail(n)'
             /\ notes'[n].status = "PENDING" /\ (\A r \in scene.requests : ~Marking(r, n)') => NoMail(n)'
  <2>1. CASE n \in Rows
    BY <1>1, <2>1, QueueStands DEF MailOnce
  <2>2. CASE n \notin Rows
    <3>1. NoMail(n)
      BY <2>2, NewRowsHaveNoMail
    <3>2. NoMail(n)' /\ OneMail(n)
      BY <3>1, QueueStands DEF NoMail, OneMail, AtMostOne
    <3>3. QED
      BY <3>2, QueueStands
  <2>3. QED
    BY <2>1, <2>2
<1>3. ASSUME NEW r \in scene.requests, req'[r].do \in MailWords, req'[r].kind = "first",
             NEW n \in req'[r].batch
      PROVE  notes'[n].status = "PENDING"
  <2>1. req'[r] = req[r]
    BY <1>3
  <2>2. notes[n].status = "PENDING"
    BY <1>3, <2>1 DEF MailOnce
  <2>3. r \in Requests /\ n \in Rows
    <3>1. r \in Requests
      BY SceneTyped DEF TypeInv
    <3>2. req[r].do \in {"queueMail", "markSent"}
      BY <1>3, <2>1 DEF MailWords
    <3>3. req[r].batch \subseteq Rows
      BY <3>1, <3>2, CurrentType DEF TypeInv
    <3>4. QED
      BY <1>3, <2>1, <3>1, <3>3
  <2>4. Rows \subseteq Rows'
    BY DEF RowsKept, Rows, TypeInv, NotificationTypeOK
  <2>5. QED
    BY <2>2, <2>3, <2>4
<1>4. QED
  BY <1>2, <1>3 DEF MailOnce

\* The run of the only request.
LEMMA StartOnce ==
    ASSUME TypeInv, MailOnce, scene' = scene, NEW r \in Requests, scene.requests = {r},
           ProcessAllPending(r) \/ ProcessReminders(r)
    PROVE  MailOnce'
<1>1. PICK kind \in Kinds, batch \in {AllPending, EligibleForReminder} :
        StartRun(r, kind, batch) /\ (kind = "first" => batch = AllPending)
  BY DEF ProcessAllPending, ProcessReminders, Kinds
<1>2. /\ req[r] = Idle /\ req'[r] = Run(kind, batch)
      /\ notes' = notes /\ jobs' = jobs /\ outcomes' = outcomes
  BY <1>1, OnlyOneMoves DEF StartRun, Free, MailVars
<1>3. \A n : ~Marking(r, n) /\ ~Marking(r, n)'
  BY <1>2 DEF Marking, Idle, Run
<1>4. Rows' = Rows
  BY <1>2 DEF Rows
<1>5. \A n \in Rows : OneMail(n)' /\ (notes'[n].status = "PENDING" => NoMail(n)')
  BY <1>2, <1>3, QueueStands DEF MailOnce
<1>6. req'[r].kind = "first" => \A n \in req'[r].batch : notes'[n].status = "PENDING"
  <2>1. req'[r].kind = kind /\ req'[r].batch = batch
    BY <1>2 DEF Run
  <2>2. \A n \in AllPending : notes[n].status = "PENDING"
    BY DEF AllPending
  <2>3. QED
    BY <1>1, <1>2, <2>1, <2>2
<1>7. QED
  BY <1>3, <1>4, <1>5, <1>6 DEF MailOnce

LEMMA NextRowOnce ==
    ASSUME TypeInv, NEW r \in Requests, req[r].do \in MailWords, NextRow(r)
    PROVE  /\ req'[r].do # "markSent"
           /\ req'[r].do \in MailWords => /\ req'[r].kind = req[r].kind
                                          /\ req'[r].batch = req[r].batch \ {Current(r)}
<1>1. PICK w \in {Idle} \cup MailWork :
        /\ Await(r, w)
        /\ w # Idle => /\ w.do = "queueMail" /\ w.kind = req[r].kind
                       /\ w.batch = req[r].batch \ {Current(r)}
  BY NextRowWork DEF TypeInv, MailWords
<1>2. req'[r] = w
  BY <1>1, OnlyOneMoves
<1>3. Idle.do = "idle"
  BY DEF Idle
<1>4. QED
  BY <1>1, <1>2, <1>3 DEF MailWords

LEMMA QueueOnce ==
    ASSUME TypeInv, MailOnce, scene' = scene, NEW r \in Requests, scene.requests = {r},
           QueueMail(r)
    PROVE  MailOnce'
<1>0. PICK n : n = Current(r)
  OBVIOUS
<1> DEFINE payload == Payload(notes[n].message)
           w == [req[r] EXCEPT !.do = "markSent"]
           job == [note |-> n, kind |-> req[r].kind, attempts |-> 0]
<1>1. /\ req[r].do = "queueMail" /\ outcomes' = outcomes
      /\ jobs' = IF payload # "mail" THEN jobs ELSE Append(jobs, job)
      /\ IF payload = "throws" THEN NextRow(r) ELSE Await(r, w)
  BY <1>0 DEF QueueMail
<1>2. /\ req[r] \in MailWork /\ req[r].kind \in Kinds /\ req[r].batch \subseteq Rows
      /\ n \in req[r].batch /\ n \in Rows
  BY <1>0, <1>1, CurrentType DEF TypeInv
<1>3. notes \in Seq(NoteRow) /\ jobs \in Seq(Job)
  BY DEF TypeInv, NotificationTypeOK
<1>4. Rows' = Rows /\ \A k \in Rows : notes'[k].status = notes[k].status
  <2>1. CASE notes' = notes
    BY <2>1 DEF Rows
  <2>2. CASE notes' = [notes EXCEPT ![n].late = @ + 1]
    <3>1. notes[n] \in NoteRow
      BY <1>2, <1>3 DEF Rows
    <3>2. [notes[n] EXCEPT !.late = @ + 1].status = notes[n].status
      BY <3>1 DEF NoteRow
    <3>3. Len(notes') = Len(notes) /\ DOMAIN notes = Rows
          /\ \A k \in Rows : notes'[k] = IF k = n THEN [notes[n] EXCEPT !.late = @ + 1] ELSE notes[k]
      BY <1>3, <2>2 DEF Rows
    <3>4. QED
      BY <3>2, <3>3 DEF Rows
  <2>3. QED
    BY <1>0, <2>1, <2>2 DEF QueueMail
<1>5. CASE payload = "throws"
  <2>1. jobs' = jobs /\ NextRow(r)
    BY <1>1, <1>5
  <2>2. /\ req'[r].do # "markSent"
        /\ req'[r].do \in MailWords => /\ req'[r].kind = req[r].kind
                                       /\ req'[r].batch = req[r].batch \ {Current(r)}
    BY <1>1, <2>1, NextRowOnce DEF MailWords
  <2>3. \A k : ~Marking(r, k) /\ ~Marking(r, k)'
    BY <1>1, <2>2 DEF Marking
  <2>4. \A k \in Rows : OneMail(k)' /\ (notes'[k].status = "PENDING" => NoMail(k)')
    BY <1>1, <1>4, <2>1, <2>3, QueueStands DEF MailOnce
  <2>5. req'[r].do \in MailWords /\ req'[r].kind = "first" =>
            \A k \in req'[r].batch : notes'[k].status = "PENDING"
    BY <1>1, <1>2, <1>4, <2>2 DEF MailOnce, MailWords
  <2>6. QED
    BY <1>4, <2>4, <2>5 DEF MailOnce
<1>6. CASE payload # "throws"
  <2>1. w \in MailWork /\ w.do = "markSent" /\ w.kind = req[r].kind /\ w.batch = req[r].batch
    BY <1>2 DEF MailWork
  <2>2. req'[r] = w
    BY <1>1, <1>6, OnlyOneMoves
  <2> HIDE DEF w
  <2>3. \A k : ~Marking(r, k) /\ (Marking(r, k)' <=> req[r].kind = "first" /\ k = n)
    BY <1>0, <1>1, <2>1, <2>2 DEF Marking, Current
  <2>4. \A k \in req[r].batch : req[r].kind = "first" => notes[k].status = "PENDING"
    BY <1>1 DEF MailOnce, MailWords
  <2>5. req'[r].kind = "first" => \A k \in req'[r].batch : notes'[k].status = "PENDING"
    BY <1>2, <1>4, <2>1, <2>2, <2>4
  <2>6. \A k \in Rows : notes[k].status = "PENDING" => NoMail(k)
    BY <2>3 DEF MailOnce
  <2>7. \A k : FirstEnds(k)' = FirstEnds(k)
    BY <1>1 DEF FirstEnds
  <2>8. \A k : k # n \/ req[r].kind # "first" => FirstMails(k)' = FirstMails(k)
    <3>1. CASE payload # "mail"
      BY <1>1, <3>1 DEF FirstMails
    <3>2. CASE payload = "mail"
      <4>1. jobs' = Append(jobs, job)
        BY <1>1, <3>2
      <4>2. Len(jobs') = Len(jobs) + 1 /\ Len(jobs) \in Nat
            /\ jobs'[Len(jobs) + 1].note = n /\ jobs'[Len(jobs) + 1].kind = req[r].kind
            /\ \A i \in 1 .. Len(jobs) : jobs'[i] = jobs[i]
        BY <1>3, <4>1
      <4>3. QED
        BY <4>2 DEF FirstMails
    <3>3. QED
      BY <3>1, <3>2
  <2>9. req[r].kind = "first" => OneMail(n)'
    <3>1. SUFFICES ASSUME req[r].kind = "first"
                   PROVE  OneMail(n)'
      OBVIOUS
    <3>2. NoMail(n)
      BY <1>2, <2>4, <2>6, <3>1
    <3>3. CASE payload # "mail"
      <4>1. NoMail(n)'
        BY <1>1, <3>2, <3>3, QueueStands
      <4>2. QED
        BY <4>1 DEF NoMail, OneMail, AtMostOne
    <3>4. CASE payload = "mail"
      <4>1. jobs' = Append(jobs, job)
        BY <1>1, <3>4
      <4>2. Len(jobs') = Len(jobs) + 1 /\ Len(jobs) \in Nat
            /\ \A i \in 1 .. Len(jobs) : jobs'[i] = jobs[i]
        BY <1>3, <4>1
      <4>3. FirstMails(n)' \subseteq {Len(jobs) + 1}
        BY <3>2, <4>2 DEF FirstMails, NoMail
      <4>4. FirstEnds(n)' = {}
        BY <2>7, <3>2 DEF NoMail
      <4>5. QED
        BY <4>3, <4>4 DEF OneMail, AtMostOne
    <3>5. QED
      BY <3>3, <3>4
  <2>10. ASSUME NEW k \in Rows
         PROVE  /\ OneMail(k)'
                /\ notes'[k].status = "PENDING" /\ ~Marking(r, k)' => NoMail(k)'
    <3>1. CASE k = n /\ req[r].kind = "first"
      BY <2>3, <2>9, <3>1
    <3>2. CASE ~(k = n /\ req[r].kind = "first")
      <4>1. FirstMails(k)' = FirstMails(k) /\ FirstEnds(k)' = FirstEnds(k)
        BY <2>7, <2>8, <3>2
      <4>2. OneMail(k) /\ (notes[k].status = "PENDING" => NoMail(k))
        BY <2>6 DEF MailOnce
      <4>3. QED
        BY <1>4, <4>1, <4>2 DEF OneMail, NoMail, AtMostOne
    <3>3. QED
      BY <3>1, <3>2
  <2>11. QED
    BY <1>4, <2>5, <2>10 DEF MailOnce
<1>7. QED
  BY <1>5, <1>6

LEMMA MarkOnce ==
    ASSUME TypeInv, MailOnce, scene' = scene, NEW r \in Requests, scene.requests = {r},
           MarkSent(r)
    PROVE  MailOnce'
<1> DEFINE n == Current(r)
           row == [notes[n] EXCEPT !.status = IF req[r].kind = "first" THEN "SENT" ELSE @,
                                   !.sentOn = today]
<1>1. /\ req[r].do = "markSent" /\ NextRow(r) /\ jobs' = jobs /\ outcomes' = outcomes
  BY DEF MarkSent
<1>2. req[r].kind \in Kinds /\ req[r].batch \subseteq Rows /\ n \in Rows
  BY <1>1, CurrentType DEF TypeInv
<1>3. notes \in Seq(NoteRow) /\ notes[n] \in NoteRow
  BY <1>2 DEF TypeInv, NotificationTypeOK, Rows
<1>4. notes' = [notes EXCEPT ![n] = row]
  BY DEF MarkSent
<1>5. row.status = IF req[r].kind = "first" THEN "SENT" ELSE notes[n].status
  BY <1>3 DEF NoteRow
<1> HIDE DEF row
<1>6. Rows' = Rows /\ \A k \in Rows : notes'[k] = IF k = n THEN row ELSE notes[k]
  BY <1>3, <1>4 DEF Rows
<1>7. /\ req'[r].do # "markSent"
      /\ req'[r].do \in MailWords => /\ req'[r].kind = req[r].kind
                                     /\ req'[r].batch = req[r].batch \ {n}
  BY <1>1, NextRowOnce DEF MailWords
<1>8. ASSUME NEW k \in Rows
      PROVE  OneMail(k)' /\ (notes'[k].status = "PENDING" => NoMail(k)')
  <2>1. OneMail(k)'
    BY <1>1, QueueStands DEF MailOnce
  <2>2. ASSUME notes'[k].status = "PENDING"
        PROVE  NoMail(k)
    <3>1. notes[k].status = "PENDING" /\ ~(k = n /\ req[r].kind = "first")
      BY <1>5, <1>6, <2>2
    <3>2. ~Marking(r, k)
      BY <3>1 DEF Marking
    <3>3. QED
      BY <3>1, <3>2 DEF MailOnce
  <2>3. QED
    BY <1>1, <2>1, <2>2, QueueStands
<1>9. req'[r].do \in MailWords /\ req'[r].kind = "first" =>
          \A k \in req'[r].batch : notes'[k].status = "PENDING"
  BY <1>1, <1>2, <1>6, <1>7 DEF MailOnce, MailWords
<1>10. QED
  BY <1>6, <1>8, <1>9 DEF MailOnce

LEMMA SendOnce ==
    ASSUME TypeInv, MailOnce, scene' = scene, SendMail
    PROVE  MailOnce'
<1>1. jobs # << >> /\ jobs' = Tail(jobs) /\ req' = req /\ notes' = notes
  BY DEF SendMail
<1>2. jobs \in Seq(Job)
  BY DEF TypeInv, NotificationTypeOK
<1>3. /\ Len(jobs) \in Nat \ {0} /\ Len(jobs') = Len(jobs) - 1 /\ Head(jobs) = jobs[1]
      /\ \A i \in 1 .. Len(jobs') : jobs'[i] = jobs[i + 1]
  BY <1>1, <1>2
<1> DEFINE new == [note |-> Head(jobs).note, kind |-> Head(jobs).kind, result |-> "delivered"]
<1>4. outcomes' = outcomes \cup {new}
  BY DEF SendMail, End
<1>5. ASSUME NEW n \in Rows, OneMail(n)
      PROVE  OneMail(n)' /\ (NoMail(n) => NoMail(n)')
  <2>1. FirstMails(n)' = {i \in 1 .. Len(jobs') : i + 1 \in FirstMails(n)}
    BY <1>3 DEF FirstMails
  <2>2. FirstMails(n) = {} => FirstMails(n)' = {}
    BY <2>1
  <2>3. \A i, j \in FirstMails(n)' : i = j
    <3>1. \A i, j \in FirstMails(n) : i = j
      BY <1>5 DEF OneMail, AtMostOne
    <3>2. \A i \in FirstMails(n)' : i \in Int /\ i + 1 \in FirstMails(n)
      BY <2>1
    <3>3. QED
      BY <3>1, <3>2
  <2>4. CASE new.note = n /\ new.kind = "first"
    <3>1. 1 \in FirstMails(n)
      BY <1>3, <2>4 DEF FirstMails
    <3>2. FirstMails(n)' = {}
      <4>1. \A i \in FirstMails(n) : i = 1
        BY <3>1, <1>5 DEF OneMail, AtMostOne
      <4>2. QED
        BY <2>1, <4>1
    <3>3. FirstEnds(n) = {}
      BY <1>5, <3>1 DEF OneMail
    <3>4. FirstEnds(n)' \subseteq {new}
      BY <1>4, <3>3 DEF FirstEnds
    <3>5. QED
      BY <3>1, <3>2, <3>4 DEF OneMail, NoMail, AtMostOne
  <2>5. CASE ~(new.note = n /\ new.kind = "first")
    <3>1. FirstEnds(n)' = FirstEnds(n)
      BY <1>4, <2>5 DEF FirstEnds
    <3>2. QED
      BY <1>5, <2>2, <2>3, <3>1 DEF OneMail, NoMail, AtMostOne
  <2>6. QED
    BY <2>4, <2>5
<1>6. \A r, n : Marking(r, n)' <=> Marking(r, n)
  BY <1>1 DEF Marking, Current
<1>7. Rows' = Rows
  BY <1>1 DEF Rows
<1>8. QED
  BY <1>1, <1>5, <1>6, <1>7 DEF MailOnce

\* The crons of the alerts write no mail.
LEMMA AlertsWriteNoMail ==
    ASSUME TypeInv, NEW r \in Requests, AlertNext(r)
    PROVE  /\ jobs' = jobs /\ outcomes' = outcomes /\ today' = today
           /\ req[r].do \notin MailWords /\ req'[r].do \notin MailWords
           /\ \A q \in Requests \ {r} : req'[q] = req[q]
           /\ \A n \in Rows' : n \in Rows => notes'[n] = notes[n]
<1>1. jobs' = jobs /\ outcomes' = outcomes /\ today' = today
  BY DEF AlertNext, HandleExpiryAlerts, ReadExpiring, CreateAlert, CreateAlertLog, MailVars
<1>2. CASE CreateAlert(r)
  <2> DEFINE threshold == Head(req[r].thresholds)
  <2>1. PICK s \in req[r].found :
            /\ CreateNotification(AlertMessage(s, threshold))
            /\ \E w : Await(r, w) /\ w.do = "logAlert"
    BY <1>2 DEF CreateAlert, AlertRun
  <2>2. req[r].do = "alert"
    BY <1>2 DEF CreateAlert
  <2>3. AlertMessage(s, threshold) \in Message
    BY <2>2, AlertType, AlertMessageTyped
  <2> HIDE DEF threshold
  <2>4. \A n \in Rows : notes'[n] = notes[n]
    BY <2>1, <2>3, NotificationCreated DEF TypeInv
  <2>5. QED
    BY <1>1, <2>1, <2>2, <2>4, OnlyOneMoves DEF MailWords
<1>3. CASE ReadExpiring(r) \/ CreateAlertLog(r)
  <2>1. /\ req[r].do \in {"readExpiring", "logAlert"} /\ notes' = notes
        /\ \E found \in SUBSET Subject : NextAlert(r, found)
    <3>1. CASE ReadExpiring(r)
      <4>1. Expiring(req[r].kind, Head(req[r].thresholds)) \in SUBSET Subject
        BY SceneTyped DEF Expiring, TypeInv
      <4>2. QED
        BY <3>1, <4>1 DEF ReadExpiring, MailVars
    <3>2. CASE CreateAlertLog(r)
      <4>1. req[r].found[2] \ {req[r].found[1]} \in SUBSET Subject
        BY <3>2, AlertType DEF CreateAlertLog
      <4>2. QED
        BY <3>2, <4>1 DEF CreateAlertLog, MailVars
    <3>3. QED
      BY <1>3, <3>1, <3>2
  <2>2. PICK found \in SUBSET Subject : NextAlert(r, found)
    BY <2>1
  <2>3. PICK w \in {Idle} \cup AlertWork :
            Await(r, w) /\ w.do \in {"idle", "readExpiring", "alert"}
    BY <2>1, <2>2, NextAlertWork
  <2>4. QED
    BY <1>1, <2>1, <2>3, OnlyOneMoves DEF MailWords
<1>4. ASSUME NEW kind \in DOMAIN Thresholds, HandleExpiryAlerts(r, kind)
      PROVE  /\ req[r].do \notin MailWords /\ req'[r].do \notin MailWords
             /\ \A q \in Requests \ {r} : req'[q] = req[q]
             /\ notes' = notes
  <2>1. /\ req[r] = Idle /\ notes' = notes
        /\ req' = req \/ \E w : Await(r, w) /\ w.do = "readExpiring"
    BY <1>4 DEF HandleExpiryAlerts, Free, MailVars, AlertRun
  <2>2. QED
    BY <2>1, OnlyOneMoves DEF MailWords, Idle
<1>5. QED
  BY <1>1, <1>2, <1>3, <1>4 DEF AlertNext

LEMMA MailStepOnce ==
    ASSUME TypeInv, MailOnce, SceneRuns, [Next]_vars, faults = 0, faults' = 0,
           NEW r \in Requests, scene.requests = {r}
    PROVE  MailOnce'
<1>1. RowsKept /\ scene' = scene
  BY StepTypes DEF Next, vars
<1>2. CASE UNCHANGED vars \/ Midnight
  <2>1. notes' = notes /\ jobs' = jobs /\ outcomes' = outcomes /\ req' = req
    BY <1>2 DEF vars, Midnight
  <2>2. QED
    BY <1>1, <2>1, MailStands
<1>3. CASE Notify
  <2>1. PICK m \in scene.messages : CreateNotification(m)
    BY <1>3 DEF Notify
  <2>2. m \in Message
    BY SceneTyped DEF TypeInv
  <2>3. \A n \in Rows : notes'[n] = notes[n]
    BY <2>1, <2>2, NotificationCreated DEF TypeInv
  <2>4. jobs' = jobs /\ outcomes' = outcomes /\ req' = req
    BY <1>3 DEF Notify
  <2>5. QED
    BY <1>1, <2>3, <2>4, MailStands
<1>4. CASE StopActiveReminders
  <2>1. PICK mine \in SUBSET Rows :
            notes' = [k \in Rows |-> IF k \notin mine THEN notes[k]
                        ELSE [notes[k] EXCEPT !.expiresOn = today, !.stopped = TRUE]]
    BY <1>4 DEF StopActiveReminders
  <2>2. \A k \in Rows : notes[k] \in NoteRow
    BY DEF TypeInv, NotificationTypeOK, Rows
  <2>3. \A k \in Rows : notes'[k].status = notes[k].status
    BY <2>1, <2>2 DEF NoteRow
  <2>4. jobs' = jobs /\ outcomes' = outcomes /\ req' = req
    BY <1>4 DEF StopActiveReminders
  <2>5. QED
    BY <1>1, <2>3, <2>4, MailStands
<1>5. CASE SendMail
  BY <1>1, <1>5, SendOnce
<1>6. ~(FailedSend \/ Crash \/ \E q \in Requests : FailedCall(q))
  BY DEF FailedSend, Crash, FailedCall, Fault
<1>7. ASSUME NEW q \in Requests, MailRun(q)
      PROVE  MailOnce'
  <2>1. q \in scene.requests \/ req[q] # Idle
    BY <1>7 DEF MailRun, ProcessAllPending, ProcessReminders, StartRun, Free, QueueMail, MarkSent,
                Idle
  <2>2. q = r
    BY <2>1 DEF SceneRuns
  <2>3. QED
    BY <1>1, <1>7, <2>2, StartOnce, QueueOnce, MarkOnce DEF MailRun
<1>8. ASSUME NEW q \in Requests, AlertNext(q)
      PROVE  MailOnce'
  BY <1>1, <1>8, AlertsWriteNoMail, MailStands
<1>9. QED
  BY <1>2, <1>3, <1>4, <1>5, <1>6, <1>7, <1>8 DEF Next, MailNext

-----------------------------------------------------------------------------
(* The alerts: as many rows as years that are logged, or about to be.      *)

Logged(s, t) == {y \in {0, 1} : [subject |-> s, threshold |-> t, year |-> y] \in logs}

Logging(s, t) ==
    \E r \in scene.requests : /\ req[r].do = "logAlert"
                              /\ req[r].found[1] = s /\ Head(req[r].thresholds) = t

Announced(s, t) == Logged(s, t) \cup IF Logging(s, t) THEN {LogYear(s.kind)} ELSE {}

\* What a run is about to announce, or is announcing, is not logged.
Unlogged(r, s) == s \in scene.expiring /\ LogRow(s, Head(req[r].thresholds)) \notin logs

FoundUnlogged(r) ==
    /\ req[r].do = "alert" => \A s \in req[r].found : Unlogged(r, s)
    /\ req[r].do = "logAlert" => \A s \in req[r].found[2] \cup {req[r].found[1]} : Unlogged(r, s)

AlertsCounted ==
    \A s \in scene.expiring, t \in Nat :
        Cardinality(AlertsOf(s, t)) <= Cardinality(Announced(s, t))

YearsLogged ==
    \A row \in logs : row.year = 1 => row.subject.kind = "contract" /\ today >= scene.newYear

AlertOnce == AlertsCounted /\ YearsLogged /\ \A r \in scene.requests : FoundUnlogged(r)

LEMMA AlertsAreRows ==
    ASSUME TypeInv
    PROVE  \A s, t : IsFiniteSet(AlertsOf(s, t)) /\ Cardinality(AlertsOf(s, t)) \in Nat
<1>1. Len(notes) \in Nat
  BY DEF TypeInv, NotificationTypeOK
<1>2. IsFiniteSet(Rows)
  BY <1>1, FS_Interval DEF Rows
<1>3. \A s, t : AlertsOf(s, t) \subseteq Rows
  BY DEF AlertsOf
<1>4. QED
  BY <1>2, <1>3, FS_Subset, FS_CardinalityType

LEMMA YearsAreTwo ==
    \A S \in SUBSET {0, 1} : /\ IsFiniteSet(S) /\ Cardinality(S) \in Nat /\ Cardinality(S) <= 2
                             /\ 1 \notin S => Cardinality(S) <= 1
<1>1. IsFiniteSet({0}) /\ Cardinality({0}) = 1
  BY FS_Singleton
<1>2. IsFiniteSet({0, 1}) /\ Cardinality({0, 1}) = 2
  <2>1. {0, 1} = {0} \cup {1}
    OBVIOUS
  <2>2. QED
    BY <1>1, <2>1, FS_AddElement
<1>3. ASSUME NEW S \in SUBSET {0, 1}
      PROVE  IsFiniteSet(S) /\ Cardinality(S) \in Nat /\ Cardinality(S) <= 2
  BY <1>2, FS_Subset, FS_CardinalityType
<1>4. ASSUME NEW S \in SUBSET {0, 1}, 1 \notin S
      PROVE  Cardinality(S) <= 1
  <2>1. S \in SUBSET {0}
    BY <1>4
  <2>2. QED
    BY <1>1, <2>1, FS_Subset
<1>5. QED
  BY <1>3, <1>4

LEMMA AnnouncedInYears ==
    \A s, t : Logged(s, t) \in SUBSET {0, 1} /\ Announced(s, t) \in SUBSET {0, 1}
BY DEF Logged, Announced, LogYear

\* The rows of an alert are the same when those that are added are no alerts.
LEMMA SameAlerts ==
    ASSUME TypeInv, TypeInv', RowsKept,
           \A n \in Rows' : n \in Rows \/ notes'[n].message.threshold \notin Nat
    PROVE  \A s : \A t \in Nat : AlertsOf(s, t)' = AlertsOf(s, t)
<1>1. Rows \subseteq Rows'
  BY DEF RowsKept, Rows, TypeInv, NotificationTypeOK
<1>2. QED
  BY <1>1 DEF RowsKept, AlertsOf

AlertWords == {"alert", "logAlert"}

\* The steps of no alert.
LEMMA AlertsStand ==
    ASSUME TypeInv, AlertOnce, scene' = scene, logs' = logs, today' \in Nat, today' >= today,
           \A s : \A t \in Nat : AlertsOf(s, t)' = AlertsOf(s, t),
           \A r \in scene.requests :
                \/ req'[r] = req[r] /\ (req[r].do \in AlertWords => today' = today)
                \/ req[r].do \notin AlertWords /\ req'[r].do \notin AlertWords
    PROVE  AlertOnce'
<1>1. \A s, t : Logged(s, t)' = Logged(s, t)
  BY DEF Logged
<1>2. \A s, t : Logging(s, t)' <=> Logging(s, t)
  BY DEF Logging, AlertWords
<1>3. \A s, t : Logging(s, t) => today' = today
  BY DEF Logging, AlertWords
<1>4. ASSUME NEW s, NEW t
      PROVE  Announced(s, t)' = Announced(s, t)
  BY <1>1, <1>2, <1>3 DEF Announced, LogYear
<1>5. AlertsCounted'
  BY <1>4 DEF AlertOnce, AlertsCounted
<1>6. YearsLogged'
  <2>1. today \in Nat /\ scene.newYear \in Nat
    BY ScenesAssumption DEF TypeInv, NotificationTypeOK
  <2>2. QED
    BY <2>1 DEF AlertOnce, YearsLogged
<1>7. ASSUME NEW r \in scene.requests
      PROVE  FoundUnlogged(r)'
  <2>1. CASE req'[r].do \notin AlertWords
    BY <2>1 DEF FoundUnlogged, AlertWords
  <2>2. CASE req'[r] = req[r] /\ today' = today
    <3>1. FoundUnlogged(r)
      BY DEF AlertOnce
    <3>2. \A s : Unlogged(r, s)' <=> Unlogged(r, s)
      BY <2>2 DEF Unlogged, LogRow, LogYear
    <3>3. QED
      BY <2>2, <3>1, <3>2 DEF FoundUnlogged
  <2>3. QED
    BY <2>1, <2>2
<1>8. QED
  BY <1>5, <1>6, <1>7 DEF AlertOnce

\* What follows the rows that were found: the first of them, the next threshold
\* or nothing.
LEMMA NextAlertFound ==
    ASSUME TypeInv, NEW r \in Requests, req[r].do \in {"readExpiring", "logAlert"},
           NEW found \in SUBSET Subject, NextAlert(r, found)
    PROVE  /\ req'[r].do # "logAlert"
           /\ req'[r].do = "alert" => /\ req'[r].found = found
                                      /\ req'[r].thresholds = req[r].thresholds
<1> DEFINE work == req[r]
           w == IF found # {} THEN AlertRun("alert", work.kind, work.thresholds, found)
                ELSE IF Tail(work.thresholds) = << >> THEN Idle
                ELSE AlertRun("readExpiring", work.kind, Tail(work.thresholds), {})
<1>1. Await(r, w)
  BY DEF NextAlert
<1>2. req'[r] = w
  BY <1>1, OnlyOneMoves
<1>3. QED
  BY <1>2 DEF AlertRun, Idle

LEMMA ReadOnce ==
    ASSUME TypeInv, AlertOnce, scene' = scene, NEW r \in Requests, scene.requests = {r},
           ReadExpiring(r)
    PROVE  AlertOnce'
<1> DEFINE threshold == Head(req[r].thresholds)
           found == Expiring(req[r].kind, threshold)
<1>1. /\ req[r].do = "readExpiring" /\ NextAlert(r, found)
      /\ notes' = notes /\ today' = today /\ logs' = logs
  BY DEF ReadExpiring, MailVars
<1>2. found \in SUBSET Subject
  BY SceneTyped DEF Expiring, TypeInv
<1>3. \A s \in found : s \in scene.expiring /\ LogRow(s, threshold) \notin logs
  BY DEF Expiring
<1> HIDE DEF found
<1>4. /\ req'[r].do # "logAlert"
      /\ req'[r].do = "alert" => /\ req'[r].found = found
                                 /\ req'[r].thresholds = req[r].thresholds
  BY <1>1, <1>2, NextAlertFound
<1>5. \A s, t : ~Logging(s, t) /\ ~Logging(s, t)'
  BY <1>1, <1>4 DEF Logging
<1>6. \A s, t : AlertsOf(s, t)' = AlertsOf(s, t) /\ Logged(s, t)' = Logged(s, t)
  BY <1>1 DEF AlertsOf, Rows, Logged
<1>7. AlertsCounted'
  BY <1>5, <1>6 DEF AlertOnce, AlertsCounted, Announced
<1>8. YearsLogged'
  BY <1>1 DEF AlertOnce, YearsLogged
<1>9. FoundUnlogged(r)'
  <2>1. \A s, t : LogRow(s, t)' = LogRow(s, t)
    BY <1>1 DEF LogRow, LogYear
  <2>2. ASSUME req'[r].do = "alert", NEW s \in found
        PROVE  Unlogged(r, s)'
    BY <1>1, <1>3, <1>4, <2>1, <2>2 DEF Unlogged
  <2>3. QED
    BY <1>4, <2>2 DEF FoundUnlogged
<1>10. QED
  BY <1>7, <1>8, <1>9 DEF AlertOnce

\* Its alert is created: one more row of the subject, and one more year.
LEMMA CreateOnce ==
    ASSUME TypeInv, AlertOnce, scene' = scene, NEW r \in Requests, scene.requests = {r},
           CreateAlert(r)
    PROVE  AlertOnce'
<1>1. req[r].do = "alert" /\ logs' = logs /\ today' = today
  BY DEF CreateAlert
<1>2. PICK threshold : threshold = Head(req[r].thresholds)
  OBVIOUS
<1>3. PICK s \in req[r].found :
        /\ CreateNotification(AlertMessage(s, threshold))
        /\ Await(r, [AlertRun("logAlert", req[r].kind, req[r].thresholds, req[r].found)
                        EXCEPT !.found = << s, @ >>])
  BY <1>2 DEF CreateAlert
<1>4. /\ req'[r].do = "logAlert" /\ req'[r].found = << s, req[r].found >>
      /\ req'[r].thresholds = req[r].thresholds
  BY <1>3, OnlyOneMoves DEF AlertRun
<1>5. threshold \in Nat /\ s \in Subject
  BY <1>1, <1>2, <1>3, AlertType
<1>6. \A x \in req[r].found : x \in scene.expiring /\ LogRow(x, threshold) \notin logs
  BY <1>1, <1>2 DEF AlertOnce, FoundUnlogged, Unlogged
<1> DEFINE m == AlertMessage(s, threshold)
<1>7. m \in Message /\ m.resource = s.name /\ m.threshold = threshold
  BY <1>1, <1>5, AlertMessageTyped, AlertType
<1> HIDE DEF m
<1>8. PICK n : n = Len(notes) + 1
  OBVIOUS
<1>9. /\ Rows' = Rows \cup {n} /\ n \notin Rows
      /\ \A k \in Rows : notes'[k] = notes[k]
      /\ notes'[n].message = m
  <2>1. /\ Len(notes') = Len(notes) + 1 /\ notes'[Len(notes')] = Note(m)
        /\ \A k \in Rows : notes'[k] = notes[k]
    BY <1>3, <1>7, NotificationCreated DEF TypeInv, m
  <2>2. Note(m).message = m
    BY DEF Note
  <2>3. Len(notes) \in Nat
    BY DEF TypeInv, NotificationTypeOK
  <2>4. QED
    BY <1>8, <2>1, <2>2, <2>3 DEF Rows
<1>10. \A x \in scene.expiring : x.name = s.name => x = s
  BY <1>3, <1>6, ScenesAssumption DEF TypeInv, NotificationTypeOK
<1>11. \A x, t : ~Logging(x, t) /\ (Logging(x, t)' <=> x = s /\ t = threshold)
  BY <1>1, <1>2, <1>4 DEF Logging
<1>12. \A x, t : Logged(x, t)' = Logged(x, t)
  BY <1>1 DEF Logged
<1>13. ASSUME NEW x \in scene.expiring, NEW t \in Nat
       PROVE  Cardinality(AlertsOf(x, t)') <= Cardinality(Announced(x, t)')
  <2>1. Cardinality(AlertsOf(x, t)) <= Cardinality(Announced(x, t)) /\ Announced(x, t) = Logged(x, t)
    BY <1>11 DEF AlertOnce, AlertsCounted, Announced
  <2>2. CASE x = s /\ t = threshold
    <3>1. AlertsOf(x, t)' = AlertsOf(x, t) \cup {n} /\ n \notin AlertsOf(x, t)
      BY <1>7, <1>9, <2>2 DEF AlertsOf
    <3>2. Announced(x, t)' = Logged(x, t) \cup {LogYear(x.kind)}
      BY <1>1, <1>11, <1>12, <2>2 DEF Announced, LogYear
    <3>3. LogYear(x.kind) \notin Logged(x, t)
      BY <1>3, <1>6, <2>2 DEF Logged, LogRow
    <3>4. Cardinality(AlertsOf(x, t)') = Cardinality(AlertsOf(x, t)) + 1
      BY <3>1, AlertsAreRows, FS_AddElement
    <3>5. IsFiniteSet(Logged(x, t)) /\ Cardinality(Logged(x, t)) \in Nat
      BY AnnouncedInYears, YearsAreTwo
    <3>6. Cardinality(Announced(x, t)') = Cardinality(Logged(x, t)) + 1
      BY <3>2, <3>3, <3>5, FS_AddElement
    <3>7. Cardinality(AlertsOf(x, t)) \in Nat
      BY AlertsAreRows
    <3>8. QED
      BY <2>1, <3>4, <3>5, <3>6, <3>7
  <2>3. CASE ~(x = s /\ t = threshold)
    <3>1. AlertsOf(x, t)' = AlertsOf(x, t)
      BY <1>7, <1>9, <1>10, <2>3 DEF AlertsOf
    <3>2. Announced(x, t)' = Logged(x, t)
      BY <1>11, <1>12, <2>3 DEF Announced
    <3>3. QED
      BY <2>1, <3>1, <3>2
  <2>4. QED
    BY <2>2, <2>3
<1>14. YearsLogged'
  BY <1>1 DEF AlertOnce, YearsLogged
<1>15. FoundUnlogged(r)'
  <2>1. \A x : LogRow(x, threshold)' = LogRow(x, threshold)
    BY <1>1 DEF LogRow, LogYear
  <2>2. \A x \in req[r].found : Unlogged(r, x)'
    BY <1>1, <1>2, <1>4, <1>6, <2>1 DEF Unlogged
  <2>3. req'[r].found[2] \cup {req'[r].found[1]} = req[r].found
    BY <1>3, <1>4
  <2>4. QED
    BY <1>4, <2>2, <2>3 DEF FoundUnlogged
<1>16. QED
  BY <1>13, <1>14, <1>15 DEF AlertOnce, AlertsCounted

\* It is logged: the year was announced already.
LEMMA LogOnce ==
    ASSUME TypeInv, AlertOnce, scene' = scene, NEW r \in Requests, scene.requests = {r},
           CreateAlertLog(r)
    PROVE  AlertOnce'
<1>1. PICK s : s = req[r].found[1]
  OBVIOUS
<1>2. PICK threshold : threshold = Head(req[r].thresholds)
  OBVIOUS
<1>3. PICK found : found = req[r].found[2] \ {s}
  OBVIOUS
<1>4. /\ req[r].do = "logAlert" /\ NextAlert(r, found)
      /\ notes' = notes /\ today' = today
      /\ logs' = logs \cup {LogRow(s, threshold)}
  BY <1>1, <1>2, <1>3 DEF CreateAlertLog, MailVars
<1>5. found \in SUBSET Subject
  BY <1>3, <1>4, AlertType
<1>6. /\ req'[r].do # "logAlert"
      /\ req'[r].do = "alert" => /\ req'[r].found = found
                                 /\ req'[r].thresholds = req[r].thresholds
  BY <1>4, <1>5, NextAlertFound
<1>7. \A x \in found \cup {s} : x \in scene.expiring /\ LogRow(x, threshold) \notin logs
  BY <1>1, <1>2, <1>3, <1>4 DEF AlertOnce, FoundUnlogged, Unlogged
<1>8. \A x, t : ~Logging(x, t)' /\ (Logging(x, t) <=> x = s /\ t = threshold)
  BY <1>1, <1>2, <1>4, <1>6 DEF Logging
<1>9. ASSUME NEW x, NEW t
      PROVE  Announced(x, t)' = Announced(x, t)
  <2>1. Announced(x, t)' = Logged(x, t)'
    BY <1>8 DEF Announced
  <2>2. CASE x = s /\ t = threshold
    <3>1. Logged(x, t)' = Logged(x, t) \cup {LogYear(s.kind)}
      BY <1>4, <2>2 DEF Logged, LogRow, LogYear
    <3>2. QED
      BY <1>8, <2>1, <2>2, <3>1 DEF Announced
  <2>3. CASE ~(x = s /\ t = threshold)
    <3>1. Logged(x, t)' = Logged(x, t)
      BY <1>4, <2>3 DEF Logged, LogRow
    <3>2. QED
      BY <1>8, <2>1, <2>3, <3>1 DEF Announced
  <2>4. QED
    BY <2>2, <2>3
<1>10. AlertsCounted'
  <2>1. \A x, t : AlertsOf(x, t)' = AlertsOf(x, t)
    BY <1>4 DEF AlertsOf, Rows
  <2>2. QED
    BY <1>9, <2>1 DEF AlertOnce, AlertsCounted
<1>11. YearsLogged'
  <2>1. /\ LogRow(s, threshold).subject = s
        /\ LogRow(s, threshold).year = 1 => s.kind # "document" /\ ~(today < scene.newYear)
    BY DEF LogRow, LogYear
  <2>2. today \in Nat /\ scene.newYear \in Nat /\ s.kind \in {"document", "contract"}
    <3>1. s \in Subject
      BY <1>1, <1>4, AlertType
    <3>2. QED
      BY <3>1, ScenesAssumption, ThresholdsListed DEF TypeInv, NotificationTypeOK, Subject
  <2>3. QED
    BY <1>4, <2>1, <2>2 DEF AlertOnce, YearsLogged
<1>12. FoundUnlogged(r)'
  <2>1. ASSUME NEW x \in found, req'[r].do = "alert"
        PROVE  Unlogged(r, x)'
    <3>1. x # s
      BY <1>3
    <3>2. LogRow(x, threshold) # LogRow(s, threshold)
      BY <3>1 DEF LogRow
    <3>3. LogRow(x, threshold)' = LogRow(x, threshold)
      BY <1>4 DEF LogRow, LogYear
    <3>4. Head(req'[r].thresholds) = threshold
      BY <1>2, <1>6, <2>1
    <3>5. QED
      BY <1>4, <1>7, <3>2, <3>3, <3>4 DEF Unlogged, LogRow
  <2>2. QED
    BY <1>6, <2>1 DEF FoundUnlogged
<1>13. QED
  BY <1>10, <1>11, <1>12 DEF AlertOnce

LEMMA AlertStepOnce ==
    ASSUME TypeInv, AlertOnce, SceneRuns, [Next]_vars, faults = 0, faults' = 0,
           NEW r \in Requests, scene.requests = {r}
    PROVE  AlertOnce'
<1>1. RowsKept /\ TypeInv' /\ scene' = scene /\ today \in Nat /\ today' \in Nat
  BY StepTypes DEF Next, vars, TypeInv, NotificationTypeOK
<1>2. ASSUME logs' = logs, today' >= today,
             \A n \in Rows' : n \in Rows \/ notes'[n].message.threshold \notin Nat,
             \A q \in scene.requests :
                \/ req'[q] = req[q] /\ (req[q].do \in AlertWords => today' = today)
                \/ req[q].do \notin AlertWords /\ req'[q].do \notin AlertWords
      PROVE  AlertOnce'
  <2>1. \A s : \A t \in Nat : AlertsOf(s, t)' = AlertsOf(s, t)
    BY <1>1, <1>2, SameAlerts
  <2>2. QED
    BY <1>1, <1>2, <2>1, AlertsStand
<1>3. CASE UNCHANGED vars
  <2>1. logs' = logs /\ today' = today /\ req' = req /\ Rows' = Rows
    BY <1>3 DEF vars, Rows
  <2>2. QED
    BY <1>1, <1>2, <2>1
<1>4. CASE Midnight
  <2>1. logs' = logs /\ today' > today /\ req' = req /\ Rows' = Rows
        /\ \A q \in Requests : req[q] = Idle
    BY <1>4 DEF Midnight, Rows
  <2>2. r \in Requests /\ req[r].do \notin AlertWords /\ req'[r].do \notin AlertWords
    BY <2>1 DEF Idle, AlertWords
  <2>3. QED
    BY <1>1, <1>2, <2>1, <2>2
<1>5. CASE MailNext /\ UNCHANGED << logs, ran >>
  <2>1. today' = today
    BY <1>5 DEF MailNext, Notify, StopActiveReminders, SendMail, FailedSend, Crash, MailRun,
                ProcessAllPending, ProcessReminders, StartRun, MailVars, QueueMail, MarkSent,
                FailedCall
  <2>2. \A n \in Rows' : n \in Rows \/ notes'[n].message.threshold \notin Nat
    <3>1. CASE Len(notes') = Len(notes)
      BY <3>1 DEF Rows
    <3>2. CASE Notify
      <4>1. PICK m \in scene.messages : CreateNotification(m)
        BY <3>2 DEF Notify
      <4>2. m \in Message /\ m.threshold \notin Nat
        BY <4>1, SceneTyped, ScenesAssumption DEF TypeInv, NotificationTypeOK
      <4>3. Len(notes') = Len(notes) + 1 /\ notes'[Len(notes')] = Note(m)
        BY <4>1, <4>2, NotificationCreated DEF TypeInv
      <4>4. Note(m).message = m
        BY DEF Note
      <4>5. Len(notes) \in Nat
        BY DEF TypeInv, NotificationTypeOK
      <4>6. QED
        BY <4>2, <4>3, <4>4, <4>5 DEF Rows
    <3>3. CASE StopActiveReminders
      <4>1. DOMAIN notes' = Rows
        BY <3>3 DEF StopActiveReminders
      <4>2. QED
        BY <1>1, <3>1, <4>1 DEF TypeInv, NotificationTypeOK, Rows
    <3>4. ASSUME NEW q \in Requests, MailRun(q) \/ FailedCall(q)
          PROVE  Len(notes') = Len(notes)
      <4>1. CASE QueueMail(q)
        <5>1. DOMAIN notes' = DOMAIN notes
          BY <4>1 DEF QueueMail
        <5>2. QED
          BY <1>1, <5>1 DEF TypeInv, NotificationTypeOK
      <4>2. CASE MarkSent(q)
        <5>1. DOMAIN notes' = DOMAIN notes
          BY <4>2 DEF MarkSent
        <5>2. QED
          BY <1>1, <5>1 DEF TypeInv, NotificationTypeOK
      <4>3. QED
        BY <3>4, <4>1, <4>2 DEF MailRun, ProcessAllPending, ProcessReminders, StartRun, MailVars,
                                FailedCall
    <3>5. CASE SendMail \/ FailedSend \/ Crash
      BY <3>1, <3>5 DEF SendMail, FailedSend, Crash
    <3>6. QED
      BY <1>5, <3>1, <3>2, <3>3, <3>4, <3>5 DEF MailNext
  <2>3. ASSUME NEW q \in Requests, MailRun(q)
        PROVE  req[q].do \notin AlertWords /\ req'[q].do \notin AlertWords
    <3>1. CASE ProcessAllPending(q) \/ ProcessReminders(q)
      BY <3>1, OnlyOneMoves DEF ProcessAllPending, ProcessReminders, StartRun, Free, Run, Idle,
                                AlertWords
    <3>2. CASE (QueueMail(q) \/ MarkSent(q)) /\ NextRow(q)
      <4>1. req[q].do \in {"queueMail", "markSent"}
        BY <3>2 DEF QueueMail, MarkSent
      <4>2. PICK w \in {Idle} \cup MailWork : Await(q, w)
        BY <3>2, <4>1, NextRowWork DEF TypeInv
      <4>3. QED
        BY <4>1, <4>2, OnlyOneMoves DEF Idle, MailWork, AlertWords
    <3>3. CASE QueueMail(q) /\ ~NextRow(q)
      <4>1. /\ req[q].do = "queueMail"
            /\ Await(q, [req[q] EXCEPT !.do = "markSent"])
        BY <3>3 DEF QueueMail
      <4>2. req[q] \in MailWork
        BY <4>1, CurrentType DEF TypeInv
      <4>3. [req[q] EXCEPT !.do = "markSent"].do = "markSent"
        BY <4>2 DEF MailWork
      <4>4. QED
        BY <4>1, <4>3, OnlyOneMoves DEF AlertWords
    <3>4. QED
      BY <2>3, <3>1, <3>2, <3>3 DEF MailRun, MarkSent
  <2>4. ~(FailedSend \/ Crash \/ \E q \in Requests : FailedCall(q))
    BY DEF FailedSend, Crash, FailedCall, Fault
  <2>5. CASE Notify \/ StopActiveReminders \/ SendMail
    <3>1. req' = req /\ logs' = logs
      BY <1>5, <2>5 DEF Notify, StopActiveReminders, SendMail
    <3>2. QED
      BY <1>1, <1>2, <2>1, <2>2, <3>1
  <2>6. ASSUME NEW q \in Requests, MailRun(q)
        PROVE  AlertOnce'
    <3>1. q \in scene.requests \/ req[q] # Idle
      BY <2>6 DEF MailRun, ProcessAllPending, ProcessReminders, StartRun, Free, QueueMail,
                  MarkSent, Idle
    <3>2. q = r
      BY <3>1 DEF SceneRuns
    <3>3. QED
      BY <1>1, <1>2, <1>5, <2>1, <2>2, <2>3, <2>6, <3>2
  <2>7. QED
    BY <1>5, <2>4, <2>5, <2>6 DEF MailNext
<1>6. ASSUME NEW q \in Requests, AlertNext(q)
      PROVE  AlertOnce'
  <2>1. q \in scene.requests \/ req[q] # Idle
    BY <1>6 DEF AlertNext, HandleExpiryAlerts, Free, ReadExpiring, CreateAlert, CreateAlertLog, Idle
  <2>2. q = r
    BY <2>1 DEF SceneRuns
  <2>3. CASE \E kind \in DOMAIN Thresholds : HandleExpiryAlerts(r, kind)
    <3>1. PICK kind \in DOMAIN Thresholds : HandleExpiryAlerts(r, kind)
      BY <2>3
    <3>2. /\ logs' = logs /\ today' = today /\ notes' = notes /\ req[r] = Idle
          /\ req' = req \/ \E w : Await(r, w) /\ w.do = "readExpiring"
      BY <3>1 DEF HandleExpiryAlerts, Free, MailVars, AlertRun
    <3>3. req[r].do \notin AlertWords /\ req'[r].do \notin AlertWords
      BY <3>2, OnlyOneMoves DEF Idle, AlertWords
    <3>4. Rows' = Rows
      BY <3>2 DEF Rows
    <3>5. QED
      BY <1>1, <1>2, <3>2, <3>3, <3>4
  <2>4. QED
    BY <1>1, <1>6, <2>2, <2>3, ReadOnce, CreateOnce, LogOnce DEF AlertNext
<1>7. QED
  BY <1>3, <1>4, <1>5, <1>6 DEF Next

-----------------------------------------------------------------------------
\* Alone, a run leaves a row pending until its first mail is queued and marks it
\* before it goes on, and announces only what is not logged.
AloneOnce == Alone => MailOnce /\ AlertOnce

LEMMA OneAlone ==
    ASSUME TypeInv, Alone
    PROVE  \E r \in Requests : scene.requests = {r}
<1>1. PICK r : scene.requests = {r}
  BY SceneTyped, FS_Singleton DEF TypeInv, Alone
<1>2. QED
  BY <1>1, SceneTyped DEF TypeInv

LEMMA StepOnce ==
    ASSUME TypeInv, AloneOnce, SceneRuns, [Next]_vars
    PROVE  AloneOnce'
<1>1. scene' = scene /\ faults \in Nat
  BY DEF Next, vars, TypeInv, NotificationTypeOK
<1>2. faults' = faults \/ faults' = faults + 1
  BY DEF Next, vars, MailNext, Notify, StopActiveReminders, SendMail, FailedSend, Crash, MailRun,
         ProcessAllPending, ProcessReminders, StartRun, MailVars, QueueMail, MarkSent, FailedCall,
         Fault, Midnight, AlertNext, HandleExpiryAlerts, ReadExpiring, CreateAlert, CreateAlertLog
<1>3. Alone' => Alone /\ faults = 0 /\ faults' = 0
  BY <1>1, <1>2 DEF Alone
<1>4. ASSUME Alone'
      PROVE  (MailOnce /\ AlertOnce)'
  <2>1. Alone /\ faults = 0 /\ faults' = 0 /\ MailOnce /\ AlertOnce
    BY <1>3, <1>4 DEF AloneOnce
  <2>2. PICK r \in Requests : scene.requests = {r}
    BY <2>1, OneAlone
  <2>3. QED
    BY <2>1, <2>2, MailStepOnce, AlertStepOnce
<1>5. QED
  BY <1>4 DEF AloneOnce

LEMMA InitOnce == Init => AloneOnce
<1> SUFFICES ASSUME Init
             PROVE  MailOnce /\ AlertOnce
  BY DEF AloneOnce
<1>1. /\ TypeInv /\ notes = << >> /\ jobs = << >> /\ outcomes = {} /\ logs = {}
      /\ req = [r \in Requests |-> Idle]
  BY InitTypes DEF Init, NotificationInit, AlertsInit
<1>2. Rows = {}
  BY <1>1 DEF Rows
<1>3. \A r \in scene.requests : req[r].do = "idle"
  BY <1>1, SceneTyped DEF TypeInv, Idle
<1>4. MailOnce
  BY <1>2, <1>3 DEF MailOnce, MailWords
<1>5. \A s, t : Cardinality(AlertsOf(s, t)) = 0
  <2>1. \A s, t : AlertsOf(s, t) = {}
    BY <1>2 DEF AlertsOf
  <2>2. QED
    BY <2>1, FS_EmptySet
<1>6. AlertsCounted
  <2>1. \A s, t : Cardinality(Announced(s, t)) \in Nat
    BY AnnouncedInYears, YearsAreTwo
  <2>2. QED
    BY <1>5, <2>1 DEF AlertsCounted
<1>7. QED
  BY <1>1, <1>3, <1>4, <1>6 DEF AlertOnce, YearsLogged, FoundUnlogged

LEMMA AtMostOneCounts ==
    ASSUME NEW S, AtMostOne(S)
    PROVE  Cardinality(S) \in {0, 1}
<1>1. CASE S = {}
  BY <1>1, FS_EmptySet
<1>2. CASE S # {}
  <2>1. PICK x : S = {x}
    BY <1>2 DEF AtMostOne
  <2>2. QED
    BY <2>1, FS_Singleton
<1>3. QED
  BY <1>1, <1>2

\* As long as no call fails and no runs overlap, the cron of the mails
\* (processAllPending) queues the first mail of a row once, and those of the
\* alerts (handleExpiryAlerts) create an alert once a threshold and a year, for
\* any number of rows, documents and leases.
THEOREM OnceAlone == Spec => []OnceWithoutFaults
<1>1. Init => TypeInv /\ SceneRuns /\ AloneOnce
  BY InitTypes, InitOnce DEF Init, SceneRuns
<1>2. TypeInv /\ SceneRuns /\ AloneOnce /\ [Next]_vars => (TypeInv /\ SceneRuns /\ AloneOnce)'
  BY StepTypes, StepRuns, StepOnce
<1>3. TypeInv /\ AloneOnce => OnceWithoutFaults
  <2> SUFFICES ASSUME TypeInv, Alone, MailOnce, AlertOnce
               PROVE  OnceWithoutFaults
    BY DEF AloneOnce, OnceWithoutFaults
  <2>1. ASSUME NEW n \in Rows
        PROVE  Cardinality(FirstMails(n)) + Cardinality(FirstEnds(n)) <= 1
    <3>1. OneMail(n)
      BY DEF MailOnce
    <3>2. Cardinality(FirstMails(n)) \in {0, 1} /\ Cardinality(FirstEnds(n)) \in {0, 1}
      BY <3>1, AtMostOneCounts DEF OneMail
    <3>3. Cardinality(FirstMails(n)) = 0 \/ Cardinality(FirstEnds(n)) = 0
      BY <3>1, FS_EmptySet DEF OneMail
    <3>4. QED
      BY <3>2, <3>3
  <2>2. ASSUME NEW s \in scene.expiring, NEW t \in Nat
        PROVE  Cardinality(AlertsOf(s, t))
                  <= IF s.kind = "contract" /\ today >= scene.newYear THEN 2 ELSE 1
    <3>1. Cardinality(AlertsOf(s, t)) <= Cardinality(Announced(s, t))
      BY DEF AlertOnce, AlertsCounted
    <3>2. Cardinality(AlertsOf(s, t)) \in Nat
      BY AlertsAreRows
    <3>3. Announced(s, t) \in SUBSET {0, 1}
      BY AnnouncedInYears
    <3>4. 1 \in Announced(s, t) => s.kind = "contract" /\ today >= scene.newYear
      <4>1. s.kind \in {"document", "contract"} /\ today \in Nat /\ scene.newYear \in Nat
        BY SceneTyped, ScenesAssumption, ThresholdsListed DEF TypeInv, NotificationTypeOK, Subject
      <4>2. 1 \in Logged(s, t) => s.kind = "contract" /\ today >= scene.newYear
        BY DEF AlertOnce, YearsLogged, Logged
      <4>3. LogYear(s.kind) = 1 => s.kind = "contract" /\ today >= scene.newYear
        BY <4>1 DEF LogYear
      <4>4. QED
        BY <4>2, <4>3 DEF Announced
    <3>5. /\ Cardinality(Announced(s, t)) \in Nat /\ Cardinality(Announced(s, t)) <= 2
          /\ 1 \notin Announced(s, t) => Cardinality(Announced(s, t)) <= 1
      BY <3>3, YearsAreTwo
    <3>6. QED
      BY <3>1, <3>2, <3>4, <3>5
  <2>3. QED
    BY <2>1, <2>2 DEF OnceWithoutFaults, FirstEnds
<1>4. QED
  BY <1>1, <1>2, <1>3, PTL DEF Spec
=============================================================================
