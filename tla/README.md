# Formal model of the OSDRM API

The OSDRM API is a NestJS/Prisma backend. Its core is the purchase request ("DA"): a
purchase goes through nine steps, most of which need documents and the signatures of
several roles, and around it there are missions, trips, fuel, maintenance, the vehicle and
IT parks, leases, notifications, budget tables and accounts.

This directory holds TLA+ modules translated from the source, TLC configurations that check
them on small instances, and theorems that TLAPS proves for every instance.
Paths below are relative to the root of the repository copy: `src/src/...` is the
TypeScript source, `src/prisma/schema.prisma` the database schema.

## 1. Inventory

| Component | State | Operations | What is hard | What makes it correct |
|---|---|---|---|---|
| **Purchase workflow rules** (`purchaseValidation/services/workflow-config.service.ts`, `purchase/services/workflow.service.ts`, `NEXT_STEP_MAP`) | none (tables) | roles by step, type and amount; next step; number of quotes | a boundary at exactly 5 000 000 MGA; two tables of successors in two services | the roles asked for are those of the amount at that moment; steps follow one another |
| **Purchase approval** (`purchaseValidation/services/`) | per step a `ValidationWorkflow` with ordered `Validator`s | validate, reject, request changes | no transaction: each awaited call commits alone; reads before a `Promise.all`, writes after | order of signatures, no decision withdrawn, nothing moves unsigned, everything signed moves |
| **Purchase authoring** (`purchase/services/purchase.service.ts`) | the `Purchase` row, its items | create, items, fields, publish, revise and republish, delete | four separate writes in a publication; the unique key (purchase, step) | a draft can be published; a revision is signed anew; the budget |
| **Purchase sourcing** (`quotation`, `derogation`, `pv` services) | quotes, one derogation, one PV | upload, delete, submit quotes, proceed, request and decide a derogation, create and edit a PV | endpoints that check the step but not the status, or neither | no dead end, no step backwards |
| **Purchase documents** (`bc`, `step`, `submit`, `attachment` services) | attachments | upload, submit, generic submit, attach, delete | two routes to the same step with different guards | papers of every step passed; a waiting purchase can be signed |
| **PDF signing** (`pdf-signing/`, `signatures/`) | signing status and versions of an attachment, a BullMQ queue, specimens | ask for a signature, stamp, append a version, validate for the signer; upload, activate, remove a specimen | a job started again after partial success; read-modify-write of the versions | every signature is kept, each job signs and validates once, a paper that waits gets an answer |
| **Notifications** (`notification/`, `mail/`, `resend/`, the alert crons) | notification rows, mail queue, alert logs | create, send cycle, reminder cycle, stop reminders, expiry alerts | crash between queue and row, overlapping ticks, no limit on attempts | nothing lost, nothing twice without a fault, reminders stop |
| **Accounts** (`auth/`, `user/`) | users, refresh tokens | register, login, refresh, logout, change and reset the password, (de)activate, delete | create-before-revoke rotation, password written before the tokens are revoked, deletion half way | one token per session, none older than the password, none without its user |
| **Budget tables** (`budget/`) | the versions and their flags | upload with guard, activate, look up a code | guard at upload, effect at activation; concurrent activations | a table in force, one at a time |
| **Missions** (`logistique/deplacement/`) | status, vehicle, confirmation, liquidation with one validation row per role | create, change the status, assign, confirm, cancel, trigger a DA, submit, decide, resubmit | transactions that read without a lock; deadline by ISO week | no double booking, verdict agrees with the decisions |
| **Trips, fuel, maintenance, IT demands** | a status column each, a number, a linked purchase | create, change the status, cancel, delete, trigger a DA | number counted in one call and inserted in the next | numbers dense, one linked purchase |
| **IT park** (`logistique/parc-informatique`) | stock counters, attributions | create, edit, archive, attribute, return, trigger a DA | counters moved after a check outside the transaction | the counter is the open attributions |
| **Vehicle park, storage** (`logistique/parc-auto`, `storage/`) | vehicles, photos, documents, stored files | upload, delete, supersede, archive, optimise | one stored file behind several rows | what is referred to is stored |
| **Leases** (`logistique/baux`) | leases, amendments, payments | create, edit, archive, amend, pay, index | the indexation reads, then writes, and may stop half way | the rent is that of the last amendment, each indexation starts from the rent before it, the duration agrees with the dates |
| **Statistics, dashboards** | none | KPIs, depreciation, reminders, counts, sums | rounding, empty samples, months of unequal length | parts add up to the whole, means lie among their data |
| **Comments, surveys, suppliers, audit** | rows | row management | none that a model checker reaches | - |

How they interact: the HTTP controllers call the services; the services share nothing but
the PostgreSQL database (no handler of the purchase modules opens a transaction) and the
BullMQ queues for mail, audit and PDF signing. Crons send and repeat mails, announce what expires
and index the rents. A signing job validates the purchase's
workflow for the signer (`pdf-signing.processor.ts:189-200`), so a validation may also be a
retried one. Missions, maintenance and the IT park create purchases; purchases read the
active budget table.

Dead code met on the way and left out: `BcValidationController`, `AcheteurController`,
`purchase-attachment-bc.service.ts`, `PVService.submitPV`,
`ValidationWorkflowService.resetWorkflow` and `recreateWorkflow` have no caller or are in no
module's list of controllers.

## 2. Modules

```
WorkflowRules          tables: successors, signatories, quotes
  PurchaseState        the rows, the requests, and every single database write
    PurchaseApproval   validateDA, rejectDA, requestChangesOnDA
      PurchaseQueries  the worklists of the validators and the buyer
    PurchaseAuthoring  the creator's endpoints
    PurchaseSourcing   quotes, derogation, PV
    PurchaseDocuments  BC, BR, invoice, DAP, proof of payment, attachments
      PurchaseSystem       Next and Spec: all of them, by interleaved requests
        PurchaseProperties what is claimed of it
          MCPurchase           instances for TLC
          PurchaseProofs       type correctness; under any interleaving: order and
                               permanence of the decisions, nothing before the last
                               signature
            LifecycleProofs      one request at a time: steps, refusals, drafts, papers
              SignatureProofs      one request at a time: signatures needed and given,
                                   and who can decide

Server                 requests, awaits and scenes of the modules below
  PurchaseNumbers      references of purchases, linkedPurchaseId of what triggers one
    Mission            missions and their liquidation    (ThursdayDeadline: its deadline)
      MissionProperties    composition, properties; LiquidationBallot is the abstraction
        MCMission
        MissionProofs        numbers, deadlines, verdicts, bookings; the refinement
    NumbersProofs      lemmas about references, links and sums, for Mission and BackOffice
    Tickets            trips, fuel, maintenance, IT demands    (BudgetTable: budget tables)
    ItStock            IT assets and attributions
  Notification         rows, crons, mail queue
    ExpiryAlerts       alerts for documents and leases
      NotificationProperties
        MCNotification
        NotificationProofs   nothing lost, nothing logged early, reminders stop
  Accounts             users and refresh tokens
    Files              stored files, specimens, photos, documents
      PdfSigning       queue, worker, versions
  Leases               leases, amendments, payments, indexation
  PvSelection          suppliers, items and selection of a PV, beside the lifecycle
  Reports              what the KPIs and reports compute
    Dashboards         counts and sums of the dashboards; asking for a report
BackOffice             all parts from Tickets to Dashboards, and their properties
  MCBackOffice
  BackOfficeProofs     tables, purchases, tickets, leases, sessions, PVs, stock
    FilesProofs          stored files and what refers to them, signing, types
```

The first family models the purchase with a list of writes per request, the second everything
around it with one pending step per request. The two share no state: to the second a purchase
is its number and what triggered it, to the first a budget line is a constant.

### The purchase

**One purchase, many requests.** The variables are `purchase` (the row; its items stand as
their total), `flows` (per step, at most one workflow, as the unique key of
`ValidationWorkflow` says), `nextFlow` (ids; creation times are ordered as the ids are),
`papers` (quotes by number, documents by type, the derogation's status, whether the PV has
suppliers) and `req` (per request, what it has read and the writes it still awaits).

**A handler is its reads, then a list of writes.** Each awaited Prisma call commits by
itself, so between two of them any other request may run. The action that starts a handler
evaluates its guards on the database as it is and puts the list of awaited writes into
`req[r].todo`; `Continue` performs one of them, with the effect it has on the database *at
that moment*, unique keys, missing rows and cascades included: a write that throws ends the
handler and leaves what was written before. The approval endpoints read several times, and
there each read is an action. `Fail` is the death of the process or a failing call, between
any two calls. Where a handler reads several rows before its first write and only the first
matters to its guards, the reads are one action.

**validate.** Authorisation (which looks at the workflow created last) and the load of the
purchase run in parallel, so either may come first and other requests may run between them
(`ValidateAuthFirst`/`ValidateLoad`, `ValidateLoadFirst`/`ValidateAuth`). The decision
whether the step is complete is taken on the loaded snapshot. The mark and the two halves of
`advanceWorkflow` run in a `Promise.all`: `ParallelWrites` holds their three orders. Then the
snapshot's status (or PUBLISHED) is written, then the next step.

**Abstractions.** Users are not told apart beyond their role: a caller without the right
role or ownership is refused without effect, so only authorised calls are actions. An item
list with a total of 0 is an empty one. There is one budget line, `BudgetThreshold`, which
stands for the `activityCode` every purchase gets at creation. Names, comments,
file contents, mails and audit entries are left out; the items of a PV are in `PvSelection`. `Init` starts at DA with
a draft that already has items, or at the entry of a later step with what completed
validations leave behind (`StartSteps`).

**Worklists.** `PurchaseQueries` has the four listings that tell people what they have to do.
They write nothing; `PendingIsActionable` compares them with what the handlers accept.

### Everything around it

**Requests, scenes.** In the modules over `Server`, `req[r]` is a record that says what the
handler of request `r` has still to do and what it has read for it. A handler is split at its
awaits wherever another request could tell; what a Prisma `$transaction` writes appears at once,
but its reads are those of READ COMMITTED and lock nothing. A handler that is refused is no
step. A behaviour is about one *scene*, chosen in `Init` and constant: which requests run, which
endpoints are called on which rows, with which inputs. Scenes keep parts that do not touch one
another from multiplying their states; within a scene everything the endpoints allow may
happen. `Abandon` ends a request between two awaits where the scene has `"failure"`.

**Mission.** One record per mission with status, dates, vehicle, confirmation and the three
validation rows of the liquidation. `Transitions` is the desk's table. Times are hours, dates days
since 1970; `ThursdayDeadline` computes the ISO week as the source does, in UTC with the offset of
Madagascar. `ReadRows`/`WriteMission` are the transaction of `decide`: what it reads, and what it
writes when it commits. `LiquidationBallot` says what the circuit promises without requests or
database; `MissionProperties` refines it (`ImplementsBallot`), with a mission's status and rows
mapped to a verdict and votes.

**Notification, ExpiryAlerts.** `notes` are rows in order of creation, `jobs` the mail queue,
which is in Redis and survives the process, `outcomes` what became of a job. A tick of a cron is
a request that holds the batch it read, so two ticks may overlap. `Crash` ends all requests,
`FailedCall` one database call, `FailedSend` one attempt of a job; `faults` bounds them. `Payload`
says whether an event has a mail, none, or throws. Alerts read, notify and log in three calls.

**BackOffice.** One module per part: `BudgetTable` (upload as guard, number and insertion;
activation as a transaction), `Tickets` (four families with their own numbering, the retry of a
maintenance reference, status tables), `ItStock`, `Accounts` (a session is what one login opens;
`password` counts passwords so that a token knows which it was opened under), `Files` (an upload
of a content its user already stored gives the same file; the photos of a vehicle are a set of files,
their order and multiplicity left out, since `removePhoto` filters every occurrence), `PdfSigning` (the worker takes one job
at a time; a death in it starts the job again once), `Leases`, `PvSelection`, `Reports` and
`Dashboards` (pure operators applied to samples of rows; rounded values in tenths).

**PvSelection.** Each supplier has a sequence of items, as the code creates one row per element of a
request and an article may be named twice. The edits ask for the status PUBLISHED and nothing else,
so the model has what makes that status come and go: `dossier` is the purchase's step, its status and
which of the workflows of DA, PV and BC there are, and a request of the lifecycle (submit, validate,
reject, request changes, publish, revise, decide a derogation, upload the order) checks and then has a
list of writes, one per awaited call. Who signs and which papers are needed is the first family's
subject; here any signature may be the last. `deleteDraft`, which takes the PV with it, is left out.

**Leases.** Dates are days (months counted from 0, as `Date` does), compared to the day; the duration is
computed from years and months alone and may be 0. The time of day and the server's time zone are left
out. The calendar moves on by `NextMonth` whatever the requests do, and nothing keeps the indexation
job from running again in the same month, or in every one.

References of missions, leases and purchases carry the year and are counted per year in the code; the
models are about the series of one year.

Definitions whose comment begins with "Mutant of" are deliberately wrong variants of the
definition that follows: replacing the definition by the variant must violate a property
named in `PROJECT.json`. They show that each property depends on the code it is about.

## 3. Properties and runs

Deadlock is not checked: a purchase that is done, rejected or deleted is worked on no more, and
in the other runs the users have no more to ask for once the rows of the scene are used up.
States are distinct states.

| Run | Instance | Checks | States |
|---|---|---|---|
| `Lifecycle` | 1 request, from DA and from BC, both operation types, amounts 4 999 999 and 5 000 000, 6 workflows | `TypeOK`, `PendingIsActionable`, `DraftHasNoChain`, `PaperTrail`, `ClosedMatchesStatus`, `StepsInOrder`, `LeavesStepApproved`, `RejectionIsFinal` | 553 750 |
| `Papers` | 1 request, from QR, quotes, derogation, attachments and their deletion, 5 workflows | `PendingIsActionable` | 2 183 168 |
| `Races` | 2 symmetric requests that may die, from BC: validate, reject, uploadBC, submitForValidation; uploads start while no more than one BC workflow was created | `TurnsStayGood`, `ApprovalsInOrder`, `CompleteFlagSound`, `MovesOnlyWhenSigned`, `NoDecisionWithdrawn` | 195 597 |
| `Liveness` | 1 request, from DA, publication to decision with revisions, 3 workflows | `PublishedIsDecided` | 1 070 |
| `BudgetBypassed` | 1 request, amounts 999 999 and 6 000 000 | `PublishedWithinBudget` (violated) | |
| `LastSignatureLost` | 2 requests at BC | `SignedMeansMoved` (violated) | |
| `RejectionOverwritten` | 2 requests at BC | `StaysRejected` (violated) | |
| `Missions` | 3 scenes: 1 mission with every endpoint, 2 missions and 1 vehicle, 2 creations at once around new years | `MissionTypeOK`, `ReferencesDense`, `SubmittedInTime`, `NoDoubleBooking`, `RentalLinked`, `VerdictSound`, `ImplementsBallot` | 347 831 |
| `MissionOutcomeLost` | 1 mission, 2 requests | `OutcomeRecorded` (violated) | |
| `Notifications` | 6 scenes: signatures over 3 days, 2 ticks at once, 3 faults, 5 kinds of event, alerts over a new year with a crash, no administrator | `NotificationTypeOK`, `NothingLost`, `OnceWithoutFaults`, `RemindersStop`, `LogMeansNotified`, `SentUnlessBlocked` | 65 160 |
| `NotificationsStuck` | 2 rows, batches of 1 | `PendingTreated` (violated) | |
| `BackOffice` | 27 scenes | `BackOfficeTypeOK`, `TableInForce`, `NumbersDense`, `LinksSound`, `StockSound`, `SessionsSound`, `FilesKept`, `SignaturesStack`, `SigningEnds`, `LeaseHistory`, `PvSettled`, `ReportsExact` | 294 746 |

The runs of the purchase use the module `MCPurchase`, the others `MCMission`, `MCNotification` and
`MCBackOffice`, where the scenes are.

The properties of the purchase are in three groups, as the sections of `PurchaseProperties`:

* **Under any interleaving** (`Races`): `ApprovalsInOrder`, nobody signs before his
  predecessors have; `NoDecisionWithdrawn`, a decision may be replaced but never taken back;
  `CompleteFlagSound`, the flag `isComplete` never hides a workflow from a validator who is
  still awaited; `MovesOnlyWhenSigned`, a request about to move the purchase on goes by a
  workflow that everybody has signed; `TurnsStayGood`, the inductive form.
* **One request at a time** (`Lifecycle`, `Papers`): what the code establishes as long as
  requests do not overlap. `LeavesStepApproved` is the central one: a step that needs
  signatures is only left with those that the matrix asks for, for the amount and type the
  purchase has at that moment, however it was revised, sent back or republished before.
  `PendingIsActionable` says that a purchase that waits can be decided, and that the worklists
  show it to exactly those who may: they go by other columns than the authorisation does.
* **Documented and not kept**: the violation runs, below.

Of the other parts:

* **Missions.** `ImplementsBallot` is the refinement of the abstract ballot: each role votes once
  a round, one refusal decides it, unanimity accepts, only a refused round is opened again.
  `VerdictSound` ties status to rows. `NoDoubleBooking` needs assignments and confirmations to
  look at the same statuses; it is checked without the status set by hand, see below.
  `SubmittedInTime` compares the computed ISO weeks with the calendar.
* **Notifications.** `NothingLost` holds under every fault; `OnceWithoutFaults` only without, and
  without overlapping ticks, which is what the code gives. `LogMeansNotified`: a crash may repeat
  an alert, never skip one. `SentUnlessBlocked` is the liveness that remains given the oldest rows
  are always taken first.
* **BackOffice.** Most invariants have two halves: what survives any interleaving, and, under
  `Serial`, what one request at a time establishes (`StockSound`: the counter never exceeds the
  open attributions, serially equals them). `FilesKept` says of the photos and current documents of a
  vehicle that their files are stored, with one exception that is the code's own: a content that
  serves two purposes is one file, and `OneToOne` excludes it. `SignaturesStack` and `SigningEnds` are about the queue:
  no signature lost, none without its base version, and a paper that waits is answered.
  `PvSettled`: requests one after the other, and none cut short, what the validators of a PV see is what
  was submitted, through change requests and new submissions; an open derogation is excluded, since its
  answer sets PUBLISHED in any step. `LeaseHistory` follows a lease's rent through its amendments and says
  what an indexation started from. `ReportsExact` states, per report, what its figures have to satisfy, not how they are computed.

**Bounds.** `MaxFlows` limits the workflows created in a behaviour: 6 allow the whole way
from DA to DONE with a change request and its republication, in `Races` two
uploads may have started before the first workflow is there, so that it is deleted and
created again while requests of the old one are under way. `MaxQuotes` needs
only to reach the number the amount requires. Two amounts on both sides of the only threshold of the matrix reach each of its
rules. Two concurrent requests are what it takes for every stale read; the proofs are for
any number. The three-signature chain of BC has a first, a middle and a last signature.

In `Missions` two missions and one vehicle make a conflict; the dates are four around the years 2026
(52 weeks before it) and 2027 (53), in the last hour before the deadline and the first after.
`Notifications` has a `BatchSize` of 2 where the code takes 10, so that a batch can be full, a
`Lifetime` of 2 days for 7, three attempts as in the code; `faults` allows each kind of fault before
and after each call. In `BackOffice` there are two of everything that can collide (three tables:
two to activate and one to upload), `Attempts` is 2 where the code tries a maintenance reference 5
times, `MaxDeaths` 1: the second start of a job is the last. There are leases over 35 months, within
one month (of duration 0), and of no day at all, which is refused; the months are a February, the next one and
the March after it, and the job may run in each of them again. A PV may have two suppliers and three
items each, and a request names one article twice. Samples of reports have up to four rows, with empty, equal and
negative values and acquisitions in the future among them, and for the lists of the first ten rows ten,
eleven and twelve rows of two kinds.

**Fairness.** In `Liveness`: `WF(Continue)` and weak fairness of the second read: the
server and the database answer as long as they run, and the run excludes crashes
(`CanFail = FALSE`). Strong fairness of `ValidateAuthFirst` says that a validator who is again
and again able to sign eventually calls the endpoint; it has to be strong because with one
request slot other calls, refused or not, may take the slot in between. It is a
statement about users, not about the code; what the code contributes is that each signature
hands the turn to the next validator and that the last one moves the purchase. In `Notifications`:
the scheduler keeps starting the cron, a tick that has begun goes on to its next call, the worker
takes the next job, each weakly fair. Time need not pass and nobody need sign. In `BackOffice`: the
worker of the signing queue goes on while there are jobs, and a request for a signature awaits its
next call; no user need do anything.

### Disagreements with the documentation

* `RejectionOverwritten`: a validation that loaded the purchase before a rejection writes
  the status it loaded back after it (`validation-action.service.ts:91-96`). The rejected
  purchase is PENDING_APPROVAL again.
* `LastSignatureLost`: two overlapping validations each count on a snapshot without the
  other's mark (`validation-action.service.ts:86`). All have signed and nothing moves.
* `BudgetBypassed`: a revision after a change request replaces the items without the budget
  check (`purchase.service.ts:641-658`).
* `MissionOutcomeLost`: two validators who decide at once each read the rows without the other's
  decision (`deplacement-liquidation-validation.service.ts:194`); all have accepted and the mission
  keeps its status for ever. The comment above says the reading is there for concurrency.
* `NotificationsStuck`: a row whose event has no mail makes `buildMailPayload` throw
  (`nofitication.service.ts:354`), stays PENDING and at the head of every later batch. Ten of them end
  all mail.

Read in the code while modelling, without a run of their own:

* `uploadQuote` sets AWAITING_DOCUMENTS whatever the status is (`quotation.service.ts:109`):
  a rejected purchase at QR is revived, one that waits for signatures is not waiting any
  more, and submitting again fails on the workflow that is still there.
* the check for enough quotes before submission is commented out
  (`quotation.service.ts:377-381`), while `quotation.controller.ts:228` documents it, and the
  levels the controller documents (`:43-46`) are not those of `workflow.service.ts:13-18`.
* `validateQuotesAndProceed` enters PV with VALIDATED (`quotation.service.ts:319-325`), with
  which `createPV` refuses to work (`pv.service.ts:106`): a dead end.
* an edit of a PV that found the purchase PUBLISHED goes on after another request has submitted it; and
  after a change request at BC and a republication the status is PUBLISHED again, so that the PV that
  was signed may be edited and is never signed anew (`pv.service.ts:151-154` asks for the status and
  for no step). The model does both: `PvSettled` is false without `Serial`, and says nothing of a PV
  whose workflow is gone.
* a late validation takes the purchase back to the successor of the step it had loaded
  (`validation.service.ts:163-167`).
* a derogation that was left pending is decided at any later step, and closes or reopens a
  purchase that is DONE (`derogation.service.ts:137-154`).
* a crash between the last mark and `handleStepCompletion` leaves the purchase where
  `LastSignatureLost` does.

Of the other parts:

* `validation.service.ts:261` counts the decision CHANGES_REQUESTED, while the action writes
  CHANGE_REQUESTED (`validation-action.service.ts:198`): the count is always 0. The count of pending
  purchases ignores the turn, which the list of them respects.
* once a derogation at QR is approved with its workflow unfinished, the purchase is on the quote
  desk and in a validator's worklist at once.
* a mission's status may be set by hand to EN_COURS and LIQUIDEE without vehicle or report, and a
  round trip through ANNULEE brings a booking back beside another one; missions of a single day never
  conflict, the comparisons being strict (`deplacement.repository.ts:167-191`); resubmission revives a
  cancelled mission.
* a requestor who is deleted leaves a validation row nobody may decide, whatever the message at
  `deplacement-liquidation-validation.service.ts:121-126` says about administrators.
* reminders of a row that is being sent, or still pending, are not stopped; only the first recipient
  of a notification gets the mail; reminders run every minute where the comment says every hour
  (`notification.cron.ts:29`).
* any former budget table can be activated again and loses the codes added since; two activations at
  once leave two tables in force.
* two refreshes with one token fork the session; a password is written before the tokens are revoked,
  and a failure in between leaves them; a deletion of a user that fails has deleted his tokens.
* deleting a specimen, or a photo of one vehicle, deletes a file that other rows share
  (`file-storage.service.ts:193`); a deletion during the optimisation of a file is an unhandled
  rejection, which ends the process.
* a paper whose request ended between its two writes stays PENDING; a job whose process dies twice
  leaves it PROCESSING; a job that died after writing its version signs again.
* a single date of a lease may be patched past the other, with a stale duration; an indexation that
  was reading when an amendment was made writes back the rent it read, indexed
  (`baux-indexation.service.ts:41`): `LeaseHistory` is false without `Serial`. A lease whose month of
  indexation is moved to a later one is indexed twice in that year. An indexation that stops half way skips the other leases for a year, and started again in its month multiplies those it
  had done a second time; three years less a day, the example of
  `create-bail.dto.ts`, are 35 months to `baux.service.ts:62-64`.
* `buildEmptyMonthlyMap` leaves out short months on the last days of a month
  (`date-utils.ts:17-27`), though its comment says all months appear; KPI 4 counts a purchase once per
  buyer who signed; the depreciation may leave a cent for ever; `totalValidatedPurchases` counts the
  purchases that are not validated; the greatest reference is found by string comparison, which goes
  wrong at 10 000.
* the selection of a PV is dropped when a supplier's items are replaced; two such calls at once leave
  the items of both, and one that fails between its calls leaves none.
* a publication, revision or rejection that fails between its calls leaves a workflow, a `closedAt` or a
  status that does not go with the rest; two clicks that trigger a purchase create two, one of them
  linked.

## 4. Proofs

`tlapm` checks every theorem to the leaves. Each is about every instance: any number of requests,
rows, amounts, dates and faults. Its assumptions are those that the modules declare on their
constants, and TLC evaluates them in every run:

* what the code fixes: `OperationsAssumption`, `AmountsAssumption`, `StartAssumption` (purchases
  start where completed validations leave them), `NotificationAssumption` (positive batch size and
  lifetime), `TicketsAssumption` (the families are apart), `MissionAssumption`, `ItStockAssumption`,
  `AccountsAssumption`, `PurchaseNumbersAssumption`;
* what the users may enter: the `ScenesAssumption`s say that a scene has finitely many requests where
  they are counted, inputs that the DTOs let through, and budget tables as uploads and activations
  leave them; `SigningAssumption` that there are finitely many papers;
* that `None` is no row (`NoTokenAssumption`, `NoFileAssumption` and so on).

Where the code gives a guarantee only to requests that do not overlap, the theorem says so by
`Serial`, `Calm` or `OneAtATime`, exactly as the checked property does. Theorems without such a
condition hold under any interleaving, and with requests that die between any two calls.

### The purchase

* `TypeCorrect` (`PurchaseProofs`): `Spec => []TypeOK`. The rows and, what carries the proof,
  every write that any handler may still have in its list are well typed. The lemmas at the
  top say of each list of writes a handler builds that it is one; then there is one lemma per
  action.
* `TurnsAlwaysGood`, `ValidatorsDecideInOrder`, `DecisionsAreKept` (`PurchaseProofs`):
  `TurnsStayGood`, `ApprovalsInOrder`, `NoDecisionWithdrawn`. The order of signatures is not
  inductive by itself: a request marks, in one call, a row it found to be the next one in an
  earlier call. `TurnsStayGood` adds that each turn held by a request, and each mark in its
  list, names a row whose predecessors have all decided, *if the workflow it names still
  stands*. That stays true because no step takes a decision back, and because a workflow that
  is deleted and created again has a greater id, so that an old turn matches no new workflow.
* `FlagsNeverEarly`, `NeverMovesEarly` (`PurchaseProofs`): `CompleteFlagSound`,
  `MovesOnlyWhenSigned`. Both rest on what a validation has loaded before others signed. A snapshot
  only ages well: `SnapshotsStaySound` says that who is signed in it is signed now, that its
  workflow is the one that stands or a deleted one whose id no other gets, even for another step,
  and that the writes computed from it count on its own mark and no other's. It is inductive next
  to `TurnsStayGood`.
* `StepsNeverSkip` (`LifecycleProofs`): `StepsInOrder`, with requests that do not overlap
  (`OneRequest`) and may die anywhere. Of the writes of a request only the last moves the purchase,
  and to the step after the one it is at; with two requests the second move may be a step back.
* `ClosedIsRefused`, `DraftsArePublishable`, `RejectedForGood`: `ClosedMatchesStatus`,
  `DraftHasNoChain`, `RejectionIsFinal`. They are about what several writes establish together:
  a publication deletes the workflows, clears `closedAt`, creates a workflow and sets the status
  in separate calls, and in between none of the three need hold. `AllOrderly` says where a request
  can be: at rest, with the purchase `Settled`, or with a list that is a suffix of one of seven kinds,
  and for each kind what the writes behind have done and the rest will do. `StepOrderly` proves it
  inductive, endpoint by endpoint and write by write. Besides `OneRequest` they assume
  * `~CanFail`: a revision or publication that dies half-way leaves a draft with its workflows, or an
    open purchase that is refused;
  * `Operations \cap Careless = {}`: `uploadQuotes`, `proceedWithQuotes`, `requestDerogation` and
    `validateDerogation` check the step and not the status, and set a status on a purchase that may be
    rejected: the three properties are false with them (hazard at `quotation.service.ts:109`).

  The run `Lifecycle` satisfies them too.
* `PapersStay`: `PaperTrail`. A paper is looked for once, when its step is left or its workflow
  created, and an upload throws the old one away before it files the new. `AllFiled` says of the steps
  behind that their papers are there and nobody is about to drop them, and of the present step that
  the paper is there too, or nothing goes by it yet, or the request at work is about to look for it,
  replace it or file it; and that there is no workflow of BC before BC, nor after without the purchase
  order. The careless endpoints are allowed here. `~CanFail` is needed: a second upload that dies
  between its two calls leaves the workflow of BC that the first created, without the purchase order,
  and its validators may complete it. `Operations \cap Removing = {}`, nobody deletes
  attachments, is what the property itself says.
* `MatrixIsExact` (`SignatureProofs`), of `RequireValidators` alone: each amount selects exactly one
  rule of a configured step, so that neither the order of the rules nor the fallback to the first
  one matters, and no role is asked twice. The runs try two amounts.
* `LeavesApproved`, `PendingCanBeDecided` (`SignatureProofs`): `LeavesStepApproved`,
  `PendingIsActionable`. The two have one invariant, `AllVouched`, inductive next to `AllOrderly`,
  `StepsOrdered`, `TurnsStayGood`, `SnapshotsStaySound` and `MovesOnlyWhenSigned`. Between requests the
  purchase is `Backed`: a draft has no workflow, no step ahead has one, and the workflow of the
  present step is the newest, asks the roles that the matrix gives for the amount and the type the
  purchase has *now*, has not been refused, and waits for somebody when the status says so. While a
  request is at work its list is a suffix of one of eight kinds (`Resting`, `Minding`, `Asking`,
  `Announcing`, `Reworking`, `Countersigning`, `LastSigning`, `TurningDown`), and each says what of this
  is done and what the rest will do: the amount changes in drafts and in what was sent back only, whose
  workflows are deleted before a validator is asked again; a last signature comes with the move. That
  those who can decide are shown the purchase, and no others, comes on top of it: every chain has three to five roles (`RolesEnough`), so
  one of a workflow that waits is next (`SomebodyIsNext`), and the authorisation and the worklists
  read the same newest workflow. The assumptions are those of `ClosedIsRefused`, for the same
  reasons: with `proceedWithQuotes` a purchase leaves QR whether or not its validators have signed.
  `PendingCanBeDecided` also needs a request to exist at all, to read the purchase by.

### Missions and notifications

* `MissionTypesSound`, `ReferencesStayDense`, `RequestsInTime` (`MissionProofs`) hold for concurrent
  handlers. `HandlersStayGood` is the invariant: a handler works on a mission that exists, a
  decision on a report that is there, a creation with a number that leaves no gap. `RequestsInTime`
  is arithmetic: the ISO weeks the source computes give the Thursday before, for every departure
  until 2099.
* `VerdictsSound`, `OneRentalEach`, `NoVehicleTwice` and the refinement `ReportIsBallot`,
  `Spec /\ OneAtATime => ImplementsBallot`, need handlers that do not overlap. `ReadsStand` says that
  what the one at work has read is still so, status and rows of the report as well as the vehicle it
  found free; two handlers at once is what `MissionOutcomeLost` is about.
* `NotificationProofs`: `NeverLost` and `LogNeverAhead` follow from `MarksComeLast`: a run that is
  about to mark a row has its mail in the queue, one about to log an alert has created it.
  `RemindersAlwaysStop` counts: reminders queued after the stop plus runs that may yet queue one are
  no more than the runs that were under way (`LateRunsCounted`).
* `OnceAlone` (`OnceWithoutFaults`): alone, a run leaves a row pending exactly until its mail is
  queued, and marks it before it takes the next (`MailOnce`); the rows of an alert number no more than
  the years that are logged for it, or about to be (`AlertOnce`). It assumes of a scene that what
  expires differs in its id, and that only alerts carry a threshold.

### The back office

The parts share the requests. `BackOfficeProofs` first says whose work is whose: a step leaves work
of its own part only (`Leaves`), so that to any other part it is a step elsewhere (`Elsewhere`). Each
part then has an invariant about its rows and the work its handlers have left, and a lemma per
action:

* `TablesInv` (`AlwaysInForce`), `TicketsInv` and `LeasesInv` (`NumbersAlwaysDense`), `LeasesInv`
  (`HistoryAlwaysKept`: the rent, the base of an indexation and the terms are conjuncts that need one
  another; `Spans` is what a lease's dates and duration have in common whoever wrote them last),
  `PurchasesInv` (`LinksAlwaysSound`).
* `PvInv` (`PvAlwaysSettled`): between requests a purchase whose PV has its workflow is neither
  PUBLISHED nor a draft (`Settled`), so that no edit gets in; while one is at work, the writes it has
  left lead back there (`Leads`), and edits are under way only as long as there is no such workflow.
* `SessionsInv` (`SessionsAlwaysSound`): tokens belong to users that exist, or are about to be deleted
  with them; in a calm scene the handler at work accounts for the one token that is too many.
* `StockInv` (`StockAlwaysSound`): the counter of an asset is bounded by a sum over its active
  attributions, and each write that a handler has left changes both alike.
* `FilesInv` (`FilesAlwaysKept`): what a transaction has seen active covers what is active; and when
  no content serves two purposes, each file knows what it is for.
* `SigningInv` (`SignaturesAlwaysStack`): what the worker has read of the versions is what is there, as
  one job runs at a time; a signature that is not validated yet is that of the job at work, unless
  the process has died; without a death the signatures number no more than the jobs that are over.
* `BackOfficeTypesSound`: the rows of all parts are well typed, from all of these. The duration of a
  lease may be 0.

`NumbersProofs` has the lemmas on references and links that missions and the back office share, and
those on sums. A sum over a finite set is recursive, and the library's induction takes an operator
that the provers cannot instantiate; but a least counterexample among the subsets of the set is a
first-order fact (`Smallest`), and from it follow what a sum is over any order of its elements
(`SumAnyOrder`) and what one changed, added or removed element does to it (`SumChanges`, `SumAdds`).

`HandlersStayGood`, `ReadsStand`, `MarksComeLast`, `LateRunsCounted` and `SnapshotsStaySound` are proved
inductive, and are theorems of their own; they are no properties of the runs.

### Only model-checked

* Liveness: `PublishedIsDecided`, `SentUnlessBlocked`, `SigningEnds`. Reasoning under fairness needs
  ENABLED, which is out of the prover's reach.
* `ReportsExact`: what the reports compute is a fold over a sequence, and what a fold returns for every
  sequence is an induction over data.
* `PendingIsActionable` with the endpoints that set a status without looking at it (`Careless`):
  the run `Papers` checks it with quotes and derogations, the theorem leaves them out. The run starts
  at QR and nobody rejects; an invariant for it would have to say of each status how it came about.

## 5. Plan

1. The parts of `ReportsExact` that are sums over sets, from the lemmas of `NumbersProofs`.
2. Models: the composition of a signing job with the workflow it validates, and of the purchase's
   notifications with its approvals.

## 6. Not modelled

The audit log, suppliers, comments and surveys (rows that nothing else reads), categories and
descriptive fields, exports and filters, mail templates, the drawing of the stamp, hashing and access
tokens, file contents. `DELETE /files/:id` (`file-storage.controller.ts:192-201`) deletes a stored
file whoever refers to it; `FilesKept` is about the endpoints of the rows that refer to files, without it.
Controllers are modelled by what they let through: routes, roles and
documentation are not definitions of their own. Seeds under `src/prisma/` fill a development database.
