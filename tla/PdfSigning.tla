----------------------------- MODULE PdfSigning -----------------------------
(***************************************************************************)
(* Signing the papers of a purchase: the handler leaves a job in a queue,  *)
(* whose worker, in the same process, embeds the signer's specimen in the  *)
(* last signed version of the paper.  Signing is validating: the worker    *)
(* then validates the step of the purchase.  BullMQ runs one job at a      *)
(* time, starts again once the job of a process that died, and drops it    *)
(* the second time.                                                        *)
(***************************************************************************)
EXTENDS Files

CONSTANTS
    Papers,      \* attachments
    MaxJobs,     \* bound: no signature is asked for beyond this number of jobs
    MaxDeaths    \* bound: the process dies so many times at most

VARIABLES
    papers,      \* signingStatus, jobId, versions, and how often it was validated
    queue,       \* the jobs that are not finished, in order
    jobCount,    \* the jobs so far
    worker,      \* None, or how far the job at the head is
    deaths

SigningStatus == {"PENDING", "PROCESSING", "DONE", "FAILED"}
Version == [base : Nat, specimen : Nat \ {0}]
Paper ==
    [status : SigningStatus \cup {None}, jobId : Nat, versions : Seq(Version), validated : Nat]
SigningJob == [id : Nat \ {0}, paper : Papers, specimen : Nat \ {0}, stalled : 0 .. 1]
Progress == [at : {"load", "validate", "end"}] \cup [at : {"write"}, versions : Seq(Version)]

ASSUME SigningAssumption == IsFiniteSet(Papers) /\ None \notin Progress

SigningType ==
    /\ papers \in [Papers -> Paper] /\ queue \in Seq(SigningJob)
    /\ jobCount \in Nat /\ deaths \in Nat
    /\ \A p \in Papers : papers[p].jobId <= jobCount
    /\ \A i \in DOMAIN queue : queue[i].id <= jobCount
    /\ worker \in Progress \cup {None} /\ (worker # None => queue # << >>)

signingVars == << papers, queue, jobCount, worker, deaths >>

\* signStep: the specimen that is active when the signature is asked for.
SignStep(r, p) ==
    /\ Free(r, "signStep")
    /\ jobCount < MaxJobs
    /\ \E u \in Users : \E i \in ActiveSpecimens(u) :
        Await(r, [do |-> "markPending", paper |-> p, specimen |-> i])
    /\ UNCHANGED signingVars

MarkPending(r) ==
    LET w == req[r]
    IN  /\ w.do = "markPending"
        /\ papers' = [papers EXCEPT ![w.paper].status = "PENDING"]
        /\ Await(r, [w EXCEPT !.do = "enqueue"])
        /\ UNCHANGED << queue, jobCount, worker, deaths >>

Enqueue(r) ==
    LET w == req[r]
        id == jobCount + 1
    IN  /\ w.do = "enqueue"
        /\ queue' = Append(queue, [id |-> id, paper |-> w.paper,
                                   specimen |-> w.specimen, stalled |-> 0])
        /\ jobCount' = id
        /\ Await(r, [do |-> "writeJobId", paper |-> w.paper, id |-> id])
        /\ UNCHANGED << papers, worker, deaths >>

WriteJobId(r) ==
    LET w == req[r]
    IN  /\ w.do = "writeJobId"
        /\ papers' = [papers EXCEPT ![w.paper].jobId = w.id]
        /\ Done(r)
        /\ UNCHANGED << queue, jobCount, worker, deaths >>

-----------------------------------------------------------------------------
\* The worker, on the job at the head of the queue.
Job == Head(queue)

Process ==
    /\ worker = None /\ queue # << >>
    /\ papers' = [papers EXCEPT ![Job.paper].status = "PROCESSING"]
    /\ worker' = [at |-> "load"]
    /\ UNCHANGED << queue, jobCount, deaths >>

At(step) == worker # None /\ worker.at = step

\* The versions are read; the signature goes on the last of them, or on the
\* original, which is version 0.
Load ==
    /\ At("load")
    /\ specimens[Job.specimen] # None
    /\ worker' = [at |-> "write", versions |-> papers[Job.paper].versions]
    /\ UNCHANGED << papers, queue, jobCount, deaths >>

\* Mutant of Sign: every signature is put on the original.
SignOriginal(versions) ==
    Append(versions, [base |-> 0, specimen |-> Job.specimen])

Sign(versions) ==
    Append(versions, [base |-> Len(versions), specimen |-> Job.specimen])

WriteVersions ==
    /\ At("write")
    /\ papers' = [papers EXCEPT ![Job.paper].status = "DONE",
                                ![Job.paper].versions = Sign(worker.versions)]
    /\ worker' = [at |-> "validate"]
    /\ UNCHANGED << queue, jobCount, deaths >>

\* Its failure is swallowed: the signature stays.  Then the job is over.
RunValidation ==
    /\ At("validate")
    /\ papers' = [papers EXCEPT ![Job.paper].validated = @ + 1]
    /\ worker' = [at |-> "end"]
    /\ UNCHANGED << queue, jobCount, deaths >>

EndJob ==
    /\ At("end")
    /\ queue' = Tail(queue) /\ worker' = None
    /\ UNCHANGED << papers, jobCount, deaths >>

\* Mutant of FailJob: the paper is not told.
FailSilently ==
    /\ At("load")
    /\ specimens[Job.specimen] = None \/ "failure" \in scene.endpoints
    /\ worker' = [at |-> "end"]
    /\ UNCHANGED << papers, queue, jobCount, deaths >>

\* The specimen is gone, or a file cannot be read or signed.
FailJob ==
    /\ \/ At("load") /\ specimens[Job.specimen] = None
       \/ At("load") /\ "failure" \in scene.endpoints
    /\ papers' = [papers EXCEPT ![Job.paper].status = "FAILED"]
    /\ worker' = [at |-> "end"]
    /\ UNCHANGED << queue, jobCount, deaths >>

\* The process dies and is started again; the job it had stalls.
Die ==
    /\ "die" \in scene.endpoints
    /\ deaths < MaxDeaths
    /\ deaths' = deaths + 1
    /\ req' = [r \in Requests |-> Idle]
    /\ worker' = None
    /\ queue' = IF worker = None THEN queue
                ELSE IF Job.stalled = 1 THEN Tail(queue)
                ELSE [queue EXCEPT ![1].stalled = 1]
    /\ UNCHANGED << papers, jobCount >>

WorkerStep ==
    /\ Process \/ Load \/ WriteVersions \/ RunValidation \/ EndJob \/ FailJob
    /\ UNCHANGED req

-----------------------------------------------------------------------------
SigningInit ==
    /\ papers = [p \in Papers |->
            [status |-> None, jobId |-> 0, versions |-> << >>, validated |-> 0]]
    /\ queue = << >> /\ jobCount = 0 /\ worker = None /\ deaths = 0

SigningNext ==
    \/ \E r \in Requests :
        \/ \E p \in Papers \cap scene.rows : SignStep(r, p)
        \/ MarkPending(r) \/ Enqueue(r) \/ WriteJobId(r)
    \/ WorkerStep \/ Die

=============================================================================
