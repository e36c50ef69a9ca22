----------------------------- MODULE FilesProofs -----------------------------
(***************************************************************************)
(* Proofs about stored files and the rows that refer to them, specimens,   *)
(* photos and documents, and about the papers that are signed with the     *)
(* specimens, for any rows, uploads, requests and deaths of the process.   *)
(***************************************************************************)
EXTENDS BackOfficeProofs

-----------------------------------------------------------------------------
(* The work of the handlers.                                               *)

FileIds == Nat \ {0}

\* What is to be done with a file, once it is stored.
PutAway(ids) ==
    [do : {"insertSpecimen"}, user : Users, file : ids, first : BOOLEAN]
    \cup [do : {"appendPhoto"}, vehicle : Vehicles, file : ids]
    \cup [do : {"supersede"}, vehicle : Vehicles, type : DocumentTypes, file : ids]

UploadWork ==
    [do : {"findFile", "createFile"}, user : Users, content : Contents, next : PutAway({0})]

SpecimenWork ==
    [do : {"deactivateSpecimens"}, specimen : FileIds]
    \cup [do : {"activateOne"}, specimen : FileIds, seen : SUBSET FileIds]
    \cup [do : {"deleteSpecimen"}, specimen : FileIds, file : FileIds]

VehicleWork ==
    [do : {"readPhotos"}, vehicle : Vehicles, file : FileIds]
    \cup [do : {"writePhotos"}, vehicle : Vehicles, file : FileIds, read : SUBSET FileIds]
    \cup [do : {"insertDocument"}, vehicle : Vehicles, type : DocumentTypes, file : FileIds,
          seen : SUBSET FileIds]

FileWork ==
    PutAway(FileIds) \cup UploadWork \cup SpecimenWork \cup VehicleWork
    \cup [do : {"countReferences", "deleteFile"}, file : FileIds]

DocumentsOf(v, type) ==
    {d \in DOMAIN documents : documents[d].vehicle = v /\ documents[d].type = type}

\* A handler works on specimens that were there and documents that are.
WorksOn(r) ==
    LET w == req[r]
    IN  /\ w.do \in FileWords => w \in FileWork
        /\ w.do \in {"deactivateSpecimens", "activateOne", "deleteSpecimen"} =>
            w.specimen \in DOMAIN specimens
        /\ w.do = "insertDocument" => w.seen \subseteq DocumentsOf(w.vehicle, w.type)

\* A document that was superseded has a successor.
DocumentsCurrent ==
    \A v \in Vehicles, type \in DocumentTypes :
        DocumentsOf(v, type) # {} => ActiveDocuments(v, type) # {}

\* When requests come one after the other, no two specimens of a user and no
\* two documents of a kind are active, and what a transaction has seen active
\* is all there is.
OneActive ==
    /\ \A u \in Users : \A i, j \in ActiveSpecimens(u) : i = j
    /\ \A v \in Vehicles, type \in DocumentTypes : \A d, e \in ActiveDocuments(v, type) : d = e

SeesAll(r) ==
    LET w == req[r]
    IN  /\ w.do = "activateOne" /\ specimens[w.specimen] # None =>
            ActiveSpecimens(specimens[w.specimen].user) \subseteq w.seen
        /\ w.do = "insertDocument" => ActiveDocuments(w.vehicle, w.type) \subseteq w.seen

-----------------------------------------------------------------------------
(* What files are for, when no content is uploaded for two things that are *)
(* deleted apart.                                                          *)

For(f, as) ==
    {x \in scene.uploads : Stored(f) /\ x.as = as /\ x.content = files[f].content}

RemovalWords == {"deleteTokensOf", "deleteUserRow"}

Unused(f) ==
    /\ \A v \in Vehicles : f \notin vehicles[v].photos
    /\ \A d \in DOMAIN documents : documents[d].file # f

\* An upload that the rest of the work is about.
Meant(x, w) ==
    /\ w.do = "insertSpecimen" => x.as = "specimen"
    /\ w.do = "appendPhoto" => x.as = "photo" /\ x.on = w.vehicle
    /\ w.do \in {"supersede", "insertDocument"} => x.as = "document"

Purposeful(r) ==
    LET w == req[r]
    IN  /\ w.do \in {"findFile", "createFile"} =>
            \E x \in scene.uploads : x.content = w.content /\ Meant(x, w.next)
        /\ w.do \in {"insertSpecimen", "appendPhoto", "supersede", "insertDocument"} =>
            /\ Stored(w.file)
            /\ \E x \in scene.uploads : x.content = files[w.file].content /\ Meant(x, w)
        /\ w.do = "deleteSpecimen" => For(w.file, "specimen") # {}
        /\ w.do \in {"readPhotos", "writePhotos"} =>
            \E x \in For(w.file, "photo") : x.on = w.vehicle
        /\ w.do = "writePhotos" => w.read = vehicles[w.vehicle].photos
        /\ w.do = "countReferences" => \A v \in Vehicles : w.file \notin vehicles[v].photos
        /\ w.do = "deleteFile" => Unused(w.file)

FilesOwned ==
    /\ \A d \in DOMAIN documents : For(documents[d].file, "document") # {}
    /\ \A v \in Vehicles : \A f \in vehicles[v].photos : \E x \in For(f, "photo") : x.on = v
    /\ \A i \in DOMAIN specimens : specimens[i] # None => For(specimens[i].file, "specimen") # {}

NobodyLeaves ==
    "removeUser" \notin scene.endpoints => \A r \in Requests : req[r].do \notin RemovalWords

FilesInv ==
    /\ Common /\ FilesType /\ DocumentsCurrent /\ NobodyLeaves
    /\ \A r \in Requests : WorksOn(r)
    /\ Serial => OneActive /\ \A r \in Requests : SeesAll(r)
    /\ OneToOne => FilesOwned /\ \A r \in Requests : Purposeful(r)

-----------------------------------------------------------------------------
(* The parts that leave files alone.                                       *)

LEMMA FilesElsewhere ==
    ASSUME KnownWork, [Next]_vars
    PROVE  \/ \E r \in Requests : FilesNext(r) \/ DeleteUserAndFiles(r)
           \/ UNCHANGED fileVars /\ Elsewhere(FileWords)
<1>1. CASE UNCHANGED vars
  BY <1>1 DEF vars, Elsewhere
<1>2. ASSUME NEW words \in {BudgetWords, NumbersWords, TicketWords, StockWords, AccountWords,
                            SigningWords, LeaseWords, PvWords, ReportWords}, Leaves(words)
      PROVE  Elsewhere(FileWords)
  <2>1. words \cap FileWords = {} /\ "idle" \notin FileWords
    BY DEF BudgetWords, NumbersWords, TicketWords, StockWords, AccountWords, FileWords,
           SigningWords, LeaseWords, PvWords, ReportWords
  <2>2. QED
    BY <1>2, <2>1, LeavesElsewhere
<1>3. CASE SigningStep
  BY <1>2, <1>3, SigningLeaves DEF SigningStep
<1>4. ASSUME NEW r \in Requests, BudgetStep(r) \/ TicketsStep(r) \/ StockStep(r)
      PROVE  UNCHANGED fileVars /\ Elsewhere(FileWords)
  BY <1>2, <1>4, BudgetLeaves, TicketsLeave, StockLeaves, NumbersLeave
     DEF BudgetStep, TicketsStep, StockStep
<1>5. ASSUME NEW r \in Requests, AccountsStep(r), ~(FilesNext(r) \/ DeleteUserAndFiles(r))
      PROVE  UNCHANGED fileVars /\ Elsewhere(FileWords)
  BY <1>2, <1>5, AccountsLeave DEF AccountsStep
<1>6. ASSUME NEW r \in Requests, LeasesStep(r) \/ PvStep(r) \/ OtherStep(r)
      PROVE  UNCHANGED fileVars /\ Elsewhere(FileWords)
  BY <1>2, <1>6, LeasesLeave, PvLeaves, OtherLeaves DEF LeasesStep, PvStep, OtherStep
<1>7. QED
  BY <1>1, <1>3, <1>4, <1>5, <1>6 DEF Next, AccountsStep

\* Without removeUser nobody is being removed.
LEMMA RemovalElsewhere ==
    ASSUME KnownWork, [Next]_vars
    PROVE  (\E r \in Requests : AccountsNext(r) /\ ByOne(r)) \/ Elsewhere(RemovalWords)
<1>1. CASE UNCHANGED vars
  BY <1>1 DEF vars, Elsewhere
<1>2. ASSUME NEW words \in {BudgetWords, NumbersWords, TicketWords, StockWords, FileWords,
                            SigningWords, LeaseWords, PvWords, ReportWords}, Leaves(words)
      PROVE  Elsewhere(RemovalWords)
  <2>1. words \cap RemovalWords = {} /\ "idle" \notin RemovalWords
    BY DEF BudgetWords, NumbersWords, TicketWords, StockWords, FileWords, RemovalWords,
           SigningWords, LeaseWords, PvWords, ReportWords
  <2>2. QED
    BY <1>2, <2>1, LeavesElsewhere
<1>3. CASE SigningStep
  BY <1>2, <1>3, SigningLeaves DEF SigningStep
<1>4. ASSUME NEW r \in Requests, BudgetStep(r) \/ TicketsStep(r) \/ StockStep(r)
      PROVE  Elsewhere(RemovalWords)
  BY <1>2, <1>4, BudgetLeaves, TicketsLeave, StockLeaves, NumbersLeave
     DEF BudgetStep, TicketsStep, StockStep
<1>5. ASSUME NEW r \in Requests, AccountsStep(r), ~AccountsNext(r)
      PROVE  Elsewhere(RemovalWords)
  <2>1. CASE DeleteUserRow(r)
    <3>1. Done(r)
      BY <2>1 DEF DeleteUserRow
    <3>2. Leaves(ReportWords)
      BY <3>1, DoneLeaves
    <3>3. QED
      BY <1>2, <3>2
  <2>2. QED
    BY <1>2, <1>5, <2>1, FilesLeave DEF AccountsStep, DeleteUserAndFiles
<1>6. ASSUME NEW r \in Requests, LeasesStep(r) \/ PvStep(r) \/ OtherStep(r)
      PROVE  Elsewhere(RemovalWords)
  BY <1>2, <1>6, LeasesLeave, PvLeaves, OtherLeaves DEF LeasesStep, PvStep, OtherStep
<1>7. QED
  BY <1>1, <1>3, <1>4, <1>5, <1>6, AccountsByOne DEF Next

LEMMA NobodyLeavesKept ==
    ASSUME Common, NobodyLeaves, [Next]_vars
    PROVE  NobodyLeaves'
<1>1. KnownWork /\ scene' = scene
  BY StepsKeepCommon DEF Common
<1>2. SUFFICES ASSUME "removeUser" \notin scene.endpoints, NEW q \in Requests
               PROVE  req'[q].do \notin RemovalWords
  BY <1>1 DEF NobodyLeaves
<1>3. req[q].do \notin RemovalWords
  BY <1>2 DEF NobodyLeaves
<1>4. CASE Elsewhere(RemovalWords)
  BY <1>3, <1>4 DEF Elsewhere
<1>5. ASSUME NEW r \in Requests, AccountsNext(r), ByOne(r)
      PROVE  req'[q].do \notin RemovalWords
  <2>1. q # r => req'[q].do \notin RemovalWords
    BY <1>3, <1>5 DEF ByOne
  <2> SUFFICES req'[r].do \notin RemovalWords
    BY <2>1
  <2>2. ASSUME NEW w, Await(r, w), w.do \notin RemovalWords
        PROVE  req'[r].do \notin RemovalWords
    BY <1>1, <2>2 DEF Await, KnownWork
  <2>3. Done(r) => req'[r].do \notin RemovalWords
    BY <2>2 DEF Done, Idle, RemovalWords
  <2>4. req[r].do \notin RemovalWords
    BY <1>2 DEF NobodyLeaves
  <2>5. ASSUME NEW u, CreateUser(r, u) \/ Login(r, u) \/ LogoutAll(r, u) \/ ToggleActive(r, u)
        PROVE  req'[r].do \notin RemovalWords
    BY <2>2, <2>4, <2>5 DEF CreateUser, Login, LogoutAll, ToggleActive, RemovalWords
  <2>6. ASSUME NEW u, Refresh(r, u) \/ Logout(r, u) \/ ChangePassword(r, u)
        PROVE  req'[r].do \notin RemovalWords
    <3>1. CASE Refresh(r, u)
      <4>1. PICK i : Await(r, [do |-> "storeToken", user |-> u, replaces |-> i,
                               session |-> tokens[i].session, password |-> tokens[i].password])
        BY <3>1 DEF Refresh
      <4>2. QED
        BY <2>2, <4>1 DEF RemovalWords
    <3>2. CASE Logout(r, u)
      <4>1. PICK i : Await(r, [do |-> "revokeToken", token |-> i])
        BY <3>2 DEF Logout
      <4>2. QED
        BY <2>2, <4>1 DEF RemovalWords
    <3>3. CASE ChangePassword(r, u)
      <4>1. PICK after : Await(r, [do |-> "writePassword", user |-> u, after |-> after])
        BY <3>3 DEF ChangePassword
      <4>2. QED
        BY <2>2, <4>1 DEF RemovalWords
    <3>4. QED
      BY <2>6, <3>1, <3>2, <3>3
  <2>7. CASE WritePassword(r)
    <3>1. Done(r) \/ Await(r, [do |-> req[r].after, user |-> req[r].user])
      BY <2>7 DEF WritePassword
    <3>2. req[r].after \in {"revokeTokens", "deleteTokens"}
      BY <1>1, <2>7 DEF WritePassword, KnownWork
    <3>3. QED
      BY <2>2, <2>3, <3>1, <3>2 DEF RemovalWords
  <2>8. CASE StoreToken(r)
    <3>1. Done(r) \/ Await(r, [do |-> "revokeToken", token |-> req[r].replaces])
      BY <2>8 DEF StoreToken
    <3>2. QED
      BY <2>2, <2>3, <3>1 DEF RemovalWords
  <2>9. CASE InsertUser(r) \/ RevokeToken(r) \/ RevokeTokens(r) \/ DeleteTokens(r) \/ WriteActive(r)
    BY <2>3, <2>9 DEF InsertUser, RevokeToken, RevokeTokens, DeleteTokens, WriteActive
  <2>10. ~DeleteTokensOf(r) /\ (Expire => req'[r].do \notin RemovalWords)
    BY <2>4 DEF DeleteTokensOf, RemovalWords, Expire
  <2>11. \A u : ~RemoveUser(r, u)
    BY <1>2 DEF RemoveUser, AccountCalled, Free
  <2>12. QED
    BY <1>5, <2>5, <2>6, <2>7, <2>8, <2>9, <2>10, <2>11 DEF AccountsNext
<1>6. QED
  BY <1>1, <1>4, <1>5, RemovalElsewhere

LEMMA FilesStart ==
    ASSUME Init
    PROVE  FilesInv
<1>1. Common /\ \A r \in Requests : req[r] = Idle
  BY StartCommon, StartKnown
<1>2. /\ files = << >> /\ optimizing = {} /\ specimens = << >> /\ documents = << >>
      /\ vehicles = [v \in Vehicles |-> [archived |-> FALSE, photos |-> {}]]
  BY DEF Init, FilesInit
<1>3. FilesType /\ DocumentsCurrent /\ OneActive /\ FilesOwned
  BY <1>2 DEF FilesType, DocumentsCurrent, DocumentsOf, OneActive, ActiveSpecimens, SpecimensOf,
              ActiveDocuments, FilesOwned, Vehicle
<1>4. \A r \in Requests : WorksOn(r) /\ SeesAll(r) /\ Purposeful(r)
  BY <1>1 DEF WorksOn, SeesAll, Purposeful, Idle, FileWords
<1>5. NobodyLeaves
  BY <1>1 DEF NobodyLeaves, Idle, RemovalWords
<1>6. QED
  BY <1>1, <1>3, <1>4, <1>5 DEF FilesInv

-----------------------------------------------------------------------------
(* One step of one request.                                                *)

\* Nothing that a handler works on is taken away by the others' steps.
Grows ==
    /\ DOMAIN specimens \subseteq DOMAIN specimens'
    /\ \A v \in Vehicles, type \in DocumentTypes : DocumentsOf(v, type) \subseteq DocumentsOf(v, type)'

LEMMA WorkStays ==
    ASSUME NEW r \in Requests, WorksOn(r), req'[r] = req[r], Grows
    PROVE  WorksOn(r)'
<1>1. CASE req[r].do = "insertDocument"
  <2>1. req[r] \in FileWork
    BY <1>1 DEF WorksOn, FileWords
  <2>2. req[r].vehicle \in Vehicles /\ req[r].type \in DocumentTypes
    BY <1>1, <2>1 DEF FileWork, PutAway, UploadWork, SpecimenWork, VehicleWork
  <2>3. PICK v \in Vehicles, type \in DocumentTypes : v = req[r].vehicle /\ type = req[r].type
    BY <2>2
  <2>4. DocumentsOf(v, type) \subseteq DocumentsOf(v, type)'
    BY DEF Grows
  <2>5. req[r].seen \subseteq DocumentsOf(v, type)
    BY <1>1, <2>3 DEF WorksOn
  <2>6. req'[r].seen \subseteq DocumentsOf(v, type)'
    BY <2>4, <2>5
  <2>7. QED
    BY <1>1, <2>1, <2>3, <2>6 DEF WorksOn
<1>2. CASE req[r].do # "insertDocument"
  BY <1>2 DEF WorksOn, Grows
<1>3. QED
  BY <1>1, <1>2

LEMMA FilesLater ==
    ASSUME FilesInv, Common', scene' = scene, NobodyLeaves', NEW r \in Requests,
           req[r] # Idle \/ r \in scene.requests,
           \A q \in Requests \ {r} : req'[q] = req[q],
           FilesType', DocumentsCurrent', Grows, WorksOn(r)',
           Serial => OneActive' /\ SeesAll(r)',
           OneToOne => FilesOwned' /\ Purposeful(r)'
    PROVE  FilesInv'
<1>1. (Serial' <=> Serial) /\ (OneToOne' <=> OneToOne)
  BY DEF Serial, OneToOne, Shared
<1>2. \A q \in Requests \ {r} : WorksOn(q)'
  BY WorkStays DEF FilesInv
<1>3. ASSUME Serial
      PROVE  \A q \in Requests \ {r} : SeesAll(q)' /\ Purposeful(q)'
  <2>1. \A q \in Requests \ {r} : req'[q] = Idle
    BY <1>3, SerialAlone DEF FilesInv
  <2>2. QED
    BY <2>1 DEF SeesAll, Purposeful, Idle
<1>4. OneToOne => Serial
  BY DEF OneToOne
<1>5. QED
  BY <1>1, <1>2, <1>3, <1>4 DEF FilesInv

\* The steps that read the rows, and say what to do about them.
LEMMA FilesRead ==
    ASSUME FilesInv, Common', scene' = scene, NobodyLeaves', NEW r \in Requests,
           req[r] # Idle \/ r \in scene.requests,
           \A q \in Requests \ {r} : req'[q] = req[q], UNCHANGED fileVars,
           WorksOn(r)', Serial => SeesAll(r)', OneToOne => Purposeful(r)'
    PROVE  FilesInv'
<1>1. UNCHANGED << files, optimizing, specimens, vehicles, documents >>
  BY DEF fileVars
<1>2. FilesType' /\ Grows
  BY <1>1 DEF FilesInv, FilesType, Grows, DocumentsOf
<1>3. DocumentsCurrent' /\ (OneActive => OneActive') /\ (FilesOwned => FilesOwned')
  BY <1>1 DEF FilesInv, DocumentsCurrent, DocumentsOf, ActiveDocuments, OneActive, ActiveSpecimens,
              SpecimensOf, FilesOwned, For, Stored
<1>4. QED
  BY <1>2, <1>3, FilesLater DEF FilesInv

LEMMA AwaitOne ==
    ASSUME FilesInv, NEW r \in Requests, NEW w, Await(r, w)
    PROVE  req'[r] = w /\ \A q \in Requests \ {r} : req'[q] = req[q]
BY DEF Await, FilesInv, Common, KnownWork

LEMMA ScenesUploads ==
    ASSUME FilesInv
    PROVE  scene.uploads \subseteq UploadedFile
BY ScenesAssumption DEF FilesInv, Common

\* A request that ends, or goes on to the work of another part.
LEMMA NoFileWork ==
    ASSUME NEW r \in Requests, req'[r].do \notin FileWords
    PROVE  WorksOn(r)' /\ SeesAll(r)' /\ Purposeful(r)'
BY DEF WorksOn, SeesAll, Purposeful, FileWords

LEMMA UploadsKeep ==
    ASSUME FilesInv, Common', scene' = scene, NobodyLeaves', NEW r \in Requests,
           UploadSpecimen(r) \/ \E v \in Vehicles : UploadPhoto(r, v) \/ UploadDocument(r, v)
    PROVE  FilesInv'
<1>1. UNCHANGED fileVars /\ r \in scene.requests
  BY DEF UploadSpecimen, UploadPhoto, UploadDocument, FileCalled, Free
<1>2. ASSUME NEW x \in scene.uploads, NEW next \in PutAway({0}), Meant(x, next),
             StoreFile(r, x.user, x.content, next)
      PROVE  FilesInv'
  <2> DEFINE w == [do |-> "findFile", user |-> x.user, content |-> x.content, next |-> next]
  <2>1. req'[r] = w /\ \A q \in Requests \ {r} : req'[q] = req[q]
    BY <1>2, AwaitOne DEF StoreFile
  <2>2. x.user \in Users /\ x.content \in Contents
    BY ScenesUploads DEF UploadedFile
  <2>3. w \in FileWork
    BY <2>2 DEF FileWork, UploadWork
  <2>4. WorksOn(r)'
    BY <2>1, <2>3 DEF WorksOn
  <2>5. SeesAll(r)'
    BY <2>1 DEF SeesAll
  <2>6. Purposeful(r)'
    <3>1. req'[r].do = "findFile" /\ req'[r].content = x.content /\ req'[r].next = next
      BY <2>1
    <3>2. Meant(x, next)' <=> Meant(x, next)
      BY DEF Meant
    <3>3. QED
      BY <1>2, <3>1, <3>2 DEF Purposeful, Meant
  <2>7. QED
    BY <1>1, <2>1, <2>4, <2>5, <2>6, FilesRead
<1>3. CASE UploadSpecimen(r)
  <2>1. PICK x \in Uploads("specimen"), first \in BOOLEAN :
            StoreFile(r, x.user, x.content,
                      [do |-> "insertSpecimen", user |-> x.user, file |-> 0, first |-> first])
    BY <1>3 DEF UploadSpecimen
  <2>2. x \in scene.uploads /\ x.as = "specimen" /\ x.user \in Users
    BY ScenesUploads DEF Uploads, UploadedFile
  <2> DEFINE next == [do |-> "insertSpecimen", user |-> x.user, file |-> 0, first |-> first]
  <2>3. next \in PutAway({0}) /\ Meant(x, next)
    BY <2>2 DEF PutAway, Meant
  <2>4. QED
    BY <1>2, <2>1, <2>2, <2>3
<1>4. ASSUME NEW v \in Vehicles, UploadPhoto(r, v)
      PROVE  FilesInv'
  <2>1. PICK x \in Uploads("photo") :
            x.on = v /\ StoreFile(r, x.user, x.content, [do |-> "appendPhoto", vehicle |-> v, file |-> 0])
    BY <1>4 DEF UploadPhoto
  <2> DEFINE next == [do |-> "appendPhoto", vehicle |-> v, file |-> 0]
  <2>2. x \in scene.uploads /\ next \in PutAway({0}) /\ Meant(x, next)
    BY <2>1 DEF PutAway, Meant, Uploads
  <2>3. QED
    BY <1>2, <2>1, <2>2
<1>5. ASSUME NEW v \in Vehicles, UploadDocument(r, v)
      PROVE  FilesInv'
  <2>1. PICK x \in Uploads("document"), type \in DocumentTypes :
            StoreFile(r, x.user, x.content,
                      [do |-> "supersede", vehicle |-> v, type |-> type, file |-> 0])
    BY <1>5 DEF UploadDocument
  <2> DEFINE next == [do |-> "supersede", vehicle |-> v, type |-> type, file |-> 0]
  <2>2. x \in scene.uploads /\ next \in PutAway({0}) /\ Meant(x, next)
    BY <2>1 DEF PutAway, Meant, Uploads
  <2>3. QED
    BY <1>2, <2>1, <2>2
<1>6. QED
  BY <1>3, <1>4, <1>5

\* A handler that goes on with w, without a change of the rows.
LEMMA ReadsKeep ==
    ASSUME FilesInv, Common', scene' = scene, NobodyLeaves', NEW r \in Requests, NEW w \in FileWork,
           req[r] # Idle \/ r \in scene.requests, Await(r, w), UNCHANGED fileVars,
           w.do \in {"deactivateSpecimens", "activateOne", "deleteSpecimen"} =>
                w.specimen \in DOMAIN specimens,
           w.do = "insertDocument" =>
                /\ w.seen \subseteq DocumentsOf(w.vehicle, w.type)
                /\ Serial => ActiveDocuments(w.vehicle, w.type) \subseteq w.seen,
           w.do = "activateOne" /\ Serial =>
                ActiveSpecimens(specimens[w.specimen].user) \subseteq w.seen,
           OneToOne => Purposeful(r)'
    PROVE  FilesInv'
<1>1. req'[r] = w /\ \A q \in Requests \ {r} : req'[q] = req[q]
  BY AwaitOne
<1>2. UNCHANGED << files, optimizing, specimens, vehicles, documents >>
  BY DEF fileVars
<1>3. WorksOn(r)'
  BY <1>1, <1>2 DEF WorksOn, DocumentsOf
<1>4. Serial => SeesAll(r)'
  BY <1>1, <1>2 DEF SeesAll, ActiveSpecimens, SpecimensOf, ActiveDocuments
<1>5. QED
  BY <1>1, <1>3, <1>4, FilesRead

LEMMA SpecimenCallsKeep ==
    ASSUME FilesInv, Common', scene' = scene, NobodyLeaves', NEW r \in Requests,
           ActivateSpecimen(r) \/ RemoveSpecimen(r)
    PROVE  FilesInv'
<1>1. UNCHANGED fileVars /\ r \in scene.requests
  BY DEF ActivateSpecimen, RemoveSpecimen, FileCalled, Free
<1>2. ASSUME NEW u \in Users, NEW i \in SpecimensOf(u)
      PROVE  /\ i \in DOMAIN specimens /\ specimens[i] \in Specimen /\ i \in FileIds
             /\ specimens[i].file \in FileIds /\ specimens[i] # None
  BY <1>2 DEF SpecimensOf, FilesInv, FilesType, Specimen, FileIds
<1>3. CASE ActivateSpecimen(r)
  <2>1. PICK u \in Users : \E i \in SpecimensOf(u) :
            Await(r, [do |-> "deactivateSpecimens", specimen |-> i])
    BY <1>3 DEF ActivateSpecimen
  <2>2. PICK i \in SpecimensOf(u) : Await(r, [do |-> "deactivateSpecimens", specimen |-> i])
    BY <2>1
  <2> DEFINE w == [do |-> "deactivateSpecimens", specimen |-> i]
  <2>3. w \in FileWork
    BY <1>2 DEF FileWork, SpecimenWork
  <2>4. Purposeful(r)'
    BY <2>2, AwaitOne DEF Purposeful
  <2>5. QED
    BY <1>1, <1>2, <2>2, <2>3, <2>4, ReadsKeep
<1>4. CASE RemoveSpecimen(r)
  <2>1. PICK u \in Users : \E i \in SpecimensOf(u) :
            Await(r, [do |-> "deleteSpecimen", specimen |-> i, file |-> specimens[i].file])
    BY <1>4 DEF RemoveSpecimen
  <2>2. PICK i \in SpecimensOf(u) :
            Await(r, [do |-> "deleteSpecimen", specimen |-> i, file |-> specimens[i].file])
    BY <2>1
  <2> DEFINE w == [do |-> "deleteSpecimen", specimen |-> i, file |-> specimens[i].file]
  <2>3. w \in FileWork
    BY <1>2 DEF FileWork, SpecimenWork
  <2>4. ASSUME OneToOne
        PROVE  Purposeful(r)'
    <3>1. For(specimens[i].file, "specimen") # {}
      BY <1>2, <2>4 DEF FilesInv, FilesOwned
    <3>2. For(specimens[i].file, "specimen")' = For(specimens[i].file, "specimen")
      BY <1>1 DEF For, Stored, fileVars
    <3>3. req'[r] = w
      BY <2>2, AwaitOne
    <3>4. specimens' = specimens
      BY <1>1 DEF fileVars
    <3>5. QED
      BY <3>1, <3>2, <3>3, <3>4 DEF Purposeful
  <2>5. QED
    BY <1>1, <1>2, <2>2, <2>3, <2>4, ReadsKeep
<1>5. QED
  BY <1>3, <1>4

LEMMA DeletePhotoKeeps ==
    ASSUME FilesInv, Common', scene' = scene, NobodyLeaves', NEW r \in Requests,
           NEW v \in Vehicles, DeletePhoto(r, v)
    PROVE  FilesInv'
<1>1. UNCHANGED fileVars /\ r \in scene.requests
  BY DEF DeletePhoto, FileCalled, Free
<1>2. PICK f \in vehicles[v].photos : Await(r, [do |-> "readPhotos", vehicle |-> v, file |-> f])
  BY DEF DeletePhoto
<1> DEFINE w == [do |-> "readPhotos", vehicle |-> v, file |-> f]
<1>3. w \in FileWork
  BY DEF FilesInv, FilesType, Vehicle, FileWork, VehicleWork, FileIds
<1>4. ASSUME OneToOne
      PROVE  Purposeful(r)'
  <2>1. \E x \in For(f, "photo") : x.on = v
    BY <1>4 DEF FilesInv, FilesOwned
  <2>2. For(f, "photo")' = For(f, "photo")
    BY <1>1 DEF For, Stored, fileVars
  <2>3. req'[r] = w
    BY <1>2, AwaitOne
  <2>4. req'[r].do = "readPhotos" /\ req'[r].vehicle = v /\ req'[r].file = f
    BY <2>3
  <2>5. QED
    BY <2>1, <2>2, <2>4 DEF Purposeful
<1>5. QED
  BY <1>1, <1>2, <1>3, <1>4, ReadsKeep

LEMMA ReadPhotosKeeps ==
    ASSUME FilesInv, Common', scene' = scene, NobodyLeaves', NEW r \in Requests, ReadPhotos(r)
    PROVE  FilesInv'
<1>1. UNCHANGED fileVars /\ req[r].do = "readPhotos" /\ req[r] # Idle
  BY DEF ReadPhotos, Idle
<1>2. PICK v \in Vehicles, f \in FileIds : v = req[r].vehicle /\ f = req[r].file
  <2>1. req[r] \in FileWork
    BY <1>1 DEF FilesInv, WorksOn, FileWords
  <2>2. QED
    BY <1>1, <2>1 DEF FileWork, PutAway, UploadWork, SpecimenWork, VehicleWork
<1> DEFINE w == [do |-> "writePhotos", vehicle |-> v, file |-> f, read |-> vehicles[v].photos]
<1>3. w \in FileWork
  <2>1. vehicles[v].photos \in SUBSET FileIds
    BY DEF FilesInv, FilesType, Vehicle, FileIds
  <2>2. QED
    BY <2>1 DEF FileWork, VehicleWork
<1>4. Await(r, w)
  BY <1>2 DEF ReadPhotos
<1>5. ASSUME OneToOne
      PROVE  Purposeful(r)'
  <2>1. \E x \in For(f, "photo") : x.on = v
    BY <1>1, <1>2, <1>5 DEF FilesInv, Purposeful
  <2>2. For(f, "photo")' = For(f, "photo")
    BY <1>1 DEF For, Stored, fileVars
  <2>3. req'[r] = w
    BY <1>4, AwaitOne
  <2>4. /\ req'[r].do = "writePhotos" /\ req'[r].vehicle = v /\ req'[r].file = f
        /\ req'[r].read = vehicles'[v].photos
    BY <1>1, <2>3 DEF fileVars
  <2>5. QED
    BY <2>1, <2>2, <2>4 DEF Purposeful
<1>6. QED
  BY <1>1, <1>3, <1>4, <1>5, ReadsKeep

LEMMA CountReferencesKeeps ==
    ASSUME FilesInv, Common', scene' = scene, NobodyLeaves', NEW r \in Requests, CountReferences(r)
    PROVE  FilesInv'
<1>1. UNCHANGED fileVars /\ req[r].do = "countReferences" /\ req[r] # Idle
  BY DEF CountReferences, Idle
<1>2. CASE Done(r)
  <2>1. req'[r] = Idle /\ \A q \in Requests \ {r} : req'[q] = req[q]
    BY <1>2, AwaitOne DEF Done
  <2>2. req'[r].do \notin FileWords
    BY <2>1 DEF Idle, FileWords
  <2>3. QED
    BY <1>1, <2>1, <2>2, NoFileWork, FilesRead
<1>3. CASE ~Done(r)
  <2>1. PICK f \in FileIds : f = req[r].file
    <3>1. req[r] \in FileWork
      BY <1>1 DEF FilesInv, WorksOn, FileWords
    <3>2. QED
      BY <1>1, <3>1 DEF FileWork, PutAway, UploadWork, SpecimenWork, VehicleWork
  <2> DEFINE w == [do |-> "deleteFile", file |-> f]
  <2>2. Await(r, w) /\ ReferringDocuments(f) = {}
    BY <1>3, <2>1 DEF CountReferences
  <2>3. w \in FileWork
    BY DEF FileWork
  <2>4. ASSUME OneToOne
        PROVE  Purposeful(r)'
    <3>1. \A v \in Vehicles : f \notin vehicles[v].photos
      BY <1>1, <2>1, <2>4 DEF FilesInv, Purposeful
    <3>2. Unused(f)
      BY <2>2, <3>1 DEF Unused, ReferringDocuments
    <3>3. vehicles' = vehicles /\ documents' = documents
      BY <1>1 DEF fileVars
    <3>4. Unused(f)'
      BY <3>2, <3>3 DEF Unused
    <3>5. req'[r] = w
      BY <2>2, AwaitOne
    <3>6. req'[r].do = "deleteFile" /\ req'[r].file = f
      BY <3>5
    <3>7. QED
      BY <3>4, <3>6 DEF Purposeful, Unused
  <2>5. QED
    BY <1>1, <2>2, <2>3, <2>4, ReadsKeep
<1>4. QED
  BY <1>2, <1>3

\* What the fields of a handler's work are.
LEMMA WorkFields ==
    ASSUME FilesInv, NEW r \in Requests, req[r].do \in FileWords
    PROVE  LET w == req[r]
           IN  /\ w.do \in {"findFile", "createFile"} =>
                    /\ w.user \in Users /\ w.content \in Contents /\ w.next \in PutAway({0})
                    /\ w \in UploadWork
               /\ w.do \notin {"findFile", "createFile", "deactivateSpecimens", "activateOne"} =>
                    w.file \in FileIds
               /\ w.do = "insertSpecimen" => w.user \in Users /\ w.first \in BOOLEAN
               /\ w.do \in {"appendPhoto", "supersede", "insertDocument", "readPhotos",
                            "writePhotos"} => w.vehicle \in Vehicles
               /\ w.do \in {"supersede", "insertDocument"} => w.type \in DocumentTypes
               /\ w.do \in {"activateOne", "insertDocument"} => w.seen \in SUBSET FileIds
               /\ w.do = "writePhotos" => w.read \in SUBSET FileIds
<1>1. req[r] \in FileWork
  BY DEF FilesInv, WorksOn
<1>2. QED
  BY <1>1 DEF FileWork, PutAway, UploadWork, SpecimenWork, VehicleWork, FileWords

LEMMA SupersedeKeeps ==
    ASSUME FilesInv, Common', scene' = scene, NobodyLeaves', NEW r \in Requests, Supersede(r)
    PROVE  FilesInv'
<1>1. UNCHANGED fileVars /\ req[r].do = "supersede" /\ req[r] # Idle
  BY DEF Supersede, Idle
<1>2. PICK v \in Vehicles, type \in DocumentTypes, f \in FileIds :
        v = req[r].vehicle /\ type = req[r].type /\ f = req[r].file
  BY <1>1, WorkFields DEF FileWords
<1> DEFINE w == [do |-> "insertDocument", vehicle |-> v, type |-> type, file |-> f,
                 seen |-> ActiveDocuments(v, type)]
<1>3. Await(r, w)
  BY <1>2 DEF Supersede
<1>4. ActiveDocuments(v, type) \subseteq DocumentsOf(v, type)
      /\ ActiveDocuments(v, type) \in SUBSET FileIds
  BY DEF ActiveDocuments, DocumentsOf, FilesInv, FilesType, FileIds
<1>5. w \in FileWork
  BY <1>4 DEF FileWork, VehicleWork
<1>6. ASSUME OneToOne
      PROVE  Purposeful(r)'
  <2>1. Stored(f) /\ \E x \in scene.uploads : x.content = files[f].content /\ x.as = "document"
    BY <1>1, <1>2, <1>6 DEF FilesInv, Purposeful, Meant
  <2>2. req'[r] = w
    BY <1>3, AwaitOne
  <2>3. req'[r].do = "insertDocument" /\ req'[r].file = f
    BY <2>2
  <2>4. Stored(f)' /\ files' = files
    BY <1>1, <2>1 DEF Stored, fileVars
  <2>5. QED
    BY <2>1, <2>3, <2>4 DEF Purposeful, Meant
<1>7. QED
  BY <1>1, <1>3, <1>4, <1>5, <1>6, ReadsKeep

LEMMA DeactivateSpecimensKeeps ==
    ASSUME FilesInv, Common', scene' = scene, NobodyLeaves', NEW r \in Requests,
           DeactivateSpecimens(r)
    PROVE  FilesInv'
<1>1. UNCHANGED fileVars /\ req[r].do = "deactivateSpecimens" /\ req[r] # Idle
  BY DEF DeactivateSpecimens, Idle
<1>2. PICK i \in DOMAIN specimens : i = req[r].specimen
  BY <1>1 DEF FilesInv, WorksOn
<1>3. CASE Done(r)
  <2>1. req'[r] = Idle /\ \A q \in Requests \ {r} : req'[q] = req[q]
    BY <1>3, AwaitOne DEF Done
  <2>2. req'[r].do \notin FileWords
    BY <2>1 DEF Idle, FileWords
  <2>3. QED
    BY <1>1, <2>1, <2>2, NoFileWork, FilesRead
<1>4. CASE ~Done(r)
  <2> DEFINE seen == ActiveSpecimens(specimens[i].user)
             w == [do |-> "activateOne", specimen |-> i, seen |-> seen]
  <2>1. Await(r, w)
    BY <1>2, <1>4 DEF DeactivateSpecimens
  <2>2. w \in FileWork
    <3>1. i \in FileIds /\ seen \in SUBSET FileIds
      BY DEF ActiveSpecimens, SpecimensOf, FilesInv, FilesType, FileIds
    <3>2. QED
      BY <3>1 DEF FileWork, SpecimenWork
  <2>3. Purposeful(r)'
    BY <2>1, AwaitOne DEF Purposeful
  <2>4. QED
    BY <1>1, <2>1, <2>2, <2>3, ReadsKeep
<1>5. QED
  BY <1>3, <1>4

-----------------------------------------------------------------------------
(* Files are stored, optimised and deleted.                                *)

\* Files come and are optimised, and stay what they are for.
FilesGrow ==
    /\ files' \in Seq(File \cup {None}) /\ optimizing' \subseteq DOMAIN files'
    /\ UNCHANGED << specimens, vehicles, documents >>
    /\ \A f \in DOMAIN files : files[f] # None =>
        f \in DOMAIN files' /\ files'[f] # None /\ files'[f].content = files[f].content

LEMMA GrowKeeps ==
    ASSUME FilesInv, FilesGrow, scene' = scene
    PROVE  /\ FilesType' /\ Grows /\ DocumentsCurrent'
           /\ OneActive => OneActive'
           /\ FilesOwned => FilesOwned'
           /\ \A f : Stored(f) => Stored(f)' /\ files'[f].content = files[f].content
           /\ \A f, as : For(f, as) \subseteq For(f, as)'
<1>1. \A f : Stored(f) => Stored(f)' /\ files'[f].content = files[f].content
  BY DEF FilesGrow, Stored
<1>2. \A f, as : For(f, as) \subseteq For(f, as)'
  BY <1>1 DEF For
<1>3. documents' = documents /\ vehicles' = vehicles /\ specimens' = specimens
  BY DEF FilesGrow
<1>4. FilesType' /\ Grows
  BY <1>3 DEF FilesGrow, FilesInv, FilesType, Grows, DocumentsOf
<1>5. /\ \A v, type : DocumentsOf(v, type)' = DocumentsOf(v, type)
                     /\ ActiveDocuments(v, type)' = ActiveDocuments(v, type)
      /\ \A u : ActiveSpecimens(u)' = ActiveSpecimens(u)
  BY <1>3 DEF DocumentsOf, ActiveDocuments, ActiveSpecimens, SpecimensOf
<1>6. DocumentsCurrent' /\ (OneActive => OneActive')
  BY <1>5 DEF FilesInv, DocumentsCurrent, OneActive
<1>7. ASSUME FilesOwned
      PROVE  FilesOwned'
  <2>1. ASSUME NEW d \in DOMAIN documents, NEW f, f = documents[d].file
        PROVE  For(f, "document")' # {} /\ f = documents'[d].file
    BY <1>2, <1>3, <1>7, <2>1 DEF FilesOwned
  <2>2. ASSUME NEW v \in Vehicles, NEW f \in vehicles[v].photos
        PROVE  \E x \in For(f, "photo")' : x.on = v
    BY <1>2, <1>7 DEF FilesOwned
  <2>3. ASSUME NEW i \in DOMAIN specimens, specimens[i] # None, NEW f, f = specimens[i].file
        PROVE  For(f, "specimen")' # {} /\ f = specimens'[i].file
    BY <1>2, <1>3, <1>7, <2>3 DEF FilesOwned
  <2>4. QED
    BY <1>3, <2>1, <2>2, <2>3 DEF FilesOwned
<1>8. QED
  BY <1>1, <1>2, <1>4, <1>6, <1>7

\* The file is there, for what it was uploaded for: so is what comes next.
LEMMA PutAwayNext ==
    ASSUME FilesInv, FilesGrow, Common', scene' = scene, NobodyLeaves', NEW r \in Requests,
           req[r].do \in {"findFile", "createFile"},
           NEW f \in FileIds, Await(r, [req[r].next EXCEPT !.file = f]),
           Stored(f)' /\ files'[f].content = req[r].content
    PROVE  FilesInv'
<1>1. PICK next \in PutAway({0}) : next = req[r].next
  BY WorkFields DEF FileWords
<1> DEFINE w == [next EXCEPT !.file = f]
<1>2. req'[r] = w /\ \A q \in Requests \ {r} : req'[q] = req[q]
  BY <1>1, AwaitOne
<1>3. w \in PutAway(FileIds) /\ w.file = f /\ w.do = next.do
      /\ (next.do # "insertSpecimen" => w.vehicle = next.vehicle)
  BY DEF PutAway
<1>4. w.do \in {"insertSpecimen", "appendPhoto", "supersede"}
  BY <1>3 DEF PutAway
<1> HIDE DEF w
<1>5. WorksOn(r)' /\ SeesAll(r)'
  BY <1>2, <1>3, <1>4 DEF WorksOn, SeesAll, FileWork
<1>6. ASSUME OneToOne
      PROVE  Purposeful(r)'
  <2>1. PICK x \in scene.uploads : x.content = req[r].content /\ Meant(x, next)
    BY <1>1, <1>6 DEF FilesInv, Purposeful
  <2>2. Meant(x, w)
    BY <1>3, <1>4, <2>1 DEF Meant
  <2>3. req'[r].file = f /\ req'[r].do = w.do
    BY <1>2, <1>3
  <2>4. x.content = files'[req'[r].file].content /\ Meant(x, req[r])'
    BY <1>2, <2>1, <2>2, <2>3 DEF Meant
  <2>5. Stored(req[r].file)'
    BY <2>3 DEF Stored
  <2>6. QED
    BY <1>4, <2>3, <2>4, <2>5 DEF Purposeful
<1>7. req[r] # Idle
  BY DEF Idle
<1>8. QED
  BY <1>2, <1>5, <1>6, <1>7, GrowKeeps, FilesLater DEF FilesInv

LEMMA FindFileKeeps ==
    ASSUME FilesInv, Common', scene' = scene, NobodyLeaves', NEW r \in Requests, FindFile(r)
    PROVE  FilesInv'
<1>1. UNCHANGED fileVars /\ req[r].do = "findFile" /\ req[r] # Idle
  BY DEF FindFile, Idle
<1>2. req[r] \in UploadWork
  BY <1>1, WorkFields DEF FileWords
<1>3. ASSUME NEW f \in StoredBy(req[r].user), files[f].content = req[r].content,
             Await(r, [req[r].next EXCEPT !.file = f])
      PROVE  FilesInv'
  <2>1. FilesGrow
    BY <1>1 DEF FilesGrow, FilesInv, FilesType, fileVars
  <2>2. f \in FileIds /\ Stored(f)
    BY DEF StoredBy, FilesInv, FilesType, FileIds
  <2>3. Stored(f)' /\ files'[f].content = req[r].content
    BY <1>1, <1>3, <2>2 DEF Stored, fileVars
  <2>4. QED
    BY <1>1, <1>3, <2>1, <2>2, <2>3, PutAwayNext
<1>4. ASSUME Await(r, [req[r] EXCEPT !.do = "createFile"])
      PROVE  FilesInv'
  <2>1. PICK old \in UploadWork : old = req[r] /\ old.do = "findFile"
    BY <1>1, <1>2
  <2> DEFINE w == [old EXCEPT !.do = "createFile"]
  <2>2. /\ w \in UploadWork /\ w.do = "createFile" /\ w.content = old.content
        /\ w.next = old.next
    BY DEF UploadWork
  <2> HIDE DEF w
  <2>3. w \in FileWork /\ Await(r, w)
    BY <1>4, <2>1, <2>2 DEF FileWork, w
  <2>4. ASSUME OneToOne
        PROVE  Purposeful(r)'
    <3>1. \E x \in scene.uploads : x.content = old.content /\ Meant(x, old.next)
      BY <2>1, <2>4 DEF FilesInv, Purposeful
    <3>2. req'[r].do = "createFile" /\ req'[r].content = old.content /\ req'[r].next = old.next
      BY <2>2, <2>3, AwaitOne
    <3>3. QED
      BY <3>1, <3>2 DEF Purposeful, Meant
  <2>5. QED
    BY <1>1, <2>2, <2>3, <2>4, ReadsKeep
<1>5. QED
  BY <1>3, <1>4 DEF FindFile

LEMMA CreateFileKeeps ==
    ASSUME FilesInv, Common', scene' = scene, NobodyLeaves', NEW r \in Requests, CreateFile(r)
    PROVE  FilesInv'
<1>1. /\ req[r].do = "createFile" /\ req[r] # Idle
      /\ UNCHANGED << specimens, vehicles, documents >>
  BY DEF CreateFile, Idle, rows
<1>2. PICK u \in Users, content \in Contents : u = req[r].user /\ content = req[r].content
  BY <1>1, WorkFields DEF FileWords
<1>3. files \in Seq(File \cup {None}) /\ optimizing \subseteq DOMAIN files /\ Len(files) \in Nat
  BY DEF FilesInv, FilesType
<1>4. CASE Exists(u)
  <2>1. PICK file : file = [user |-> u, content |-> content, status |-> "UPLOADING"]
    OBVIOUS
  <2>2. PICK new \in FileIds : new = Len(files) + 1
    BY <1>3 DEF FileIds
  <2>3. /\ files' = Append(files, file) /\ optimizing' = optimizing \cup {new}
        /\ Await(r, [req[r].next EXCEPT !.file = new])
    BY <1>2, <1>4, <2>1, <2>2 DEF CreateFile
  <2>4. file \in File /\ file # None /\ file.content = content
    BY <2>1, NoFileAssumption DEF File
  <2>5. /\ files' \in Seq(File \cup {None}) /\ DOMAIN files' = DOMAIN files \cup {new}
        /\ files'[new] = file /\ \A f \in DOMAIN files : files'[f] = files[f]
    <3>1. files' \in Seq(File \cup {None}) /\ Len(files') = new
      BY <1>3, <2>2, <2>3, <2>4
    <3>2. DOMAIN files' = 1 .. new /\ DOMAIN files = 1 .. Len(files)
      BY <1>3, <3>1
    <3>3. QED
      BY <1>3, <2>2, <2>3, <3>1, <3>2
  <2>6. FilesGrow
    BY <1>1, <1>3, <2>3, <2>5 DEF FilesGrow
  <2>7. Stored(new)' /\ files'[new].content = content
    BY <2>4, <2>5 DEF Stored
  <2>8. QED
    BY <1>1, <1>2, <2>3, <2>6, <2>7, PutAwayNext
<1>5. CASE ~Exists(u)
  <2>1. Done(r) /\ UNCHANGED fileVars
    BY <1>1, <1>2, <1>5 DEF CreateFile, fileVars
  <2>2. req'[r] = Idle /\ \A q \in Requests \ {r} : req'[q] = req[q]
    BY <2>1, AwaitOne DEF Done
  <2>3. req'[r].do \notin FileWords
    BY <2>2 DEF Idle, FileWords
  <2>4. QED
    BY <1>1, <2>1, <2>2, <2>3, NoFileWork, FilesRead
<1>6. QED
  BY <1>4, <1>5

LEMMA PurposeStays ==
    ASSUME FilesInv, FilesGrow, scene' = scene, NEW r \in Requests, req'[r] = req[r],
           Purposeful(r)
    PROVE  Purposeful(r)'
<1> DEFINE w == req[r]
<1>1. documents' = documents /\ vehicles' = vehicles
  BY DEF FilesGrow
<1>2. w.do \in {"insertSpecimen", "appendPhoto", "supersede", "insertDocument"} =>
        /\ Stored(w.file)' /\ files'[w.file].content = files[w.file].content
        /\ \E x \in scene.uploads : x.content = files[w.file].content /\ Meant(x, w)
  BY GrowKeeps DEF Purposeful
<1>3. w.do = "deleteSpecimen" => For(w.file, "specimen")' # {}
  BY GrowKeeps DEF Purposeful
<1>4. w.do \in {"readPhotos", "writePhotos"} => \E x \in For(w.file, "photo")' : x.on = w.vehicle
  BY GrowKeeps DEF Purposeful
<1>5. w.do = "deleteFile" => Unused(w.file)'
  BY <1>1 DEF Purposeful, Unused
<1>6. w.do = "writePhotos" => w.read = vehicles'[w.vehicle].photos
  BY <1>1 DEF Purposeful
<1>7. w.do = "countReferences" => \A v \in Vehicles : w.file \notin vehicles'[v].photos
  BY <1>1 DEF Purposeful
<1>8. w.do \in {"findFile", "createFile"} =>
            \E x \in scene.uploads : x.content = w.content /\ Meant(x, w.next)
  BY DEF Purposeful
<1>9. QED
  BY <1>2, <1>3, <1>4, <1>5, <1>6, <1>7, <1>8 DEF Purposeful, Meant, For, Stored, Unused

LEMMA OptimizeKeeps ==
    ASSUME FilesInv, Common', scene' = scene, NobodyLeaves', NEW f \in optimizing,
           Optimize(f) \/ UnhandledRejection(f)
    PROVE  FilesInv'
<1>1. (Serial' <=> Serial) /\ (OneToOne' <=> OneToOne)
  BY DEF Serial, OneToOne, Shared
<1>2. FilesGrow
  <2>1. files \in Seq(File \cup {None}) /\ optimizing \subseteq DOMAIN files
    BY DEF FilesInv, FilesType
  <2>2. ASSUME NEW status \in {"PROCESSING", "OPTIMIZED", "FAILED"}, Stored(f),
               files' = [files EXCEPT ![f].status = status]
        PROVE  /\ files' \in Seq(File \cup {None}) /\ DOMAIN files' = DOMAIN files
               /\ \A g \in DOMAIN files : files[g] # None =>
                    files'[g] # None /\ files'[g].content = files[g].content
    <3>1. PICK file : file = [files[f] EXCEPT !.status = status]
      OBVIOUS
    <3>2. files[f] \in File
      BY <2>1, <2>2 DEF Stored
    <3>3. file \in File /\ file.content = files[f].content /\ file # None
      BY <3>1, <3>2, NoFileAssumption DEF File
    <3>4. files' = [files EXCEPT ![f] = file]
      BY <2>2, <3>1
    <3>5. QED
      BY <2>1, <3>3, <3>4
  <2>3. CASE Optimize(f)
    <3>1. PICK status \in {"PROCESSING", "OPTIMIZED", "FAILED"} :
            files' = [files EXCEPT ![f].status = status]
      BY <2>3 DEF Optimize
    <3>2. Stored(f) /\ optimizing' \subseteq optimizing /\ UNCHANGED << specimens, vehicles, documents >>
      BY <2>3 DEF Optimize, rows
    <3>3. QED
      BY <2>1, <2>2, <3>1, <3>2 DEF FilesGrow
  <2>4. CASE UnhandledRejection(f)
    BY <2>1, <2>4 DEF UnhandledRejection, FilesGrow, rows
  <2>5. QED
    BY <2>3, <2>4
<1>3. FilesType' /\ Grows /\ DocumentsCurrent' /\ (OneActive => OneActive')
      /\ (FilesOwned => FilesOwned')
  BY <1>2, GrowKeeps
<1>4. ASSUME NEW q \in Requests
      PROVE  /\ WorksOn(q)' /\ (Serial => SeesAll(q)') /\ (OneToOne => Purposeful(q)')
  <2>1. CASE req'[q] = req[q]
    <3>1. specimens' = specimens /\ documents' = documents
      BY <1>2 DEF FilesGrow
    <3>2. Serial => SeesAll(q)'
      BY <2>1, <3>1 DEF FilesInv, SeesAll, ActiveSpecimens, SpecimensOf, ActiveDocuments
    <3>3. QED
      BY <1>2, <1>3, <2>1, <3>2, WorkStays, PurposeStays DEF FilesInv
  <2>2. CASE req'[q] = Idle
    BY <2>2, NoFileWork DEF Idle, FileWords
  <2>3. QED
    BY <2>1, <2>2 DEF Optimize, UnhandledRejection
<1>5. QED
  BY <1>1, <1>3, <1>4 DEF FilesInv

-----------------------------------------------------------------------------
(* Files, with what refers to them, are deleted.                           *)

\* A table that is rewritten row by row.
LEMMA RowByRow ==
    ASSUME NEW S, NEW T, NEW s \in Seq(S), NEW t, t = [i \in DOMAIN s |-> t[i]],
           \A i \in DOMAIN s : t[i] \in T
    PROVE  t \in Seq(T) /\ DOMAIN t = DOMAIN s
<1>1. PICK n \in Nat : DOMAIN s = 1 .. n
  OBVIOUS
<1>2. t \in [1 .. n -> T]
  BY <1>1
<1>3. QED
  BY <1>1, <1>2

\* The rows lose what they refer to, and keep the rest.
LEMMA FilesDeleted ==
    ASSUME FilesType, NEW gone, DeleteFiles(gone)
    PROVE  /\ FilesType' /\ Grows
           /\ DOMAIN specimens' = DOMAIN specimens /\ DOMAIN documents' = DOMAIN documents
           /\ \A u : ActiveSpecimens(u)' \subseteq ActiveSpecimens(u)
           /\ \A v, type : /\ DocumentsOf(v, type)' = DocumentsOf(v, type)
                           /\ ActiveDocuments(v, type)' = ActiveDocuments(v, type)
<1>1. /\ files \in Seq(File \cup {None}) /\ optimizing \subseteq DOMAIN files
      /\ specimens \in Seq(Specimen \cup {None}) /\ documents \in Seq(Document)
      /\ vehicles \in [Vehicles -> Vehicle]
  BY DEF FilesType
<1>2. /\ files' = [f \in DOMAIN files |-> IF f \in gone THEN None ELSE files[f]]
      /\ specimens' = [i \in DOMAIN specimens |->
            IF specimens[i] # None /\ specimens[i].file \in gone THEN None ELSE specimens[i]]
      /\ documents' = [d \in DOMAIN documents |->
            IF documents[d].file \in gone THEN [documents[d] EXCEPT !.file = 0]
            ELSE documents[d]]
      /\ optimizing' = optimizing /\ vehicles' = vehicles
  BY DEF DeleteFiles
<1>3. files' \in Seq(File \cup {None}) /\ DOMAIN files' = DOMAIN files
  <2>1. \A f \in DOMAIN files : files'[f] \in File \cup {None}
    BY <1>1, <1>2
  <2>2. files' = [f \in DOMAIN files |-> files'[f]]
    BY <1>2
  <2>3. QED
    BY <1>1, <2>1, <2>2, RowByRow
<1>4. specimens' \in Seq(Specimen \cup {None}) /\ DOMAIN specimens' = DOMAIN specimens
  <2>1. \A i \in DOMAIN specimens : specimens'[i] \in Specimen \cup {None}
    BY <1>1, <1>2
  <2>2. specimens' = [i \in DOMAIN specimens |-> specimens'[i]]
    BY <1>2
  <2>3. QED
    BY <1>1, <2>1, <2>2, RowByRow
<1>5. \A d \in DOMAIN documents :
        /\ documents'[d] \in Document /\ documents'[d].vehicle = documents[d].vehicle
        /\ documents'[d].type = documents[d].type
        /\ documents'[d].isActive = documents[d].isActive
  <2> TAKE d \in DOMAIN documents
  <2>1. documents[d] \in Document
    BY <1>1
  <2>2. documents'[d] = documents[d] \/ documents'[d] = [documents[d] EXCEPT !.file = 0]
    BY <1>2
  <2>3. QED
    BY <2>1, <2>2 DEF Document
<1>6. documents' \in Seq(Document) /\ DOMAIN documents' = DOMAIN documents
  <2>1. documents' = [d \in DOMAIN documents |-> documents'[d]]
    BY <1>2
  <2>2. QED
    BY <1>1, <1>5, <2>1, RowByRow
<1>7. FilesType'
  BY <1>1, <1>2, <1>3, <1>4, <1>6 DEF FilesType
<1>8. \A v, type : /\ DocumentsOf(v, type)' = DocumentsOf(v, type)
                   /\ ActiveDocuments(v, type)' = ActiveDocuments(v, type)
  BY <1>5, <1>6 DEF DocumentsOf, ActiveDocuments
<1>9. \A u : ActiveSpecimens(u)' \subseteq ActiveSpecimens(u)
  <2>1. \A i \in DOMAIN specimens : specimens'[i] # None => specimens'[i] = specimens[i]
    BY <1>2
  <2>2. QED
    BY <1>4, <2>1 DEF ActiveSpecimens, SpecimensOf
<1>10. Grows
  BY <1>4, <1>8 DEF Grows
<1>11. QED
  BY <1>4, <1>6, <1>7, <1>8, <1>9, <1>10

LEMMA UnusedDeleted ==
    ASSUME FilesType, FilesOwned, scene' = scene, NEW gone, DeleteFiles(gone),
           \A f \in gone : Unused(f)
    PROVE  FilesOwned'
<1>1. DOMAIN specimens' = DOMAIN specimens /\ DOMAIN documents' = DOMAIN documents
      /\ vehicles' = vehicles
  BY FilesDeleted DEF DeleteFiles
<1>2. \A f, as : f \notin gone => For(f, as)' = For(f, as)
  <2>1. \A f \in DOMAIN files : f \notin gone => files'[f] = files[f]
    BY DEF DeleteFiles
  <2>2. DOMAIN files' = DOMAIN files
    BY DEF DeleteFiles
  <2>3. QED
    BY <2>1, <2>2 DEF For, Stored
<1>3. ASSUME NEW d \in DOMAIN documents
      PROVE  documents[d].file \notin gone /\ documents'[d] = documents[d]
  BY DEF DeleteFiles, Unused
<1>4. ASSUME NEW d \in DOMAIN documents, NEW f, f = documents[d].file
      PROVE  For(f, "document")' # {} /\ f = documents'[d].file
  BY <1>2, <1>3, <1>4 DEF FilesOwned
<1>5. ASSUME NEW v \in Vehicles, NEW f \in vehicles[v].photos
      PROVE  \E x \in For(f, "photo")' : x.on = v
  BY <1>2 DEF FilesOwned, Unused
<1>6. ASSUME NEW i \in DOMAIN specimens, specimens'[i] # None, NEW f, f = specimens[i].file
      PROVE  For(f, "specimen")' # {} /\ f = specimens'[i].file
  <2>1. specimens'[i] = specimens[i] /\ f \notin gone
    BY <1>6 DEF DeleteFiles
  <2>2. QED
    BY <1>2, <1>6, <2>1 DEF FilesOwned
<1>7. QED
  BY <1>1, <1>4, <1>5, <1>6 DEF FilesOwned

LEMMA DeletionKeeps ==
    ASSUME FilesInv, Common', scene' = scene, NobodyLeaves', NEW r \in Requests, Done(r),
           req[r] # Idle, NEW gone, DeleteFiles(gone), OneToOne => \A f \in gone : Unused(f)
    PROVE  FilesInv'
<1>1. req'[r] = Idle /\ \A q \in Requests \ {r} : req'[q] = req[q]
  BY AwaitOne DEF Done
<1>2. WorksOn(r)' /\ SeesAll(r)' /\ Purposeful(r)'
  BY <1>1, NoFileWork DEF Idle, FileWords
<1>3. FilesType' /\ Grows
  BY FilesDeleted DEF FilesInv
<1>4. DocumentsCurrent'
  BY FilesDeleted DEF FilesInv, DocumentsCurrent
<1>5. Serial => OneActive'
  <2> SUFFICES ASSUME OneActive
               PROVE  OneActive'
    BY DEF FilesInv
  <2>1. /\ \A u : ActiveSpecimens(u)' \subseteq ActiveSpecimens(u)
        /\ \A v, type : ActiveDocuments(v, type)' = ActiveDocuments(v, type)
    BY FilesDeleted DEF FilesInv
  <2>2. QED
    BY <2>1 DEF OneActive
<1>6. OneToOne => FilesOwned'
  BY UnusedDeleted DEF FilesInv
<1>7. QED
  BY <1>1, <1>2, <1>3, <1>4, <1>5, <1>6, FilesLater

LEMMA DeleteFilesKeep ==
    ASSUME FilesInv, Common', scene' = scene, NobodyLeaves', NEW r \in Requests,
           DeleteFile(r) \/ DeleteUserAndFiles(r)
    PROVE  FilesInv'
<1>1. CASE DeleteFile(r)
  <2>1. /\ req[r].do = "deleteFile" /\ DeleteFiles({req[r].file}) /\ Done(r)
        /\ req[r] # Idle
    BY <1>1 DEF DeleteFile, Idle
  <2>2. OneToOne => Unused(req[r].file)
    BY <2>1 DEF FilesInv, Purposeful
  <2>3. QED
    BY <2>1, <2>2, DeletionKeeps
<1>2. CASE DeleteUserAndFiles(r)
  <2>1. PICK gone : DeleteFiles(gone)
    BY <1>2 DEF DeleteUserAndFiles
  <2>2. req[r].do = "deleteUserRow" /\ Done(r) /\ req[r] # Idle
    BY <1>2 DEF DeleteUserAndFiles, DeleteUserRow, Idle
  <2>3. ~OneToOne
    BY <2>2 DEF OneToOne, FilesInv, NobodyLeaves, RemovalWords
  <2>4. QED
    BY <2>1, <2>2, <2>3, DeletionKeeps
<1>3. QED
  BY <1>1, <1>2

-----------------------------------------------------------------------------
(* Specimens are inserted, activated and deleted.                          *)

LEMMA SpecimensWritten ==
    ASSUME FilesInv, scene' = scene, UNCHANGED << files, optimizing, vehicles, documents >>,
           specimens' \in Seq(Specimen \cup {None}), DOMAIN specimens \subseteq DOMAIN specimens',
           Serial => \A u \in Users : \A i, j \in ActiveSpecimens(u)' : i = j,
           OneToOne => \A i \in DOMAIN specimens' :
                specimens'[i] # None => For(specimens'[i].file, "specimen") # {}
    PROVE  /\ FilesType' /\ Grows /\ DocumentsCurrent'
           /\ Serial => OneActive'
           /\ OneToOne => FilesOwned'
<1>1. FilesType' /\ Grows
  BY DEF FilesInv, FilesType, Grows, DocumentsOf
<1>2. /\ \A v, type : /\ DocumentsOf(v, type)' = DocumentsOf(v, type)
                      /\ ActiveDocuments(v, type)' = ActiveDocuments(v, type)
      /\ \A f, as : For(f, as)' = For(f, as)
  BY DEF DocumentsOf, ActiveDocuments, For, Stored
<1>3. DocumentsCurrent' /\ (Serial => OneActive')
  BY <1>2 DEF FilesInv, DocumentsCurrent, OneActive
<1>4. ASSUME OneToOne
      PROVE  FilesOwned'
  <2>1. ASSUME NEW d \in DOMAIN documents, NEW f, f = documents[d].file
        PROVE  For(f, "document")' # {} /\ f = documents'[d].file
    BY <1>2, <1>4, <2>1 DEF FilesInv, FilesOwned
  <2>2. ASSUME NEW v \in Vehicles, NEW f \in vehicles[v].photos
        PROVE  \E x \in For(f, "photo")' : x.on = v
    BY <1>2, <1>4 DEF FilesInv, FilesOwned
  <2>3. ASSUME NEW i \in DOMAIN specimens', specimens'[i] # None, NEW f, f = specimens'[i].file
        PROVE  For(f, "specimen")' # {}
    BY <1>2, <1>4, <2>3
  <2>4. QED
    BY <2>1, <2>2, <2>3 DEF FilesOwned
<1>5. QED
  BY <1>1, <1>3, <1>4

LEMMA InsertSpecimenKeeps ==
    ASSUME FilesInv, Common', scene' = scene, NobodyLeaves', NEW r \in Requests, InsertSpecimen(r)
    PROVE  FilesInv'
<1>1. /\ req[r].do = "insertSpecimen" /\ req[r] # Idle
      /\ UNCHANGED << files, optimizing, vehicles, documents >>
  BY DEF InsertSpecimen, Idle
<1>2. PICK u \in Users, f \in FileIds : u = req[r].user /\ f = req[r].file
  BY <1>1, WorkFields DEF FileWords
<1>3. specimens \in Seq(Specimen \cup {None}) /\ Len(specimens) \in Nat
  BY DEF FilesInv, FilesType
<1>4. PICK new \in FileIds : new = Len(specimens) + 1
  BY <1>3 DEF FileIds
<1>5. /\ specimens' \in Seq(Specimen \cup {None})
      /\ DOMAIN specimens \subseteq DOMAIN specimens'
      /\ \A i \in DOMAIN specimens' \ DOMAIN specimens :
            specimens'[i].file = f /\ ~specimens'[i].isActive
      /\ \A i \in DOMAIN specimens : specimens'[i] = specimens[i]
      /\ Stored(f) => new \in DOMAIN specimens'
  <2>1. CASE Stored(f)
    <3>1. PICK row : row = [user |-> u, file |-> f, isActive |-> FALSE]
      OBVIOUS
    <3>2. specimens' = Append(specimens, row)
      BY <1>2, <2>1, <3>1 DEF InsertSpecimen
    <3>3. row \in Specimen /\ row.file = f /\ ~row.isActive
      BY <3>1 DEF Specimen, FileIds
    <3>4. specimens' \in Seq(Specimen \cup {None}) /\ Len(specimens') = new
      BY <1>3, <1>4, <3>2, <3>3
    <3>5. DOMAIN specimens' = 1 .. new /\ DOMAIN specimens = 1 .. Len(specimens)
      BY <1>3, <3>4
    <3>6. specimens'[new] = row /\ \A i \in DOMAIN specimens : specimens'[i] = specimens[i]
      BY <1>3, <1>4, <3>2, <3>5
    <3>7. new \in DOMAIN specimens' /\ DOMAIN specimens' = DOMAIN specimens \cup {new}
      BY <1>3, <1>4, <3>5 DEF FileIds
    <3>8. QED
      BY <3>3, <3>4, <3>6, <3>7
  <2>2. CASE ~Stored(f)
    BY <1>2, <1>3, <2>2 DEF InsertSpecimen
  <2>3. QED
    BY <2>1, <2>2
<1>6. ASSUME NEW q
      PROVE  ActiveSpecimens(q)' \subseteq ActiveSpecimens(q)
  BY <1>5 DEF ActiveSpecimens, SpecimensOf
<1>7. Serial => \A q \in Users : \A i, j \in ActiveSpecimens(q)' : i = j
  BY <1>6 DEF FilesInv, OneActive
<1>8. ASSUME OneToOne, NEW i \in DOMAIN specimens', specimens'[i] # None
      PROVE  For(specimens'[i].file, "specimen") # {}
  <2>1. Stored(f) /\ \E x \in scene.uploads : x.content = files[f].content /\ x.as = "specimen"
    BY <1>1, <1>2, <1>8 DEF FilesInv, Purposeful, Meant
  <2>2. For(f, "specimen") # {}
    BY <2>1 DEF For
  <2>3. QED
    BY <1>5, <1>8, <2>2 DEF FilesInv, FilesOwned
<1>9. /\ FilesType' /\ Grows /\ DocumentsCurrent'
      /\ (Serial => OneActive') /\ (OneToOne => FilesOwned')
  BY <1>1, <1>5, <1>7, <1>8, SpecimensWritten
<1>10. /\ \A q \in Requests \ {r} : req'[q] = req[q]
       /\ WorksOn(r)' /\ SeesAll(r)' /\ Purposeful(r)'
  <2>1. CASE Done(r)
    <3>1. req'[r] = Idle /\ \A q \in Requests \ {r} : req'[q] = req[q]
      BY <2>1, AwaitOne DEF Done
    <3>2. req'[r].do \notin FileWords
      BY <3>1 DEF Idle, FileWords
    <3>3. QED
      BY <3>1, <3>2, NoFileWork
  <2>2. CASE ~Done(r)
    <3> DEFINE w == [do |-> "deactivateSpecimens", specimen |-> new]
    <3>1. Await(r, w) /\ Stored(f)
      BY <1>2, <1>4, <2>2 DEF InsertSpecimen
    <3>2. req'[r] = w /\ \A q \in Requests \ {r} : req'[q] = req[q]
      BY <3>1, AwaitOne
    <3>3. w \in FileWork /\ w.specimen \in DOMAIN specimens'
      BY <1>5, <3>1 DEF FileWork, SpecimenWork
    <3>4. WorksOn(r)' /\ SeesAll(r)' /\ Purposeful(r)'
      BY <3>2, <3>3 DEF WorksOn, SeesAll, Purposeful
    <3>5. QED
      BY <3>2, <3>4
  <2>3. QED
    BY <2>1, <2>2
<1>11. QED
  BY <1>1, <1>9, <1>10, FilesLater

LEMMA ActivateOneKeeps ==
    ASSUME FilesInv, Common', scene' = scene, NobodyLeaves', NEW r \in Requests, ActivateOne(r)
    PROVE  FilesInv'
<1>1. /\ req[r].do = "activateOne" /\ req[r] # Idle /\ Done(r)
      /\ UNCHANGED << files, optimizing, vehicles, documents >>
  BY DEF ActivateOne, Idle
<1>2. PICK s \in DOMAIN specimens, seen \in SUBSET FileIds : s = req[r].specimen /\ seen = req[r].seen
  BY <1>1, WorkFields DEF FilesInv, WorksOn, FileWords
<1>3. specimens' = [i \in DOMAIN specimens |->
            IF specimens[s] = None \/ specimens[i] = None THEN specimens[i]
            ELSE IF i = s THEN [specimens[i] EXCEPT !.isActive = TRUE]
            ELSE IF i \in seen THEN [specimens[i] EXCEPT !.isActive = FALSE]
            ELSE specimens[i]]
  BY <1>2 DEF ActivateOne
<1>4. specimens \in Seq(Specimen \cup {None})
  BY DEF FilesInv, FilesType
<1>5. ASSUME NEW i \in DOMAIN specimens
      PROVE  /\ specimens'[i] \in Specimen \cup {None}
             /\ specimens'[i] # None => /\ specimens[i] # None
                                        /\ specimens'[i].user = specimens[i].user
                                        /\ specimens'[i].file = specimens[i].file
             /\ specimens'[i] # None /\ specimens'[i].isActive => specimens[i].isActive \/ i = s
             /\ specimens'[i] # None /\ specimens'[i].isActive /\ specimens[s] # None =>
                    i = s \/ i \notin seen
             /\ specimens[s] = None => specimens'[i] = specimens[i]
  <2>1. CASE specimens[i] = None \/ specimens[s] = None
    BY <1>3, <1>4, <2>1
  <2>2. CASE specimens[i] # None /\ specimens[s] # None
    <3>1. specimens[i] \in Specimen
      BY <1>4, <2>2
    <3>2. \/ i = s /\ specimens'[i] = [specimens[i] EXCEPT !.isActive = TRUE]
          \/ i \in seen /\ specimens'[i] = [specimens[i] EXCEPT !.isActive = FALSE]
          \/ i # s /\ i \notin seen /\ specimens'[i] = specimens[i]
      BY <1>3, <2>2
    <3>3. QED
      BY <2>2, <3>1, <3>2 DEF Specimen
  <2>3. QED
    BY <2>1, <2>2
<1>6. specimens' \in Seq(Specimen \cup {None}) /\ DOMAIN specimens' = DOMAIN specimens
  <2>1. specimens' = [i \in DOMAIN specimens |-> specimens'[i]]
    BY <1>3
  <2>2. QED
    BY <1>4, <1>5, <2>1, RowByRow
<1>7. ASSUME Serial, NEW u \in Users, NEW i \in ActiveSpecimens(u)', NEW j \in ActiveSpecimens(u)'
      PROVE  i = j
  <2>1. \A x, y \in ActiveSpecimens(u) : x = y
    BY <1>7 DEF FilesInv, OneActive
  <2>2. \A x \in ActiveSpecimens(u)' :
            /\ x \in DOMAIN specimens /\ specimens'[x] # None /\ specimens'[x].user = u
            /\ specimens'[x].isActive
    BY <1>6 DEF ActiveSpecimens, SpecimensOf
  <2>3. \A x \in ActiveSpecimens(u)' : x \in ActiveSpecimens(u) \/ x = s
    BY <1>5, <2>2 DEF ActiveSpecimens, SpecimensOf
  <2>4. CASE specimens[s] = None
    <3>1. \A x \in ActiveSpecimens(u)' : x # s
      BY <1>5, <2>2, <2>4
    <3>2. QED
      BY <2>1, <2>3, <3>1
  <2>5. CASE specimens[s] # None
    <3>1. ActiveSpecimens(specimens[s].user) \subseteq seen
      BY <1>1, <1>2, <1>7, <2>5 DEF FilesInv, SeesAll
    <3>2. \A x \in ActiveSpecimens(u)' : x = s \/ x \notin seen
      BY <1>5, <2>2, <2>5
    <3>3. s \in ActiveSpecimens(u)' => specimens[s].user = u
      BY <1>5, <2>2
    <3>4. QED
      BY <2>1, <2>3, <3>1, <3>2, <3>3
  <2>6. QED
    BY <2>4, <2>5
<1>8. ASSUME OneToOne, NEW i \in DOMAIN specimens', specimens'[i] # None
      PROVE  For(specimens'[i].file, "specimen") # {}
  BY <1>5, <1>6, <1>8 DEF FilesInv, FilesOwned
<1>9. /\ FilesType' /\ Grows /\ DocumentsCurrent'
      /\ (Serial => OneActive') /\ (OneToOne => FilesOwned')
  BY <1>1, <1>6, <1>7, <1>8, SpecimensWritten
<1>10. req'[r] = Idle /\ \A q \in Requests \ {r} : req'[q] = req[q]
  BY <1>1, AwaitOne DEF Done
<1>11. WorksOn(r)' /\ SeesAll(r)' /\ Purposeful(r)'
  BY <1>10, NoFileWork DEF Idle, FileWords
<1>12. QED
  BY <1>1, <1>9, <1>10, <1>11, FilesLater

\* What is stored for specimens is no photo and no document.
LEMMA SpecimensApart ==
    ASSUME OneToOne, FilesOwned, NEW f, For(f, "specimen") # {}
    PROVE  Unused(f)
<1>1. PICK x \in scene.uploads : x.as = "specimen" /\ x.content = files[f].content
  BY DEF For
<1>2. ~\E y \in scene.uploads : y.as # "specimen" /\ y.content = files[f].content
  BY <1>1 DEF OneToOne, Shared
<1>3. For(f, "photo") = {} /\ For(f, "document") = {}
  BY <1>2 DEF For
<1>4. QED
  BY <1>3 DEF FilesOwned, Unused

LEMMA DeleteSpecimenKeeps ==
    ASSUME FilesInv, Common', scene' = scene, NobodyLeaves', NEW r \in Requests, DeleteSpecimen(r)
    PROVE  FilesInv'
<1>1. /\ req[r].do = "deleteSpecimen" /\ req[r] # Idle
      /\ UNCHANGED << files, optimizing, vehicles, documents >>
  BY DEF DeleteSpecimen, Idle
<1>2. PICK s \in DOMAIN specimens, f \in FileIds : s = req[r].specimen /\ f = req[r].file
  BY <1>1, WorkFields DEF FilesInv, WorksOn, FileWords
<1>3. specimens' = [specimens EXCEPT ![s] = None] /\ specimens \in Seq(Specimen \cup {None})
  BY <1>2 DEF DeleteSpecimen, FilesInv, FilesType
<1>4. /\ specimens' \in Seq(Specimen \cup {None}) /\ DOMAIN specimens' = DOMAIN specimens
      /\ \A i \in DOMAIN specimens : specimens'[i] # None => specimens'[i] = specimens[i]
  BY <1>3
<1>5. \A u : ActiveSpecimens(u)' \subseteq ActiveSpecimens(u)
  BY <1>4 DEF ActiveSpecimens, SpecimensOf
<1>6. Serial => \A u \in Users : \A i, j \in ActiveSpecimens(u)' : i = j
  BY <1>5 DEF FilesInv, OneActive
<1>7. OneToOne => \A i \in DOMAIN specimens' :
        specimens'[i] # None => For(specimens'[i].file, "specimen") # {}
  BY <1>4 DEF FilesInv, FilesOwned
<1>8. /\ FilesType' /\ Grows /\ DocumentsCurrent'
      /\ (Serial => OneActive') /\ (OneToOne => FilesOwned')
  BY <1>1, <1>4, <1>6, <1>7, SpecimensWritten
<1>9. /\ \A q \in Requests \ {r} : req'[q] = req[q]
      /\ WorksOn(r)' /\ SeesAll(r)' /\ (OneToOne => Purposeful(r)')
  <2>1. CASE Done(r)
    <3>1. req'[r] = Idle /\ \A q \in Requests \ {r} : req'[q] = req[q]
      BY <2>1, AwaitOne DEF Done
    <3>2. req'[r].do \notin FileWords
      BY <3>1 DEF Idle, FileWords
    <3>3. QED
      BY <3>1, <3>2, NoFileWork
  <2>2. CASE ~Done(r)
    <3> DEFINE w == [do |-> "deleteFile", file |-> f]
    <3>1. Await(r, w)
      BY <1>2, <2>2 DEF DeleteSpecimen
    <3>2. req'[r] = w /\ \A q \in Requests \ {r} : req'[q] = req[q]
      BY <3>1, AwaitOne
    <3>3. w \in FileWork /\ w.do = "deleteFile" /\ w.file = f
      BY DEF FileWork
    <3>4. WorksOn(r)' /\ SeesAll(r)'
      BY <3>2, <3>3 DEF WorksOn, SeesAll
    <3>5. ASSUME OneToOne
          PROVE  Purposeful(r)'
      <4>1. For(f, "specimen") # {} /\ FilesOwned
        BY <1>1, <1>2, <3>5 DEF FilesInv, Purposeful
      <4>2. Unused(f)
        BY <3>5, <4>1, SpecimensApart
      <4>3. Unused(f)'
        BY <1>1, <4>2 DEF Unused
      <4>4. req'[r].do = "deleteFile" /\ req'[r].file = f
        BY <3>2, <3>3
      <4>5. QED
        BY <4>3, <4>4 DEF Purposeful, Unused
    <3>6. QED
      BY <3>2, <3>4, <3>5
  <2>3. QED
    BY <2>1, <2>2
<1>10. QED
  BY <1>1, <1>8, <1>9, FilesLater

-----------------------------------------------------------------------------
(* Vehicles: their photos and documents.                                   *)

LEMMA VehiclesWritten ==
    ASSUME FilesInv, scene' = scene, UNCHANGED << files, optimizing, specimens, documents >>,
           vehicles' \in [Vehicles -> Vehicle],
           OneToOne => \A v \in Vehicles : \A f \in vehicles'[v].photos :
                \E x \in For(f, "photo") : x.on = v
    PROVE  /\ FilesType' /\ Grows /\ DocumentsCurrent'
           /\ Serial => OneActive'
           /\ OneToOne => FilesOwned'
<1>1. FilesType' /\ Grows
  BY DEF FilesInv, FilesType, Grows, DocumentsOf
<1>2. /\ \A v, type : /\ DocumentsOf(v, type)' = DocumentsOf(v, type)
                      /\ ActiveDocuments(v, type)' = ActiveDocuments(v, type)
      /\ \A u : ActiveSpecimens(u)' = ActiveSpecimens(u)
      /\ \A f, as : For(f, as)' = For(f, as)
  BY DEF DocumentsOf, ActiveDocuments, ActiveSpecimens, SpecimensOf, For, Stored
<1>3. DocumentsCurrent' /\ (Serial => OneActive')
  BY <1>2 DEF FilesInv, DocumentsCurrent, OneActive
<1>4. ASSUME OneToOne
      PROVE  FilesOwned'
  <2>1. ASSUME NEW d \in DOMAIN documents, NEW f, f = documents[d].file
        PROVE  For(f, "document")' # {} /\ f = documents'[d].file
    BY <1>2, <1>4, <2>1 DEF FilesInv, FilesOwned
  <2>2. ASSUME NEW v \in Vehicles, NEW f \in vehicles'[v].photos
        PROVE  \E x \in For(f, "photo")' : x.on = v
    BY <1>2, <1>4
  <2>3. ASSUME NEW i \in DOMAIN specimens, specimens[i] # None, NEW f, f = specimens[i].file
        PROVE  For(f, "specimen")' # {} /\ f = specimens'[i].file
    BY <1>2, <1>4, <2>3 DEF FilesInv, FilesOwned
  <2>4. QED
    BY <2>1, <2>2, <2>3 DEF FilesOwned
<1>5. QED
  BY <1>1, <1>3, <1>4

LEMMA ArchiveVehicleKeeps ==
    ASSUME FilesInv, Common', scene' = scene, NobodyLeaves', NEW r \in Requests,
           NEW v \in Vehicles, ArchiveVehicle(r, v)
    PROVE  FilesInv'
<1>1. /\ UNCHANGED << req, files, optimizing, specimens, documents >>
      /\ vehicles' = [vehicles EXCEPT ![v].archived = TRUE]
      /\ r \in scene.requests /\ req[r] = Idle
  BY DEF ArchiveVehicle, Free
<1>2. vehicles \in [Vehicles -> Vehicle]
  BY DEF FilesInv, FilesType
<1>3. ASSUME NEW c \in Vehicles
      PROVE  vehicles'[c] \in Vehicle /\ vehicles'[c].photos = vehicles[c].photos
  BY <1>1, <1>2 DEF Vehicle
<1>4. vehicles' \in [Vehicles -> Vehicle]
  BY <1>1, <1>2, <1>3
<1>5. OneToOne => \A c \in Vehicles : \A f \in vehicles'[c].photos :
                \E x \in For(f, "photo") : x.on = c
  BY <1>3 DEF FilesInv, FilesOwned
<1>6. /\ FilesType' /\ Grows /\ DocumentsCurrent'
      /\ (Serial => OneActive') /\ (OneToOne => FilesOwned')
  BY <1>1, <1>4, <1>5, VehiclesWritten
<1>7. req'[r].do \notin FileWords
  BY <1>1 DEF Idle, FileWords
<1>8. QED
  BY <1>1, <1>6, <1>7, NoFileWork, FilesLater

LEMMA AppendPhotoKeeps ==
    ASSUME FilesInv, Common', scene' = scene, NobodyLeaves', NEW r \in Requests, AppendPhoto(r)
    PROVE  FilesInv'
<1>1. /\ req[r].do = "appendPhoto" /\ req[r] # Idle /\ Done(r)
      /\ UNCHANGED << files, optimizing, specimens, documents >>
  BY DEF AppendPhoto, Idle
<1>2. PICK v \in Vehicles, f \in FileIds : v = req[r].vehicle /\ f = req[r].file
  BY <1>1, WorkFields DEF FileWords
<1>3. /\ vehicles' = [vehicles EXCEPT ![v].photos = vehicles[v].photos \cup {f}]
      /\ vehicles \in [Vehicles -> Vehicle]
  BY <1>2 DEF AppendPhoto, FilesInv, FilesType
<1>4. ASSUME NEW c \in Vehicles
      PROVE  /\ vehicles'[c] \in Vehicle
             /\ vehicles'[c].photos = IF c = v THEN vehicles[c].photos \cup {f}
                                      ELSE vehicles[c].photos
  BY <1>3 DEF Vehicle, FileIds
<1>5. vehicles' \in [Vehicles -> Vehicle]
  BY <1>3, <1>4
<1>6. ASSUME OneToOne, NEW c \in Vehicles, NEW g \in vehicles'[c].photos
      PROVE  \E x \in For(g, "photo") : x.on = c
  <2>1. CASE g \in vehicles[c].photos
    BY <1>6, <2>1 DEF FilesInv, FilesOwned
  <2>2. CASE g \notin vehicles[c].photos
    <3>1. c = v /\ g = f
      BY <1>4, <1>6, <2>2
    <3>2. Stored(f) /\ \E x \in scene.uploads :
            x.content = files[f].content /\ x.as = "photo" /\ x.on = v
      BY <1>1, <1>2, <1>6 DEF FilesInv, Purposeful, Meant
    <3>3. QED
      BY <3>1, <3>2 DEF For
  <2>3. QED
    BY <2>1, <2>2
<1>7. /\ FilesType' /\ Grows /\ DocumentsCurrent'
      /\ (Serial => OneActive') /\ (OneToOne => FilesOwned')
  BY <1>1, <1>5, <1>6, VehiclesWritten
<1>8. req'[r] = Idle /\ \A q \in Requests \ {r} : req'[q] = req[q]
  BY <1>1, AwaitOne DEF Done
<1>9. WorksOn(r)' /\ SeesAll(r)' /\ Purposeful(r)'
  BY <1>8, NoFileWork DEF Idle, FileWords
<1>10. QED
  BY <1>1, <1>7, <1>8, <1>9, FilesLater

LEMMA WritePhotosKeeps ==
    ASSUME FilesInv, Common', scene' = scene, NobodyLeaves', NEW r \in Requests, WritePhotos(r)
    PROVE  FilesInv'
<1>1. /\ req[r].do = "writePhotos" /\ req[r] # Idle
      /\ UNCHANGED << files, optimizing, specimens, documents >>
  BY DEF WritePhotos, Idle
<1>2. PICK v \in Vehicles, f \in FileIds, read \in SUBSET FileIds :
        v = req[r].vehicle /\ f = req[r].file /\ read = req[r].read
  BY <1>1, WorkFields DEF FileWords
<1> DEFINE w == [do |-> "countReferences", file |-> f]
<1>3. /\ vehicles' = [vehicles EXCEPT ![v].photos = read \ {f}]
      /\ Await(r, w) /\ vehicles \in [Vehicles -> Vehicle]
  BY <1>2 DEF WritePhotos, FilesInv, FilesType
<1>4. ASSUME NEW c \in Vehicles
      PROVE  /\ vehicles'[c] \in Vehicle
             /\ vehicles'[c].photos = IF c = v THEN read \ {f} ELSE vehicles[c].photos
  BY <1>3 DEF Vehicle, FileIds
<1>5. vehicles' \in [Vehicles -> Vehicle]
  BY <1>3, <1>4
<1>6. OneToOne => read = vehicles[v].photos
  BY <1>1, <1>2 DEF FilesInv, Purposeful
<1>7. ASSUME OneToOne, NEW c \in Vehicles, NEW g \in vehicles'[c].photos
      PROVE  \E x \in For(g, "photo") : x.on = c
  BY <1>4, <1>6, <1>7 DEF FilesInv, FilesOwned
<1>8. /\ FilesType' /\ Grows /\ DocumentsCurrent'
      /\ (Serial => OneActive') /\ (OneToOne => FilesOwned')
  BY <1>1, <1>5, <1>7, VehiclesWritten
<1>9. req'[r] = w /\ \A q \in Requests \ {r} : req'[q] = req[q]
  BY <1>3, AwaitOne
<1>10. w \in FileWork /\ w.do = "countReferences" /\ w.file = f
  BY DEF FileWork
<1>11. WorksOn(r)' /\ SeesAll(r)'
  BY <1>9, <1>10 DEF WorksOn, SeesAll
<1>12. ASSUME OneToOne
       PROVE  Purposeful(r)'
  <2>1. PICK x \in For(f, "photo") : x.on = v
    BY <1>1, <1>2, <1>12 DEF FilesInv, Purposeful
  <2>2. ASSUME NEW c \in Vehicles \ {v}, f \in vehicles[c].photos
        PROVE  FALSE
    <3>1. PICK y \in For(f, "photo") : y.on = c
      BY <1>12, <2>2 DEF FilesInv, FilesOwned
    <3>2. Shared(files[f].content) /\ x \in scene.uploads /\ files[f].content = x.content
      BY <2>1, <2>2, <3>1 DEF For, Shared
    <3>3. QED
      BY <1>12, <3>2 DEF OneToOne
  <2>3. \A c \in Vehicles : f \notin vehicles'[c].photos
    BY <1>4, <2>2
  <2>4. req'[r].do = "countReferences" /\ req'[r].file = f
    BY <1>9, <1>10
  <2>5. QED
    BY <2>3, <2>4 DEF Purposeful
<1>13. QED
  BY <1>1, <1>8, <1>9, <1>11, <1>12, FilesLater

\* The new document is the active one of its kind; those that the transaction
\* saw active no longer are.
LEMMA InsertDocumentKeeps ==
    ASSUME FilesInv, Common', scene' = scene, NobodyLeaves', NEW r \in Requests, InsertDocument(r)
    PROVE  FilesInv'
<1>1. /\ req[r].do = "insertDocument" /\ req[r] # Idle /\ Done(r)
      /\ UNCHANGED << files, optimizing, specimens, vehicles >>
  BY DEF InsertDocument, Idle
<1>2. PICK v \in Vehicles, type \in DocumentTypes, f \in FileIds, seen \in SUBSET FileIds :
        /\ v = req[r].vehicle /\ type = req[r].type
        /\ f = req[r].file /\ seen = req[r].seen
  BY <1>1, WorkFields DEF FileWords
<1>3. req'[r] = Idle /\ \A q \in Requests \ {r} : req'[q] = req[q]
  BY <1>1, AwaitOne DEF Done
<1>4. WorksOn(r)' /\ SeesAll(r)' /\ Purposeful(r)'
  BY <1>3, NoFileWork DEF Idle, FileWords
<1>5. CASE ~Stored(f)
  <2>1. documents' = documents
    BY <1>2, <1>5 DEF InsertDocument
  <2>2. UNCHANGED fileVars
    BY <1>1, <2>1 DEF fileVars
  <2>3. QED
    BY <1>1, <1>3, <1>4, <2>2, FilesRead
<1>6. CASE Stored(f)
  <2>1. documents \in Seq(Document) /\ Len(documents) \in Nat
    BY DEF FilesInv, FilesType
  <2> DEFINE superseded == [d \in DOMAIN documents |->
                IF d \in seen THEN [documents[d] EXCEPT !.isActive = FALSE] ELSE documents[d]]
  <2>2. PICK old : old = superseded
    OBVIOUS
  <2>3. PICK row : row = [vehicle |-> v, type |-> type, file |-> f, isActive |-> TRUE]
    OBVIOUS
  <2>4. documents' = Append(old, row)
    BY <1>2, <1>6, <2>2, <2>3 DEF InsertDocument
  <2>5. \A d \in DOMAIN documents :
            /\ old[d] \in Document /\ old[d].vehicle = documents[d].vehicle
            /\ old[d].type = documents[d].type /\ old[d].file = documents[d].file
            /\ old[d].isActive <=> documents[d].isActive /\ d \notin seen
    <3> TAKE d \in DOMAIN documents
    <3>1. documents[d] \in Document
      BY <2>1
    <3>2. \/ d \in seen /\ old[d] = [documents[d] EXCEPT !.isActive = FALSE]
          \/ d \notin seen /\ old[d] = documents[d]
      BY <2>2
    <3>3. QED
      BY <3>1, <3>2 DEF Document
  <2>6. old \in Seq(Document) /\ DOMAIN old = DOMAIN documents
    <3>1. old = [d \in DOMAIN documents |-> old[d]]
      BY <2>2
    <3>2. QED
      BY <2>1, <2>5, <3>1, RowByRow
  <2>7. row \in Document /\ row.vehicle = v /\ row.type = type /\ row.file = f /\ row.isActive
    BY <2>3 DEF Document, FileIds
  <2>8. PICK new : /\ new \notin DOMAIN documents /\ DOMAIN documents' = DOMAIN documents \cup {new}
                   /\ documents'[new] = row
                   /\ \A d \in DOMAIN documents : documents'[d] = old[d]
                   /\ documents' \in Seq(Document)
    <3>1. Len(old) \in Nat /\ DOMAIN old = 1 .. Len(old)
      BY <2>6
    <3>2. documents' \in Seq(Document) /\ Len(documents') = Len(old) + 1
      BY <2>4, <2>6, <2>7
    <3>3. DOMAIN documents' = 1 .. Len(old) + 1
      BY <3>1, <3>2
    <3>4. /\ documents'[Len(old) + 1] = row
          /\ \A d \in DOMAIN old : documents'[d] = old[d]
      BY <2>4, <2>6, <3>1
    <3>5. Len(old) + 1 \notin DOMAIN old /\ DOMAIN documents' = DOMAIN old \cup {Len(old) + 1}
      BY <3>1, <3>3
    <3>6. QED
      BY <2>6, <3>2, <3>4, <3>5
  <2>9. seen \subseteq DocumentsOf(v, type)
    BY <1>1, <1>2 DEF FilesInv, WorksOn
  <2>10. FilesType' /\ \A c, t : DocumentsOf(c, t) \subseteq DocumentsOf(c, t)'
    <3>1. \A c, t : DocumentsOf(c, t) \subseteq DocumentsOf(c, t)'
      BY <2>5, <2>8 DEF DocumentsOf
    <3>2. QED
      BY <1>1, <2>8, <3>1 DEF FilesInv, FilesType
  <2>11. ASSUME NEW c, NEW t, c # v \/ t # type
         PROVE  /\ DocumentsOf(c, t)' = DocumentsOf(c, t)
                /\ ActiveDocuments(c, t)' = ActiveDocuments(c, t)
    <3>1. \A d \in DocumentsOf(c, t) : d \notin seen
      BY <2>9, <2>11 DEF DocumentsOf
    <3>2. DocumentsOf(c, t)' = DocumentsOf(c, t)
      BY <2>5, <2>7, <2>8, <2>11 DEF DocumentsOf
    <3>3. QED
      BY <2>5, <2>7, <2>8, <2>11, <3>1, <3>2 DEF DocumentsOf, ActiveDocuments
  <2>12. new \in ActiveDocuments(v, type)'
    BY <2>7, <2>8 DEF ActiveDocuments
  <2>13. DocumentsCurrent'
    BY <2>11, <2>12 DEF FilesInv, DocumentsCurrent
  <2>14. ASSUME Serial
         PROVE  OneActive'
    <3>1. ActiveDocuments(v, type) \subseteq seen
      BY <1>1, <1>2, <2>14 DEF FilesInv, SeesAll
    <3>2. ActiveDocuments(v, type)' = {new}
      BY <2>5, <2>8, <2>12, <3>1 DEF ActiveDocuments
    <3>3. OneActive
      BY <2>14 DEF FilesInv
    <3>4. \A u \in Users : \A i, j \in ActiveSpecimens(u)' : i = j
      <4> TAKE u \in Users
      <4>1. ActiveSpecimens(u)' = ActiveSpecimens(u)
        BY <1>1 DEF ActiveSpecimens, SpecimensOf
      <4>2. QED
        BY <3>3, <4>1 DEF OneActive
    <3>5. QED
      BY <2>11, <3>2, <3>3, <3>4 DEF OneActive
  <2>15. ASSUME OneToOne
         PROVE  FilesOwned'
    <3>1. ASSUME NEW d \in DOMAIN documents', NEW g, g = documents'[d].file
          PROVE  For(g, "document")' # {}
      <4>1. For(g, "document")' = For(g, "document")
        BY <1>1 DEF For, Stored
      <4>2. For(f, "document") # {}
        <5>1. \E x \in scene.uploads : x.content = files[f].content /\ x.as = "document"
          BY <1>1, <1>2, <2>15 DEF FilesInv, Purposeful, Meant
        <5>2. QED
          BY <1>6, <5>1 DEF For
      <4>3. d \in DOMAIN documents => g = documents[d].file
        BY <2>5, <2>8, <3>1
      <4>4. d \notin DOMAIN documents => g = f
        BY <2>7, <2>8, <3>1
      <4>5. QED
        BY <2>15, <4>1, <4>2, <4>3, <4>4 DEF FilesInv, FilesOwned
    <3>2. ASSUME NEW c \in Vehicles, NEW g \in vehicles[c].photos
          PROVE  \E x \in For(g, "photo")' : x.on = c
      <4>1. For(g, "photo")' = For(g, "photo")
        BY <1>1 DEF For, Stored
      <4>2. QED
        BY <2>15, <4>1 DEF FilesInv, FilesOwned
    <3>3. ASSUME NEW i \in DOMAIN specimens, specimens[i] # None, NEW g, g = specimens[i].file
          PROVE  For(g, "specimen")' # {} /\ g = specimens'[i].file
      <4>1. For(g, "specimen")' = For(g, "specimen")
        BY <1>1 DEF For, Stored
      <4>2. QED
        BY <1>1, <2>15, <3>3, <4>1 DEF FilesInv, FilesOwned
    <3>4. QED
      BY <1>1, <3>1, <3>2, <3>3 DEF FilesOwned
  <2>16. Grows
    BY <1>1, <2>10 DEF Grows
  <2>17. QED
    BY <1>1, <1>3, <1>4, <2>10, <2>13, <2>14, <2>15, <2>16, FilesLater
<1>7. QED
  BY <1>5, <1>6

-----------------------------------------------------------------------------
(* Every step.                                                             *)

LEMMA FilesStepKeeps ==
    ASSUME FilesInv, Common', scene' = scene, NobodyLeaves', NEW r \in Requests, FilesNext(r)
    PROVE  FilesInv'
<1>1. CASE FindFile(r) \/ CreateFile(r) \/ DeleteFile(r)
  BY <1>1, FindFileKeeps, CreateFileKeeps, DeleteFilesKeep
<1>2. CASE \E f \in optimizing : Optimize(f) \/ UnhandledRejection(f)
  BY <1>2, OptimizeKeeps
<1>3. CASE \/ UploadSpecimen(r) \/ InsertSpecimen(r) \/ ActivateSpecimen(r)
           \/ DeactivateSpecimens(r) \/ ActivateOne(r) \/ RemoveSpecimen(r) \/ DeleteSpecimen(r)
  BY <1>3, UploadsKeep, InsertSpecimenKeeps, SpecimenCallsKeep, DeactivateSpecimensKeeps,
     ActivateOneKeeps, DeleteSpecimenKeeps
<1>4. ASSUME NEW v \in Vehicles,
             ArchiveVehicle(r, v) \/ UploadPhoto(r, v) \/ DeletePhoto(r, v) \/ UploadDocument(r, v)
      PROVE  FilesInv'
  BY <1>4, ArchiveVehicleKeeps, UploadsKeep, DeletePhotoKeeps
<1>5. CASE AppendPhoto(r) \/ ReadPhotos(r) \/ WritePhotos(r) \/ CountReferences(r)
  BY <1>5, AppendPhotoKeeps, ReadPhotosKeeps, WritePhotosKeeps, CountReferencesKeeps
<1>6. CASE Supersede(r) \/ InsertDocument(r)
  BY <1>6, SupersedeKeeps, InsertDocumentKeeps
<1>7. QED
  BY <1>1, <1>2, <1>3, <1>4, <1>5, <1>6 DEF FilesNext

LEMMA FilesInvKept ==
    ASSUME FilesInv, [Next]_vars
    PROVE  FilesInv'
<1>1. Common' /\ scene' = scene
  BY StepsKeepCommon DEF FilesInv
<1>2. NobodyLeaves'
  BY NobodyLeavesKept DEF FilesInv
<1>3. ASSUME NEW r \in Requests, FilesNext(r) \/ DeleteUserAndFiles(r)
      PROVE  FilesInv'
  BY <1>1, <1>2, <1>3, FilesStepKeeps, DeleteFilesKeep
<1>4. CASE UNCHANGED fileVars /\ Elsewhere(FileWords)
  <2>1. (Serial' <=> Serial) /\ (OneToOne' <=> OneToOne)
    BY <1>1 DEF Serial, OneToOne, Shared
  <2>2. FilesGrow
    BY <1>4 DEF FilesGrow, FilesInv, FilesType, fileVars
  <2>3. FilesType' /\ Grows /\ DocumentsCurrent' /\ (OneActive => OneActive')
        /\ (FilesOwned => FilesOwned')
    BY <1>1, <2>2, GrowKeeps
  <2>4. ASSUME NEW q \in Requests
        PROVE  /\ WorksOn(q)' /\ (Serial => SeesAll(q)') /\ (OneToOne => Purposeful(q)')
    <3>1. CASE req'[q] = req[q]
      <4>1. specimens' = specimens /\ documents' = documents
        BY <1>4 DEF fileVars
      <4>2. Serial => SeesAll(q)'
        BY <3>1, <4>1 DEF FilesInv, SeesAll, ActiveSpecimens, SpecimensOf, ActiveDocuments
      <4>3. QED
        BY <1>1, <2>2, <2>3, <3>1, <4>2, WorkStays, PurposeStays DEF FilesInv
    <3>2. CASE req'[q].do \notin FileWords
      BY <3>2, NoFileWork
    <3>3. QED
      BY <1>4, <3>1, <3>2 DEF Elsewhere
  <2>5. QED
    BY <1>1, <1>2, <2>1, <2>3, <2>4 DEF FilesInv
<1>5. QED
  BY <1>3, <1>4, FilesElsewhere DEF FilesInv, Common

LEMMA FilesAlways == Spec => []FilesInv
<1>1. Init => FilesInv
  BY FilesStart
<1>2. FilesInv /\ [Next]_vars => FilesInv'
  BY FilesInvKept
<1>3. QED
  BY <1>1, <1>2, PTL DEF Spec

\* Whatever is uploaded, replaced and deleted at once, a vehicle that had a
\* document of a type has an active one; when requests come one after the
\* other it has one, as every user has one active specimen at most; and unless
\* the same content serves two purposes, no photo or document loses its file.
THEOREM FilesAlwaysKept == Spec => []FilesKept
<1>1. ASSUME NEW S, \A i, j \in S : i = j
      PROVE  Cardinality(S) <= 1
  <2>1. CASE S = {}
    BY <2>1, FS_EmptySet
  <2>2. CASE S # {}
    <3>1. PICK i \in S : S = {i}
      BY <1>1, <2>2
    <3>2. QED
      BY <3>1, FS_Singleton
  <2>3. QED
    BY <2>1, <2>2
<1>2. ASSUME FilesInv
      PROVE  FilesKept
  <2>1. ASSUME NEW u \in Users, Serial
        PROVE  Cardinality(ActiveSpecimens(u)) <= 1
    BY <1>1, <1>2, <2>1 DEF FilesInv, OneActive
  <2>2. ASSUME NEW v \in Vehicles, NEW type \in DocumentTypes
        PROVE  /\ DocumentsOf(v, type) # {} => ActiveDocuments(v, type) # {}
               /\ Serial => Cardinality(ActiveDocuments(v, type)) <= 1
    BY <1>1, <1>2 DEF FilesInv, OneActive, DocumentsCurrent
  <2>3. ASSUME OneToOne
        PROVE  /\ \A d \in DOMAIN documents : documents[d].file # 0
               /\ \A v \in Vehicles : \A f \in vehicles[v].photos : Stored(f)
    <3>1. files \in Seq(File \cup {None})
      BY <1>2 DEF FilesInv, FilesType
    <3>2. 0 \notin DOMAIN files
      BY <3>1
    <3>3. \A f, as : For(f, as) # {} => Stored(f) /\ f # 0
      BY <3>2 DEF For, Stored
    <3>4. QED
      BY <1>2, <2>3, <3>3 DEF FilesInv, FilesOwned
  <2>4. QED
    BY <2>1, <2>2, <2>3 DEF FilesKept, DocumentsOf
<1>3. QED
  BY <1>2, FilesAlways, PTL

-----------------------------------------------------------------------------
(* The papers that are signed.                                             *)

SignatureWork ==
    [do : {"markPending", "enqueue"}, paper : Papers, specimen : Nat \ {0}]
    \cup [do : {"writeJobId"}, paper : Papers, id : Nat]

Asks(r) ==
    /\ req[r].do \in SigningWords => req[r] \in SignatureWork
    /\ req[r].do = "writeJobId" => req[r].id <= jobCount

\* A signature is put on the version before it, by the one job at work: what
\* that has read is what is there.
Stacked ==
    /\ \A p \in Papers : \A i \in DOMAIN papers[p].versions : papers[p].versions[i].base = i - 1
    /\ At("write") => worker.versions = papers[Job.paper].versions

\* It has validated each of its signatures but the one it is about to; without
\* a death in between, no other either.
Unvalidated(p) == IF At("validate") /\ Job.paper = p THEN 1 ELSE 0

ValidatedOnce ==
    \A p \in Papers :
        /\ papers[p].validated + Unvalidated(p) <= Len(papers[p].versions)
        /\ deaths = 0 => papers[p].validated + Unvalidated(p) = Len(papers[p].versions)

\* Without a death, no more signatures than jobs that have come so far.
Signatures == SumFunction([p \in Papers |-> Len(papers[p].versions)])
OncePerJob == deaths = 0 => Signatures <= Over

SigningInv ==
    /\ Common /\ SigningType /\ Stacked /\ ValidatedOnce /\ OncePerJob
    /\ \A r \in Requests : Asks(r)

LEMMA SigningElsewhere ==
    ASSUME KnownWork, [Next]_vars
    PROVE  SigningNext \/ (UNCHANGED signingVars /\ Elsewhere(SigningWords))
<1>1. CASE UNCHANGED vars
  BY <1>1 DEF vars, Elsewhere
<1>2. ASSUME NEW words \in {BudgetWords, NumbersWords, TicketWords, StockWords, PvWords,
                            AccountWords, FileWords, LeaseWords, ReportWords}, Leaves(words)
      PROVE  Elsewhere(SigningWords)
  <2>1. words \cap SigningWords = {} /\ "idle" \notin SigningWords
    BY DEF BudgetWords, NumbersWords, TicketWords, StockWords, AccountWords, FileWords,
           SigningWords, LeaseWords, PvWords, ReportWords
  <2>2. QED
    BY <1>2, <2>1, LeavesElsewhere
<1>4. ASSUME NEW r \in Requests, BudgetStep(r) \/ TicketsStep(r) \/ StockStep(r)
      PROVE  UNCHANGED signingVars /\ Elsewhere(SigningWords)
  BY <1>2, <1>4, BudgetLeaves, TicketsLeave, StockLeaves, NumbersLeave
     DEF BudgetStep, TicketsStep, StockStep
<1>5. ASSUME NEW r \in Requests, AccountsStep(r)
      PROVE  UNCHANGED signingVars /\ Elsewhere(SigningWords)
  BY <1>2, <1>5, AccountsLeave, FilesLeave DEF AccountsStep, DeleteUserAndFiles
<1>6. ASSUME NEW r \in Requests, LeasesStep(r) \/ PvStep(r) \/ OtherStep(r)
      PROVE  UNCHANGED signingVars /\ Elsewhere(SigningWords)
  BY <1>2, <1>6, LeasesLeave, PvLeaves, OtherLeaves DEF LeasesStep, PvStep, OtherStep
<1>7. QED
  BY <1>1, <1>4, <1>5, <1>6 DEF Next, SigningStep

LEMMA SigningStart ==
    ASSUME Init
    PROVE  SigningInv
<1>1. Common /\ \A r \in Requests : req[r] = Idle
  BY StartCommon, StartKnown
<1>2. /\ papers = [p \in Papers |->
            [status |-> None, jobId |-> 0, versions |-> << >>, validated |-> 0]]
      /\ queue = << >> /\ jobCount = 0 /\ worker = None /\ deaths = 0
  BY DEF Init, SigningInit
<1>3. [status |-> None, jobId |-> 0, versions |-> << >>, validated |-> 0] \in Paper
  BY DEF Paper
<1>4. SigningType
  BY <1>2, <1>3 DEF SigningType
<1>5. Stacked /\ ValidatedOnce
  BY <1>2 DEF Stacked, ValidatedOnce, Unvalidated, At
<1>6. OncePerJob
  <2> DEFINE f == [p \in Papers |-> Len(papers[p].versions)]
  <2>1. f = [p \in Papers |-> 0]
    BY <1>2
  <2>2. DOMAIN f = Papers /\ \A p \in Papers : f[p] = 0
    BY <2>1
  <2>3. SumFunctionOnSet(f, Papers) = 0
    <3> HIDE DEF f
    <3>1. QED
      BY <2>2, SigningAssumption, SumOfZeros
  <2>4. Signatures = 0
    BY <2>2, <2>3 DEF Signatures, SumFunction
  <2>5. Over = 0
    <3>1. Len(queue) = 0 /\ ~At("validate") /\ ~At("end")
      BY <1>2 DEF At
    <3>2. QED
      BY <1>2, <3>1 DEF Over
  <2>6. QED
    BY <2>4, <2>5 DEF OncePerJob
<1>7. \A r \in Requests : Asks(r)
  BY <1>1 DEF Asks, Idle, SigningWords
<1>8. QED
  BY <1>1, <1>4, <1>5, <1>6, <1>7 DEF SigningInv

\* The papers' versions and validations stand, whatever their status becomes.
PapersStand ==
    \A p \in Papers : /\ papers'[p].versions = papers[p].versions
                      /\ papers'[p].validated = papers[p].validated

LEMMA StatusWritten ==
    ASSUME SigningType, NEW p \in Papers, NEW s \in SigningStatus,
           papers' = [papers EXCEPT ![p].status = s]
    PROVE  /\ papers' \in [Papers -> Paper] /\ PapersStand
           /\ \A q \in Papers : papers'[q].jobId = papers[q].jobId
<1>1. papers \in [Papers -> Paper]
  BY DEF SigningType
<1>2. papers[p] \in Paper
  BY <1>1
<1>3. [papers[p] EXCEPT !.status = s] \in Paper
  BY <1>2 DEF Paper
<1>4. papers' = [papers EXCEPT ![p] = [papers[p] EXCEPT !.status = s]]
  OBVIOUS
<1>5. papers' \in [Papers -> Paper]
  BY <1>1, <1>3, <1>4
<1>6. /\ [papers[p] EXCEPT !.status = s].versions = papers[p].versions
      /\ [papers[p] EXCEPT !.status = s].validated = papers[p].validated
      /\ [papers[p] EXCEPT !.status = s].jobId = papers[p].jobId
  BY <1>2 DEF Paper
<1>7. \A q \in Papers : papers'[q] = IF q = p THEN [papers[p] EXCEPT !.status = s] ELSE papers[q]
  BY <1>1, <1>4
<1>8. QED
  BY <1>5, <1>6, <1>7 DEF PapersStand

LEMMA SignaturesStand ==
    ASSUME PapersStand
    PROVE  Signatures' = Signatures
BY DEF PapersStand, Signatures

LEMMA AsksNext ==
    ASSUME SigningInv, SigningType', jobCount <= jobCount', NEW r \in Requests,
           \A q \in Requests \ {r} : req'[q] = req[q], Asks(r)'
    PROVE  \A q \in Requests : Asks(q)'
<1>1. ASSUME NEW q \in Requests \ {r}
      PROVE  Asks(q)'
  <2>1. req'[q] = req[q] /\ Asks(q) /\ jobCount \in Nat /\ jobCount' \in Nat
    BY DEF SigningInv, SigningType
  <2>2. req[q].do = "writeJobId" => req[q].id \in Nat
    BY <2>1 DEF Asks, SigningWords, SignatureWork
  <2>3. QED
    BY <2>1, <2>2 DEF Asks
<1>2. QED
  BY <1>1

\* The steps of a request that leave the worker where it is.
LEMMA AsideKeeps ==
    ASSUME SigningInv, SigningType', Common', PapersStand, UNCHANGED << worker, deaths >>,
           worker # None => Job' = Job,
           jobCount' - Len(queue') = jobCount - Len(queue), \A q \in Requests : Asks(q)'
    PROVE  SigningInv'
<1>1. \A step : At(step)' <=> At(step)
  BY DEF At
<1>2. \A step : At(step) => worker # None
  BY DEF At
<1>3. worker # None => Job \in SigningJob
  BY DEF SigningInv, SigningType, Job
<1>4. At("write") => Job \in SigningJob /\ Job' = Job
  BY <1>2, <1>3
<1>5. At("write") => Job.paper \in Papers
  BY <1>4 DEF SigningJob
<1>6. Stacked'
  <2>1. \A p \in Papers : \A i \in DOMAIN papers'[p].versions : papers'[p].versions[i].base = i - 1
    BY DEF PapersStand, SigningInv, Stacked
  <2>2. At("write")' => worker'.versions = papers'[Job'.paper].versions
    BY <1>1, <1>4, <1>5 DEF PapersStand, SigningInv, Stacked
  <2>3. QED
    BY <2>1, <2>2 DEF Stacked
<1>7. ValidatedOnce'
  <2>1. \A p : Unvalidated(p)' = Unvalidated(p)
    BY <1>1, <1>2 DEF Unvalidated
  <2>2. QED
    BY <2>1 DEF PapersStand, SigningInv, ValidatedOnce
<1>8. OncePerJob'
  BY <1>1, SignaturesStand DEF SigningInv, OncePerJob, Over
<1>9. QED
  BY <1>6, <1>7, <1>8 DEF SigningInv

LEMMA AwaitAlone ==
    ASSUME SigningInv, NEW r \in Requests, NEW w, Await(r, w)
    PROVE  req'[r] = w /\ \A q \in Requests \ {r} : req'[q] = req[q]
BY DEF Await, SigningInv, Common, KnownWork

LEMMA SignStepKeeps ==
    ASSUME SigningInv, FilesType, Common', NEW r \in Requests, NEW p \in Papers, SignStep(r, p)
    PROVE  SigningInv'
<1>1. PICK u \in Users : \E i \in ActiveSpecimens(u) :
        Await(r, [do |-> "markPending", paper |-> p, specimen |-> i])
  BY DEF SignStep
<1>2. PICK i \in Nat \ {0} : Await(r, [do |-> "markPending", paper |-> p, specimen |-> i])
  BY <1>1 DEF ActiveSpecimens, SpecimensOf, FilesType
<1>3. /\ req'[r] = [do |-> "markPending", paper |-> p, specimen |-> i]
      /\ \A q \in Requests \ {r} : req'[q] = req[q]
  BY <1>2, AwaitAlone
<1>4. Asks(r)'
  BY <1>2, <1>3 DEF Asks, SignatureWork
<1>5. UNCHANGED signingVars
  BY DEF SignStep
<1>6. SigningType' /\ PapersStand /\ Job' = Job
  BY <1>5 DEF signingVars, SigningInv, SigningType, PapersStand, Job
<1>7. \A q \in Requests : Asks(q)'
  BY <1>3, <1>4, <1>5, <1>6, AsksNext DEF signingVars, SigningInv, SigningType
<1>8. QED
  BY <1>5, <1>6, <1>7, AsideKeeps DEF signingVars

LEMMA AskedFor ==
    ASSUME SigningInv, NEW r \in Requests, req[r].do \in {"markPending", "enqueue"}
    PROVE  req[r] \in [do : {"markPending", "enqueue"}, paper : Papers, specimen : Nat \ {0}]
BY DEF SigningInv, Asks, SigningWords, SignatureWork

LEMMA MarkPendingKeeps ==
    ASSUME SigningInv, Common', NEW r \in Requests, MarkPending(r)
    PROVE  SigningInv'
<1> DEFINE w == [req[r] EXCEPT !.do = "enqueue"]
<1>1. req[r].do = "markPending" /\ Await(r, w) /\ UNCHANGED << queue, jobCount, worker, deaths >>
  BY DEF MarkPending
<1>2. req[r] \in [do : {"markPending", "enqueue"}, paper : Papers, specimen : Nat \ {0}]
  BY <1>1, AskedFor
<1>3. w \in SignatureWork /\ w.do = "enqueue" /\ req[r].paper \in Papers
  BY <1>2 DEF SignatureWork
<1> HIDE DEF w
<1>4. req'[r] = w /\ \A q \in Requests \ {r} : req'[q] = req[q]
  BY <1>1, AwaitAlone
<1>5. Asks(r)'
  BY <1>3, <1>4 DEF Asks
<1>6. /\ papers' \in [Papers -> Paper] /\ PapersStand
      /\ \A q \in Papers : papers'[q].jobId = papers[q].jobId
  BY <1>3, StatusWritten DEF MarkPending, SigningInv, SigningStatus
<1>7. SigningType' /\ Job' = Job
  BY <1>1, <1>6 DEF SigningInv, SigningType, Job
<1>8. \A q \in Requests : Asks(q)'
  BY <1>1, <1>4, <1>5, <1>7, AsksNext DEF SigningInv, SigningType
<1>9. QED
  BY <1>1, <1>6, <1>7, <1>8, AsideKeeps

LEMMA EnqueueKeeps ==
    ASSUME SigningInv, Common', NEW r \in Requests, Enqueue(r)
    PROVE  SigningInv'
<1> DEFINE id == jobCount + 1
           new == [id |-> id, paper |-> req[r].paper, specimen |-> req[r].specimen, stalled |-> 0]
           w == [do |-> "writeJobId", paper |-> req[r].paper, id |-> id]
<1>1. /\ req[r].do = "enqueue" /\ Await(r, w) /\ UNCHANGED << papers, worker, deaths >>
      /\ queue' = Append(queue, new) /\ jobCount' = id
  BY DEF Enqueue
<1>2. req[r].paper \in Papers /\ req[r].specimen \in Nat \ {0}
  BY <1>1, AskedFor
<1>3. jobCount \in Nat /\ queue \in Seq(SigningJob)
  BY DEF SigningInv, SigningType
<1>4. new \in SigningJob /\ w \in SignatureWork /\ w.do = "writeJobId" /\ w.id = id /\ new.id = id
  BY <1>2, <1>3 DEF SigningJob, SignatureWork
<1>5. id \in Nat /\ jobCount <= id
  BY <1>3
<1>6. \A i \in DOMAIN queue : queue[i].id \in Nat
  <2>1. \A job \in SigningJob : job.id \in Nat
    BY DEF SigningJob
  <2>2. QED
    BY <1>3, <2>1
<1>7. papers \in [Papers -> Paper] /\ \A p \in Papers : papers[p].jobId \in Nat
  BY DEF SigningInv, SigningType, Paper
<1>8. id = jobCount + 1
  OBVIOUS
<1> HIDE DEF w, new, id
<1>9. /\ queue' \in Seq(SigningJob) /\ queue' # << >> /\ Len(queue') = Len(queue) + 1
      /\ DOMAIN queue' = DOMAIN queue \cup {Len(queue) + 1}
      /\ \A i \in DOMAIN queue : queue'[i] = queue[i]
      /\ queue'[Len(queue) + 1] = new
  BY <1>1, <1>3, <1>4
<1>10. \A i \in DOMAIN queue' : queue'[i].id <= id
  BY <1>3, <1>4, <1>5, <1>6, <1>9 DEF SigningInv, SigningType
<1>11. SigningType'
  BY <1>1, <1>3, <1>5, <1>7, <1>9, <1>10 DEF SigningInv, SigningType
<1>12. worker # None => Job' = Job
  <2>1. worker # None => queue # << >>
    BY DEF SigningInv, SigningType
  <2>2. queue # << >> => 1 \in DOMAIN queue
    BY <1>3
  <2>3. QED
    BY <1>3, <1>9, <2>1, <2>2 DEF Job
<1>13. req'[r] = w /\ \A q \in Requests \ {r} : req'[q] = req[q]
  BY <1>1, AwaitAlone
<1>14. Asks(r)'
  BY <1>1, <1>4, <1>5, <1>13 DEF Asks
<1>15. \A q \in Requests : Asks(q)'
  BY <1>1, <1>5, <1>11, <1>13, <1>14, AsksNext
<1>16. jobCount' - Len(queue') = jobCount - Len(queue)
  BY <1>1, <1>3, <1>8, <1>9
<1>17. QED
  BY <1>1, <1>11, <1>12, <1>15, <1>16, AsideKeeps DEF PapersStand

LEMMA WriteJobIdKeeps ==
    ASSUME SigningInv, Common', NEW r \in Requests, WriteJobId(r)
    PROVE  SigningInv'
<1>1. req[r].do = "writeJobId" /\ Done(r) /\ UNCHANGED << queue, jobCount, worker, deaths >>
  BY DEF WriteJobId
<1>2. /\ req[r].paper \in Papers /\ req[r].id \in Nat /\ req[r].id <= jobCount
  BY <1>1 DEF SigningInv, Asks, SigningWords, SignatureWork
<1>3. papers \in [Papers -> Paper] /\ \A p \in Papers : papers[p].jobId <= jobCount
  BY DEF SigningInv, SigningType
<1>4. PICK p \in Papers, id \in Nat : p = req[r].paper /\ id = req[r].id
  BY <1>2
<1>5. papers' = [papers EXCEPT ![p] = [papers[p] EXCEPT !.jobId = id]]
  BY <1>4 DEF WriteJobId
<1>6. papers[p] \in Paper
  BY <1>3
<1>7. /\ [papers[p] EXCEPT !.jobId = id] \in Paper
      /\ [papers[p] EXCEPT !.jobId = id].versions = papers[p].versions
      /\ [papers[p] EXCEPT !.jobId = id].validated = papers[p].validated
      /\ [papers[p] EXCEPT !.jobId = id].jobId = id
  BY <1>6 DEF Paper
<1>8. \A q \in Papers : papers'[q] = IF q = p THEN [papers[p] EXCEPT !.jobId = id] ELSE papers[q]
  BY <1>3, <1>5
<1>9. papers' \in [Papers -> Paper]
  BY <1>3, <1>5, <1>7
<1>10. PapersStand /\ \A q \in Papers : papers'[q].jobId <= jobCount
  BY <1>2, <1>3, <1>4, <1>7, <1>8 DEF PapersStand
<1>11. SigningType' /\ Job' = Job
  BY <1>1, <1>9, <1>10 DEF SigningInv, SigningType, Job
<1>12. req'[r] = Idle /\ \A q \in Requests \ {r} : req'[q] = req[q]
  BY <1>1, AwaitAlone DEF Done
<1>13. Asks(r)'
  BY <1>12 DEF Asks, Idle, SigningWords
<1>14. \A q \in Requests : Asks(q)'
  BY <1>1, <1>11, <1>12, <1>13, AsksNext DEF SigningInv, SigningType
<1>15. QED
  BY <1>1, <1>10, <1>11, <1>14, AsideKeeps

-----------------------------------------------------------------------------
\* The worker.

\* The job at the head, when there is one.
LEMMA HeadOfQueue ==
    ASSUME SigningInv, queue # << >>
    PROVE  /\ Job \in SigningJob /\ Job.paper \in Papers /\ Job.specimen \in Nat \ {0}
           /\ 1 \in DOMAIN queue /\ Job = queue[1] /\ Len(queue) \in Nat \ {0}
           /\ Tail(queue) \in Seq(SigningJob) /\ Len(Tail(queue)) = Len(queue) - 1
           /\ \A i \in DOMAIN Tail(queue) : i + 1 \in DOMAIN queue /\ Tail(queue)[i] = queue[i + 1]
<1>1. queue \in Seq(SigningJob)
  BY DEF SigningInv, SigningType
<1>2. Job \in SigningJob /\ 1 \in DOMAIN queue /\ Job = queue[1] /\ Len(queue) \in Nat \ {0}
  BY <1>1 DEF Job
<1>3. Job.paper \in Papers /\ Job.specimen \in Nat \ {0}
  BY <1>2 DEF SigningJob
<1>4. /\ Tail(queue) \in Seq(SigningJob) /\ Len(Tail(queue)) = Len(queue) - 1
      /\ \A i \in DOMAIN Tail(queue) : i + 1 \in DOMAIN queue /\ Tail(queue)[i] = queue[i + 1]
  BY <1>1
<1>5. QED
  BY <1>2, <1>3, <1>4

\* What the worker does is no request's.
LEMMA AsksStand ==
    ASSUME SigningInv, req' = req, jobCount' = jobCount
    PROVE  \A q \in Requests : Asks(q)'
BY DEF SigningInv, Asks

LEMMA ProcessKeeps ==
    ASSUME SigningInv, Common', Process, req' = req
    PROVE  SigningInv'
<1>1. /\ worker = None /\ queue # << >> /\ UNCHANGED << queue, jobCount, deaths >>
      /\ worker' = [at |-> "load"] /\ worker' \in Progress /\ worker' # None
  BY SigningAssumption DEF Process, Progress
<1>2. Job.paper \in Papers /\ Job' = Job
  BY <1>1, HeadOfQueue DEF Job
<1>3. /\ papers' \in [Papers -> Paper] /\ PapersStand
      /\ \A q \in Papers : papers'[q].jobId = papers[q].jobId
  BY <1>2, StatusWritten DEF Process, SigningInv, SigningStatus
<1>4. SigningType'
  BY <1>1, <1>3 DEF SigningInv, SigningType
<1>5. \A step \in {"write", "validate", "end"} : ~At(step) /\ ~At(step)'
  BY <1>1 DEF At
<1>6. Stacked' /\ ValidatedOnce'
  BY <1>1, <1>3, <1>5 DEF SigningInv, Stacked, ValidatedOnce, Unvalidated, PapersStand
<1>7. OncePerJob'
  BY <1>1, <1>3, <1>5, SignaturesStand DEF SigningInv, OncePerJob, Over
<1>8. QED
  BY <1>1, <1>4, <1>6, <1>7, AsksStand DEF SigningInv

LEMMA LoadKeeps ==
    ASSUME SigningInv, Common', Load, req' = req
    PROVE  SigningInv'
<1>1. /\ worker # None /\ worker.at = "load" /\ UNCHANGED << papers, queue, jobCount, deaths >>
      /\ worker' = [at |-> "write", versions |-> papers[Job.paper].versions]
  BY DEF Load, At
<1>2. queue # << >>
  BY <1>1 DEF SigningInv, SigningType
<1>3. Job.paper \in Papers /\ Job' = Job
  BY <1>1, <1>2, HeadOfQueue DEF Job
<1>4. papers[Job.paper].versions \in Seq(Version)
  <2>1. \A paper \in Paper : paper.versions \in Seq(Version)
    BY DEF Paper
  <2>2. QED
    BY <1>3, <2>1 DEF SigningInv, SigningType
<1>5. worker' \in Progress /\ worker' # None
  BY <1>1, <1>4, SigningAssumption DEF Progress
<1>6. SigningType'
  BY <1>1, <1>2, <1>5 DEF SigningInv, SigningType
<1>7. \A step \in {"validate", "end"} : ~At(step) /\ ~At(step)'
  BY <1>1 DEF At
<1>8. Stacked' /\ ValidatedOnce'
  BY <1>1, <1>3, <1>7 DEF SigningInv, Stacked, ValidatedOnce, Unvalidated
<1>9. OncePerJob'
  BY <1>1, <1>7 DEF SigningInv, OncePerJob, Over, Signatures
<1>10. QED
  BY <1>1, <1>6, <1>8, <1>9, AsksStand DEF SigningInv

\* One more signature, in the place after those there are.
LEMMA WriteVersionsKeeps ==
    ASSUME SigningInv, Common', WriteVersions, req' = req
    PROVE  SigningInv'
<1>1. /\ worker # None /\ worker.at = "write" /\ UNCHANGED << queue, jobCount, deaths >>
      /\ worker' = [at |-> "validate"]
  BY DEF WriteVersions, At
<1>2. queue # << >>
  BY <1>1 DEF SigningInv, SigningType
<1>3. PICK p \in Papers, s \in Nat \ {0} : p = Job.paper /\ s = Job.specimen
  BY <1>2, HeadOfQueue
<1>4. papers \in [Papers -> Paper]
  BY DEF SigningInv, SigningType
<1>5. papers[p] \in Paper
  BY <1>4
<1>6. PICK versions \in Seq(Version) : versions = papers[p].versions
  BY <1>5 DEF Paper
<1>7. worker.versions = versions
  BY <1>1, <1>3, <1>6 DEF SigningInv, Stacked, At
<1>8. PICK longer : longer = Append(versions, [base |-> Len(versions), specimen |-> s])
  OBVIOUS
<1>9. Sign(worker.versions) = longer
  BY <1>3, <1>7, <1>8 DEF Sign
<1>10. [base |-> Len(versions), specimen |-> s] \in Version
  BY DEF Version
<1>11. /\ longer \in Seq(Version) /\ Len(longer) = Len(versions) + 1
       /\ \A i \in DOMAIN longer : longer[i].base = i - 1
  <2>1. \A i \in DOMAIN versions : versions[i].base = i - 1
    BY <1>6 DEF SigningInv, Stacked
  <2>2. QED
    BY <1>8, <1>10, <2>1
<1>12. PICK row : row = [papers[p] EXCEPT !.status = "DONE", !.versions = longer]
  OBVIOUS
<1>13. row \in Paper /\ row.versions = longer /\ row.validated = papers[p].validated
       /\ row.jobId = papers[p].jobId
  BY <1>5, <1>11, <1>12 DEF Paper, SigningStatus
<1>14. papers' = [papers EXCEPT ![p] = row]
  BY <1>3, <1>4, <1>9, <1>12 DEF WriteVersions
<1>15. \A q \in Papers : papers'[q] = IF q = p THEN row ELSE papers[q]
  BY <1>4, <1>14
<1>16. worker' \in Progress /\ worker' # None
  BY <1>1, SigningAssumption DEF Progress
<1>17. SigningType'
  BY <1>1, <1>2, <1>4, <1>13, <1>14, <1>15, <1>16 DEF SigningInv, SigningType
<1>18. ~At("validate") /\ ~At("end") /\ At("validate")' /\ ~At("end")' /\ ~At("write")'
  BY <1>1, <1>16 DEF At
<1>19. Job' = Job
  BY <1>1 DEF Job
<1>20. Stacked'
  BY <1>11, <1>13, <1>15, <1>18 DEF SigningInv, Stacked
<1>21. ValidatedOnce'
  <2>1. ASSUME NEW q \in Papers
        PROVE  /\ papers'[q].validated + Unvalidated(q)' <= Len(papers'[q].versions)
               /\ deaths = 0 =>
                    papers'[q].validated + Unvalidated(q)' = Len(papers'[q].versions)
    <3>1. Unvalidated(q) = 0 /\ Unvalidated(q)' = IF q = p THEN 1 ELSE 0
      BY <1>3, <1>18, <1>19 DEF Unvalidated
    <3>2. /\ papers[q].validated <= Len(papers[q].versions)
          /\ deaths = 0 => papers[q].validated = Len(papers[q].versions)
          /\ papers[q].validated \in Nat
      <4>1. papers[q].validated \in Nat
        BY <1>4 DEF Paper
      <4>2. QED
        BY <3>1, <4>1 DEF SigningInv, ValidatedOnce
    <3>3. Len(versions) \in Nat
      BY <1>6
    <3>4. CASE q = p
      <4>1. /\ papers'[q].validated = papers[q].validated /\ papers'[q].versions = longer
            /\ Len(papers[q].versions) = Len(versions)
        BY <1>6, <1>13, <1>15, <3>4
      <4>2. QED
        BY <1>11, <3>1, <3>2, <3>3, <3>4, <4>1
    <3>5. CASE q # p
      <4>1. papers'[q] = papers[q]
        BY <1>15, <3>5
      <4>2. QED
        BY <3>1, <3>2, <3>5, <4>1
    <3>6. QED
      BY <3>4, <3>5
  <2>2. QED
    BY <1>1, <2>1 DEF ValidatedOnce
<1>22. OncePerJob'
  <2> DEFINE f == [q \in Papers |-> Len(papers[q].versions)]
             h == [q \in Papers |-> Len(papers'[q].versions)]
  <2>1. \A q \in Papers : f[q] \in Int /\ h[q] \in Int
    <3>1. papers' \in [Papers -> Paper]
      BY <1>17 DEF SigningType
    <3>2. \A paper \in Paper : Len(paper.versions) \in Int
      BY DEF Paper
    <3>3. QED
      BY <1>4, <3>1, <3>2
  <2>2. \A q \in Papers \ {p} : f[q] = h[q]
    BY <1>15
  <2>3. h[p] - f[p] = 1
    <3>1. Len(versions) \in Nat
      BY <1>6
    <3>2. f[p] = Len(versions) /\ h[p] = Len(versions) + 1
      BY <1>6, <1>11, <1>13, <1>15
    <3>3. QED
      BY <3>1, <3>2
  <2>4. SumFunctionOnSet(f, Papers) \in Int
        /\ SumFunctionOnSet(h, Papers) = SumFunctionOnSet(f, Papers) + 1
    <3> HIDE DEF f, h
    <3>1. SumFunctionOnSet(h, Papers) = SumFunctionOnSet(f, Papers) + (h[p] - f[p])
      BY <2>1, <2>2, SumChanges, SigningAssumption
    <3>2. SumFunctionOnSet(f, Papers) \in Int
      BY <2>1, SumIsInt, SigningAssumption
    <3>3. QED
      BY <2>3, <3>1, <3>2
  <2>5. DOMAIN f = Papers /\ DOMAIN h = Papers
    OBVIOUS
  <2>6. Signatures = SumFunctionOnSet(f, Papers) /\ Signatures' = SumFunctionOnSet(h, Papers)
    BY <2>5 DEF Signatures, SumFunction
  <2>7. Signatures \in Int /\ Signatures' = Signatures + 1
    <3> HIDE DEF f, h
    <3>1. QED
      BY <2>4, <2>6
  <2>8. Over' = Over + 1 /\ Over \in Int
    <3>1. jobCount \in Nat /\ Len(queue) \in Nat
      BY DEF SigningInv, SigningType
    <3>2. QED
      BY <1>1, <1>18, <3>1 DEF Over
  <2>9. QED
    BY <1>1, <2>7, <2>8 DEF SigningInv, OncePerJob
<1>23. QED
  BY <1>1, <1>17, <1>20, <1>21, <1>22, AsksStand DEF SigningInv

LEMMA RunValidationKeeps ==
    ASSUME SigningInv, Common', RunValidation, req' = req
    PROVE  SigningInv'
<1>1. /\ worker # None /\ worker.at = "validate" /\ UNCHANGED << queue, jobCount, deaths >>
      /\ worker' = [at |-> "end"] /\ worker' \in Progress /\ worker' # None
  BY SigningAssumption DEF RunValidation, At, Progress
<1>2. queue # << >>
  BY <1>1 DEF SigningInv, SigningType
<1>3. PICK p \in Papers : p = Job.paper
  BY <1>2, HeadOfQueue
<1>4. papers \in [Papers -> Paper]
  BY DEF SigningInv, SigningType
<1>5. papers[p] \in Paper /\ papers[p].validated \in Nat
  BY <1>4 DEF Paper
<1>6. PICK n \in Nat : n = papers[p].validated + 1
  BY <1>5
<1>7. PICK row : row = [papers[p] EXCEPT !.validated = n]
  OBVIOUS
<1>8. row \in Paper /\ row.versions = papers[p].versions /\ row.validated = n
      /\ row.jobId = papers[p].jobId
  BY <1>5, <1>7 DEF Paper
<1>9. papers' = [papers EXCEPT ![p] = row]
  BY <1>3, <1>4, <1>6, <1>7 DEF RunValidation
<1>10. \A q \in Papers : papers'[q] = IF q = p THEN row ELSE papers[q]
  BY <1>4, <1>9
<1>11. SigningType'
  BY <1>1, <1>2, <1>4, <1>8, <1>9, <1>10 DEF SigningInv, SigningType
<1>12. /\ At("validate") /\ ~At("end") /\ ~At("validate")' /\ At("end")' /\ ~At("write")'
  BY <1>1 DEF At
<1>13. \A q \in Papers : papers'[q].versions = papers[q].versions
  BY <1>8, <1>10
<1>14. Stacked'
  BY <1>12, <1>13 DEF SigningInv, Stacked
<1>15. ValidatedOnce'
  <2>1. ASSUME NEW q \in Papers
        PROVE  papers'[q].validated + Unvalidated(q)' = papers[q].validated + Unvalidated(q)
    <3>1. Unvalidated(q)' = 0 /\ Unvalidated(q) = IF q = p THEN 1 ELSE 0
      BY <1>3, <1>12 DEF Unvalidated
    <3>2. papers'[q].validated = IF q = p THEN n ELSE papers[q].validated
      BY <1>8, <1>10
    <3>3. papers[q].validated \in Nat
      BY <1>4 DEF Paper
    <3>4. QED
      BY <1>5, <1>6, <3>1, <3>2, <3>3
  <2>2. QED
    BY <1>1, <1>13, <2>1 DEF SigningInv, ValidatedOnce
<1>16. OncePerJob'
  <2>1. Signatures' = Signatures
    BY <1>13 DEF Signatures
  <2>2. QED
    BY <1>1, <1>12, <2>1 DEF SigningInv, OncePerJob, Over
<1>17. QED
  BY <1>1, <1>11, <1>14, <1>15, <1>16, AsksStand DEF SigningInv

LEMMA EndJobKeeps ==
    ASSUME SigningInv, Common', EndJob, req' = req
    PROVE  SigningInv'
<1>1. /\ worker # None /\ worker.at = "end" /\ UNCHANGED << papers, jobCount, deaths >>
      /\ queue' = Tail(queue) /\ worker' = None
  BY DEF EndJob, At
<1>2. queue # << >>
  BY <1>1 DEF SigningInv, SigningType
<1>3. /\ queue' \in Seq(SigningJob) /\ Len(queue') = Len(queue) - 1 /\ Len(queue) \in Nat
      /\ \A i \in DOMAIN queue' : queue'[i].id <= jobCount
  BY <1>1, <1>2, HeadOfQueue DEF SigningInv, SigningType
<1>4. SigningType'
  BY <1>1, <1>3 DEF SigningInv, SigningType
<1>5. /\ ~At("validate") /\ At("end") /\ \A step : ~At(step)'
  BY <1>1 DEF At
<1>6. Stacked' /\ ValidatedOnce'
  BY <1>1, <1>5 DEF SigningInv, Stacked, ValidatedOnce, Unvalidated
<1>7. OncePerJob'
  <2>1. jobCount \in Nat
    BY DEF SigningInv, SigningType
  <2>2. Over' = Over
    BY <1>1, <1>3, <1>5, <2>1 DEF Over
  <2>3. QED
    BY <1>1, <2>2 DEF SigningInv, OncePerJob, Signatures
<1>8. QED
  BY <1>1, <1>4, <1>6, <1>7, AsksStand DEF SigningInv

LEMMA FailJobKeeps ==
    ASSUME SigningInv, Common', FailJob, req' = req
    PROVE  SigningInv'
<1>1. /\ worker # None /\ worker.at = "load" /\ UNCHANGED << queue, jobCount, deaths >>
      /\ worker' = [at |-> "end"] /\ worker' \in Progress /\ worker' # None
  BY SigningAssumption DEF FailJob, At, Progress
<1>2. queue # << >>
  BY <1>1 DEF SigningInv, SigningType
<1>3. Job.paper \in Papers /\ Job' = Job
  BY <1>1, <1>2, HeadOfQueue DEF Job
<1>4. /\ papers' \in [Papers -> Paper] /\ PapersStand
      /\ \A q \in Papers : papers'[q].jobId = papers[q].jobId
  BY <1>3, StatusWritten DEF FailJob, SigningInv, SigningStatus
<1>5. SigningType'
  BY <1>1, <1>2, <1>4 DEF SigningInv, SigningType
<1>6. /\ ~At("validate") /\ ~At("end") /\ ~At("validate")' /\ At("end")' /\ ~At("write")'
  BY <1>1 DEF At
<1>7. Stacked' /\ ValidatedOnce'
  BY <1>1, <1>4, <1>6 DEF SigningInv, Stacked, ValidatedOnce, Unvalidated, PapersStand
<1>8. OncePerJob'
  <2>1. jobCount \in Nat /\ Len(queue) \in Nat
    BY DEF SigningInv, SigningType
  <2>2. Over' = Over + 1 /\ Over \in Int
    BY <1>1, <1>6, <2>1 DEF Over
  <2>3. Signatures' = Signatures
    BY <1>4, SignaturesStand
  <2>4. Signatures \in Int
    <3> DEFINE f == [q \in Papers |-> Len(papers[q].versions)]
    <3>1. \A q \in Papers : f[q] \in Int
      <4>1. \A paper \in Paper : Len(paper.versions) \in Int
        BY DEF Paper
      <4>2. QED
        BY <4>1 DEF SigningInv, SigningType
    <3>2. DOMAIN f = Papers
      OBVIOUS
    <3>3. SumFunctionOnSet(f, Papers) \in Int
      <4> HIDE DEF f
      <4>1. QED
        BY <3>1, SumIsInt, SigningAssumption
    <3>4. QED
      BY <3>2, <3>3 DEF Signatures, SumFunction
  <2>5. QED
    BY <1>1, <2>2, <2>3, <2>4 DEF SigningInv, OncePerJob
<1>9. QED
  BY <1>1, <1>5, <1>7, <1>8, AsksStand DEF SigningInv

\* What is written stays; the job that was at work, and perhaps had signed,
\* is started again once.
LEMMA DieKeeps ==
    ASSUME SigningInv, Common', Die
    PROVE  SigningInv'
<1>1. /\ deaths' = deaths + 1 /\ req' = [r \in Requests |-> Idle] /\ worker' = None
      /\ UNCHANGED << papers, jobCount >>
  BY DEF Die
<1>2. queue' \in Seq(SigningJob) /\ \A i \in DOMAIN queue' : queue'[i].id <= jobCount
  <2>1. /\ queue \in Seq(SigningJob) /\ (worker # None => queue # << >>)
        /\ \A i \in DOMAIN queue : queue[i].id <= jobCount
    BY DEF SigningInv, SigningType
  <2>2. CASE worker = None
    BY <2>1, <2>2 DEF Die
  <2>3. CASE worker # None /\ Job.stalled = 1
    <3>1. queue' = Tail(queue) /\ queue # << >>
      BY <2>1, <2>3 DEF Die
    <3>2. /\ queue' \in Seq(SigningJob)
          /\ \A i \in DOMAIN queue' : i + 1 \in DOMAIN queue /\ queue'[i] = queue[i + 1]
      BY <3>1, HeadOfQueue, Zenon
    <3>3. QED
      BY <2>1, <3>2
  <2>4. CASE worker # None /\ Job.stalled # 1
    <3>1. queue' = [queue EXCEPT ![1] = [queue[1] EXCEPT !.stalled = 1]]
      BY <2>4 DEF Die
    <3>2. 1 \in DOMAIN queue /\ queue[1] \in SigningJob
      <4>1. queue # << >>
        BY <2>1, <2>4
      <4>2. QED
        BY <4>1, HeadOfQueue, Zenon
    <3>3. PICK job : job = [queue[1] EXCEPT !.stalled = 1]
      OBVIOUS
    <3>4. job \in SigningJob /\ job.id = queue[1].id
      BY <3>2, <3>3 DEF SigningJob
    <3>5. queue' = [queue EXCEPT ![1] = job]
      BY <3>1, <3>3
    <3>6. QED
      BY <2>1, <3>2, <3>4, <3>5
  <2>5. QED
    BY <2>2, <2>3, <2>4
<1>3. deaths \in Nat /\ deaths' \in Nat /\ deaths' # 0
  BY <1>1 DEF SigningInv, SigningType
<1>4. SigningType'
  BY <1>1, <1>2, <1>3 DEF SigningInv, SigningType
<1>5. /\ \A step : ~At(step)'
  BY <1>1 DEF At
<1>6. Stacked'
  BY <1>1, <1>5 DEF SigningInv, Stacked
<1>7. ValidatedOnce'
  <2>1. ASSUME NEW p \in Papers
        PROVE  papers[p].validated <= Len(papers[p].versions)
    <3>1. papers[p] \in Paper
      BY DEF SigningInv, SigningType
    <3>2. papers[p].validated \in Nat /\ Len(papers[p].versions) \in Nat
      BY <3>1 DEF Paper
    <3>3. papers[p].validated + Unvalidated(p) <= Len(papers[p].versions)
          /\ Unvalidated(p) \in {0, 1}
      BY DEF SigningInv, ValidatedOnce, Unvalidated
    <3>4. QED
      BY <3>2, <3>3
  <2>2. \A p \in Papers : papers[p].validated \in Nat
    BY DEF SigningInv, SigningType, Paper
  <2>3. QED
    BY <1>1, <1>3, <1>5, <2>1, <2>2 DEF ValidatedOnce, Unvalidated
<1>8. OncePerJob'
  BY <1>3 DEF OncePerJob
<1>9. \A r \in Requests : Asks(r)'
  BY <1>1 DEF Asks, Idle, SigningWords
<1>10. QED
  BY <1>4, <1>6, <1>7, <1>8, <1>9 DEF SigningInv

LEMMA SigningKept ==
    ASSUME SigningInv, FilesType, [Next]_vars
    PROVE  SigningInv'
<1>1. Common'
  BY StepsKeepCommon DEF SigningInv
<1>2. CASE SigningNext
  <2>1. ASSUME NEW r \in Requests,
               \/ \E p \in Papers \cap scene.rows : SignStep(r, p)
               \/ MarkPending(r) \/ Enqueue(r) \/ WriteJobId(r)
        PROVE  SigningInv'
    BY <1>1, <2>1, SignStepKeeps, MarkPendingKeeps, EnqueueKeeps, WriteJobIdKeeps
  <2>2. CASE WorkerStep
    BY <1>1, <2>2, ProcessKeeps, LoadKeeps, WriteVersionsKeeps, RunValidationKeeps, EndJobKeeps,
       FailJobKeeps DEF WorkerStep
  <2>3. QED
    BY <1>1, <1>2, <2>1, <2>2, DieKeeps DEF SigningNext
<1>3. CASE UNCHANGED signingVars /\ Elsewhere(SigningWords)
  <2>1. SigningType' /\ PapersStand /\ Job' = Job /\ UNCHANGED << worker, deaths >>
        /\ jobCount' - Len(queue') = jobCount - Len(queue)
    BY <1>3 DEF signingVars, SigningInv, SigningType, PapersStand, Job
  <2>2. ASSUME NEW q \in Requests
        PROVE  Asks(q)'
    BY <1>3 DEF Elsewhere, SigningInv, Asks, signingVars, SigningWords
  <2>3. QED
    BY <1>1, <2>1, <2>2, AsideKeeps
<1>4. QED
  BY <1>2, <1>3, SigningElsewhere DEF SigningInv, Common

LEMMA SigningAlways == Spec => []SigningInv
<1>1. Init => SigningInv
  BY SigningStart
<1>2. SigningInv /\ FilesInv /\ [Next]_vars => SigningInv'
  BY SigningKept DEF FilesInv
<1>3. QED
  BY <1>1, <1>2, FilesAlways, PTL DEF Spec

\* Whatever asks for signatures and whenever the process dies, a signature is
\* put on the version before it and none is lost; no signature is validated
\* twice, and without a death each is validated once and no job signs twice.
THEOREM SignaturesAlwaysStack == Spec => []SignaturesStack
<1>1. ASSUME SigningInv
      PROVE  SignaturesStack
  <2>1. ASSUME NEW p \in Papers
        PROVE  /\ papers[p].validated <= Len(papers[p].versions)
               /\ deaths = 0 /\ worker = None => papers[p].validated = Len(papers[p].versions)
    <3>1. papers[p] \in Paper
      BY <1>1 DEF SigningInv, SigningType
    <3>2. papers[p].validated \in Nat /\ Len(papers[p].versions) \in Nat
      BY <3>1 DEF Paper
    <3>3. /\ papers[p].validated + Unvalidated(p) <= Len(papers[p].versions)
          /\ deaths = 0 => papers[p].validated + Unvalidated(p) = Len(papers[p].versions)
          /\ Unvalidated(p) \in {0, 1} /\ (worker = None => Unvalidated(p) = 0)
      BY <1>1 DEF SigningInv, ValidatedOnce, Unvalidated, At
    <3>4. QED
      BY <3>2, <3>3
  <2>2. QED
    BY <1>1, <2>1 DEF SigningInv, Stacked, OncePerJob, Signatures, SignaturesStack
<1>2. QED
  BY <1>1, SigningAlways, PTL

-----------------------------------------------------------------------------
\* Whatever requests run at once, fail or are cut short, the rows have the
\* types that schema.prisma gives them.
THEOREM BackOfficeTypesSound == Spec => []BackOfficeTypeOK
<1>1. ASSUME TablesInv, PurchasesInv, TicketsInv, StockInv, SessionsInv, FilesInv, SigningInv,
             LeasesInv, PvInv
      PROVE  BackOfficeTypeOK
  <2>1. BudgetType /\ NumbersType /\ TicketsType /\ StockType /\ AccountsType
    BY <1>1 DEF TablesInv, PurchasesInv, NumbersSound, TicketsInv, StockInv, SessionsInv
  <2>2. FilesType /\ SigningType /\ LeasesType /\ PvType
    BY <1>1 DEF FilesInv, SigningInv, LeasesInv, PvInv
  <2>3. DOMAIN req = Requests
    BY <1>1 DEF FilesInv, Common, KnownWork
  <2>4. QED
    BY <2>1, <2>2, <2>3 DEF BackOfficeTypeOK
<1>2. QED
  BY <1>1, TablesAlways, PurchasesAlways, TicketsAlways, StockAlways, SessionsAlways, FilesAlways,
     SigningAlways, LeasesAlways, PvAlways, PTL

=============================================================================
