------------------------------- MODULE Files -------------------------------
(***************************************************************************)
(* Stored files and what refers to them: signature specimens, and the      *)
(* photos and documents of the vehicle park.  A user who uploads the same  *)
(* content twice gets the same file, so several rows may share one.  An    *)
(* uploaded file is optimised in the background, by the same process.      *)
(***************************************************************************)
EXTENDS Accounts

CONSTANTS
    Contents,        \* what can be uploaded
    Vehicles,        \* ids
    DocumentTypes,
    MaxSpecimens,    \* MAX_SPECIMENS
    MaxFiles,        \* bound: nothing is uploaded beyond this number of files,
    MaxRows          \* and of specimens, photos of a vehicle, documents

VARIABLES
    files,           \* in the order of their ids; None once deleted
    optimizing,      \* the files that are being optimised
    specimens,       \* likewise
    vehicles,        \* archived, and the files that photoFileIds lists
    documents        \* in the order of creation; file 0 is null

File == [user : Users, content : Contents,
         status : {"UPLOADING", "PROCESSING", "OPTIMIZED", "FAILED"}]
Specimen == [user : Users, file : Nat \ {0}, isActive : BOOLEAN]
Vehicle == [archived : BOOLEAN, photos : SUBSET (Nat \ {0})]
Document == [vehicle : Vehicles, type : DocumentTypes, file : Nat, isActive : BOOLEAN]

\* What the users upload and for what: a specimen of theirs, or a photo or
\* document of a vehicle.
UploadedFile ==
    [as : {"specimen"}, on : Users, user : Users, content : Contents]
    \cup [as : {"photo", "document"}, on : Vehicles, user : Users, content : Contents]

ASSUME NoFileAssumption == None \notin File \cup Specimen

FilesType ==
    /\ files \in Seq(File \cup {None}) /\ optimizing \subseteq DOMAIN files
    /\ specimens \in Seq(Specimen \cup {None})
    /\ vehicles \in [Vehicles -> Vehicle]
    /\ documents \in Seq(Document)

rows == << specimens, vehicles, documents >>
fileVars == << files, optimizing, specimens, vehicles, documents >>

Stored(f) == f \in DOMAIN files /\ files[f] # None
StoredBy(u) == {f \in DOMAIN files : Stored(f) /\ files[f].user = u}

\* The foreign keys: specimens are deleted with their file, documents keep a
\* null, photoFileIds is no foreign key.
DeleteFiles(gone) ==
    /\ files' = [f \in DOMAIN files |-> IF f \in gone THEN None ELSE files[f]]
    /\ specimens' = [i \in DOMAIN specimens |->
            IF specimens[i] # None /\ specimens[i].file \in gone THEN None ELSE specimens[i]]
    /\ documents' = [d \in DOMAIN documents |->
            IF documents[d].file \in gone THEN [documents[d] EXCEPT !.file = 0]
            ELSE documents[d]]
    /\ UNCHANGED << optimizing, vehicles >>

\* With a user go the files it uploaded.
DeleteUserAndFiles(r) ==
    /\ DeleteUserRow(r)
    /\ DeleteFiles(IF users' = users THEN {} ELSE StoredBy(req[r].user))

-----------------------------------------------------------------------------
\* FileStorageService.upload: what is to be done with the file comes after.
StoreFile(r, u, content, next) ==
    Await(r, [do |-> "findFile", user |-> u, content |-> content, next |-> next])

FindFile(r) ==
    LET w == req[r]
        same == {f \in StoredBy(w.user) : files[f].content = w.content}
    IN  /\ w.do = "findFile"
        /\ \/ \E f \in same : Await(r, [w.next EXCEPT !.file = f])
           \/ same = {} /\ Await(r, [w EXCEPT !.do = "createFile"])
        /\ UNCHANGED fileVars

CreateFile(r) ==
    LET w == req[r]
        new == Len(files) + 1
    IN  /\ w.do = "createFile"
        /\ IF Exists(w.user)
           THEN /\ files' = Append(files, [user |-> w.user, content |-> w.content,
                                           status |-> "UPLOADING"])
                /\ optimizing' = optimizing \cup {new}
                /\ Await(r, [w.next EXCEPT !.file = new])
           ELSE Done(r) /\ UNCHANGED << files, optimizing >>
        /\ UNCHANGED rows

\* FileStorageService.delete.
DeleteFile(r) ==
    /\ req[r].do = "deleteFile"
    /\ DeleteFiles({req[r].file})
    /\ Done(r)

\* The optimisation, in two updates.  If the row is gone, the update that
\* reports the failure fails too; nobody handles its rejection and the process
\* ends, with what it was doing.
Optimize(f) ==
    /\ "optimize" \in scene.endpoints
    /\ Stored(f) /\ f \in optimizing
    /\ \/ /\ files[f].status = "UPLOADING"
          /\ files' = [files EXCEPT ![f].status = "PROCESSING"]
          /\ UNCHANGED optimizing
       \/ /\ files[f].status = "PROCESSING"
          /\ \E status \in {"OPTIMIZED", "FAILED"} :
                files' = [files EXCEPT ![f].status = status]
          /\ optimizing' = optimizing \ {f}
    /\ UNCHANGED << req, rows >>

UnhandledRejection(f) ==
    /\ "optimize" \in scene.endpoints
    /\ ~Stored(f) /\ f \in optimizing
    /\ req' = [r \in Requests |-> Idle]
    /\ optimizing' = {}
    /\ UNCHANGED << files, rows >>

-----------------------------------------------------------------------------
\* The endpoints: what they check, and what they then await.
FileCalled(r, endpoint) == Free(r, endpoint) /\ UNCHANGED fileVars

Uploads(as) == {x \in scene.uploads : x.as = as /\ Exists(x.user)}

SpecimensOf(u) == {i \in DOMAIN specimens : specimens[i] # None /\ specimens[i].user = u}

UploadSpecimen(r) ==
    /\ FileCalled(r, "uploadSpecimen")
    /\ Len(specimens) < MaxRows /\ Len(files) < MaxFiles
    /\ \E x \in Uploads("specimen") :
        LET count == Cardinality(SpecimensOf(x.user))
        IN  /\ count < MaxSpecimens
            /\ StoreFile(r, x.user, x.content,
                      [do |-> "insertSpecimen", user |-> x.user, file |-> 0, first |-> count = 0])

\* The first specimen of a user is activated.
InsertSpecimen(r) ==
    LET w == req[r]
        new == Len(specimens) + 1
    IN  /\ w.do = "insertSpecimen"
        /\ specimens' = IF ~Stored(w.file) THEN specimens
                        ELSE Append(specimens, [user |-> w.user, file |-> w.file,
                                                isActive |-> FALSE])
        /\ IF w.first /\ Stored(w.file)
           THEN Await(r, [do |-> "deactivateSpecimens", specimen |-> new])
           ELSE Done(r)
        /\ UNCHANGED << files, optimizing, vehicles, documents >>

ActivateSpecimen(r) ==
    /\ FileCalled(r, "activateSpecimen")
    /\ \E u \in Users : \E i \in SpecimensOf(u) :
        Await(r, [do |-> "deactivateSpecimens", specimen |-> i])

\* activateOne, a transaction: it fails if the specimen is gone.
ActiveSpecimens(u) == {i \in SpecimensOf(u) : specimens[i].isActive}

DeactivateSpecimens(r) ==
    LET i == req[r].specimen
    IN  /\ req[r].do = "deactivateSpecimens"
        /\ IF specimens[i] = None THEN Done(r)
           ELSE Await(r, [do |-> "activateOne", specimen |-> i,
                          seen |-> ActiveSpecimens(specimens[i].user)])
        /\ UNCHANGED fileVars

ActivateOne(r) ==
    LET w == req[r]
    IN  /\ w.do = "activateOne"
        /\ specimens' = [i \in DOMAIN specimens |->
                IF specimens[w.specimen] = None \/ specimens[i] = None THEN specimens[i]
                ELSE IF i = w.specimen THEN [specimens[i] EXCEPT !.isActive = TRUE]
                ELSE IF i \in w.seen THEN [specimens[i] EXCEPT !.isActive = FALSE]
                ELSE specimens[i]]
        /\ Done(r)
        /\ UNCHANGED << files, optimizing, vehicles, documents >>

\* The specimen goes, and then its file, whoever else refers to it.
RemoveSpecimen(r) ==
    /\ FileCalled(r, "removeSpecimen")
    /\ \E u \in Users : \E i \in SpecimensOf(u) :
        Await(r, [do |-> "deleteSpecimen", specimen |-> i, file |-> specimens[i].file])

DeleteSpecimen(r) ==
    LET w == req[r]
    IN  /\ w.do = "deleteSpecimen"
        /\ IF specimens[w.specimen] = None THEN Done(r)
           ELSE Await(r, [do |-> "deleteFile", file |-> w.file])
        /\ specimens' = [specimens EXCEPT ![w.specimen] = None]
        /\ UNCHANGED << files, optimizing, vehicles, documents >>

-----------------------------------------------------------------------------
ArchiveVehicle(r, v) ==
    /\ Free(r, "archiveVehicle")
    /\ vehicles' = [vehicles EXCEPT ![v].archived = TRUE]
    /\ UNCHANGED << req, files, optimizing, specimens, documents >>

UploadPhoto(r, v) ==
    /\ FileCalled(r, "uploadPhoto")
    /\ ~vehicles[v].archived
    /\ Cardinality(vehicles[v].photos) < MaxRows /\ Len(files) < MaxFiles
    /\ \E x \in Uploads("photo") :
        /\ x.on = v
        /\ StoreFile(r, x.user, x.content, [do |-> "appendPhoto", vehicle |-> v, file |-> 0])

AppendPhoto(r) ==
    LET w == req[r]
    IN  /\ w.do = "appendPhoto"
        /\ vehicles' = [vehicles EXCEPT ![w.vehicle].photos = @ \cup {w.file}]
        /\ Done(r)
        /\ UNCHANGED << files, optimizing, specimens, documents >>

DeletePhoto(r, v) ==
    /\ FileCalled(r, "deletePhoto")
    /\ \E f \in vehicles[v].photos :
        Await(r, [do |-> "readPhotos", vehicle |-> v, file |-> f])

\* removePhoto reads the list and writes it back without the photo,
ReadPhotos(r) ==
    /\ req[r].do = "readPhotos"
    /\ Await(r, [do |-> "writePhotos", vehicle |-> req[r].vehicle, file |-> req[r].file,
                 read |-> vehicles[req[r].vehicle].photos])
    /\ UNCHANGED fileVars

WritePhotos(r) ==
    LET w == req[r]
    IN  /\ w.do = "writePhotos"
        /\ vehicles' = [vehicles EXCEPT ![w.vehicle].photos = w.read \ {w.file}]
        /\ Await(r, [do |-> "countReferences", file |-> w.file])
        /\ UNCHANGED << files, optimizing, specimens, documents >>

\* and the file goes too if no document refers to it.
ReferringDocuments(f) == {d \in DOMAIN documents : documents[d].file = f}

\* Mutant of CountReferences: the file goes whoever refers to it.
DeleteAnyway(r) ==
    /\ req[r].do = "countReferences"
    /\ Await(r, [do |-> "deleteFile", file |-> req[r].file])
    /\ UNCHANGED fileVars

CountReferences(r) ==
    /\ req[r].do = "countReferences"
    /\ IF ReferringDocuments(req[r].file) = {}
       THEN Await(r, [do |-> "deleteFile", file |-> req[r].file])
       ELSE Done(r)
    /\ UNCHANGED fileVars

UploadDocument(r, v) ==
    /\ FileCalled(r, "uploadDocument")
    /\ ~vehicles[v].archived
    /\ Len(documents) < MaxRows /\ Len(files) < MaxFiles
    /\ \E x \in Uploads("document"), type \in DocumentTypes :
        /\ x.on = v
        /\ StoreFile(r, x.user, x.content,
                  [do |-> "supersede", vehicle |-> v, type |-> type, file |-> 0])

\* createDocumentSupersedingPrevious, a transaction.
ActiveDocuments(v, type) ==
    {d \in DOMAIN documents :
        documents[d].vehicle = v /\ documents[d].type = type /\ documents[d].isActive}

Supersede(r) ==
    LET w == req[r]
    IN  /\ w.do = "supersede"
        /\ Await(r, [do |-> "insertDocument", vehicle |-> w.vehicle, type |-> w.type,
                     file |-> w.file, seen |-> ActiveDocuments(w.vehicle, w.type)])
        /\ UNCHANGED fileVars

InsertDocument(r) ==
    LET w == req[r]
        superseded == [d \in DOMAIN documents |->
            IF d \in w.seen THEN [documents[d] EXCEPT !.isActive = FALSE] ELSE documents[d]]
    IN  /\ w.do = "insertDocument"
        /\ documents' = IF ~Stored(w.file) THEN documents
                        ELSE Append(superseded, [vehicle |-> w.vehicle, type |-> w.type,
                                                 file |-> w.file, isActive |-> TRUE])
        /\ Done(r)
        /\ UNCHANGED << files, optimizing, specimens, vehicles >>

-----------------------------------------------------------------------------
FilesInit ==
    /\ files = << >> /\ optimizing = {} /\ specimens = << >> /\ documents = << >>
    /\ vehicles = [v \in Vehicles |-> [archived |-> FALSE, photos |-> {}]]

\* The steps of this part that leave the accounts alone.
FilesNext(r) ==
    \/ FindFile(r) \/ CreateFile(r) \/ DeleteFile(r)
    \/ \E f \in optimizing : Optimize(f) \/ UnhandledRejection(f)
    \/ UploadSpecimen(r) \/ InsertSpecimen(r) \/ ActivateSpecimen(r)
    \/ DeactivateSpecimens(r) \/ ActivateOne(r) \/ RemoveSpecimen(r) \/ DeleteSpecimen(r)
    \/ \E v \in Vehicles :
        ArchiveVehicle(r, v) \/ UploadPhoto(r, v) \/ DeletePhoto(r, v) \/ UploadDocument(r, v)
    \/ AppendPhoto(r) \/ ReadPhotos(r) \/ WritePhotos(r) \/ CountReferences(r)
    \/ Supersede(r) \/ InsertDocument(r)

=============================================================================
