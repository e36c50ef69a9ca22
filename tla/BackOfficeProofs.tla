--------------------------- MODULE BackOfficeProofs ---------------------------
(***************************************************************************)
(* Proofs about the back office, part by part, for any rows, inputs and    *)
(* requests.  The parts share the requests: each part's invariant speaks   *)
(* of its own rows and of the work its handlers have still to do, and the  *)
(* steps of the other parts leave both alone.                              *)
(***************************************************************************)
EXTENDS BackOffice, NumbersProofs

-----------------------------------------------------------------------------
(* Whose work is whose.                                                    *)

BudgetWords == {"numberTable", "insertTable", "deactivate", "activate"}
NumbersWords == {"countPurchases", "insertPurchase"}
TicketWords == {"insertTicket", "numberTicket", "writeTicket"}
StockWords == {"updateAsset", "archiveAsset", "attribute", "return"}
AccountWords ==
    {"insertUser", "storeToken", "revokeToken", "writePassword", "revokeTokens",
     "deleteTokens", "writeActive", "deleteTokensOf", "deleteUserRow"}
FileWords ==
    {"findFile", "createFile", "deleteFile", "insertSpecimen", "deactivateSpecimens",
     "activateOne", "deleteSpecimen", "appendPhoto", "readPhotos", "writePhotos",
     "countReferences", "supersede", "insertDocument"}
SigningWords == {"markPending", "enqueue", "writeJobId"}
LeaseWords == {"insertLease", "writeLease", "writeAmendment", "insertPayment", "index"}
PvWords ==
    {"createPv", "deleteSuppliers", "createSuppliers", "deleteItems", "createItems",
     "deselect", "select", "lifecycle"}
ReportWords == {"report"}

\* Every handler's work has a name; those that choose the name of the next
\* work in advance choose one of their part.
KnownWork ==
    /\ req = [r \in Requests |-> req[r]]
    /\ \A r \in Requests :
        /\ "do" \in DOMAIN req[r]
        /\ req[r].do \in {"findFile", "createFile"} =>
            /\ "do" \in DOMAIN req[r].next
            /\ req[r].next.do \in {"insertSpecimen", "appendPhoto", "supersede"}
            /\ "next" \in DOMAIN req[r]
        /\ req[r].do = "writePassword" => req[r].after \in {"revokeTokens", "deleteTokens"}

\* A step leaves no work but of these names.
Leaves(words) ==
    /\ req' = [r \in Requests |-> req'[r]]
    /\ \A r \in Requests :
        req'[r] = req[r] \/ ("do" \in DOMAIN req'[r] /\ req'[r].do \in words \cup {"idle"})

Elsewhere(words) == \A r \in Requests : req'[r] = req[r] \/ req'[r].do \notin words

LEMMA AwaitLeaves ==
    ASSUME KnownWork, NEW r \in Requests, NEW w, NEW words,
           "do" \in DOMAIN w, w.do \in words \cup {"idle"}, Await(r, w)
    PROVE  Leaves(words) /\ req'[r] = w /\ \A q \in Requests \ {r} : req'[q] = req[q]
BY DEF KnownWork, Leaves, Await

LEMMA DoneLeaves ==
    ASSUME KnownWork, NEW r \in Requests, NEW words, Done(r)
    PROVE  Leaves(words) /\ req'[r] = Idle /\ \A q \in Requests \ {r} : req'[q] = req[q]
BY AwaitLeaves DEF Done, Idle

LEMMA DoneFrees ==
    ASSUME KnownWork, NEW r \in Requests, Done(r)
    PROVE  /\ req'[r] = Idle /\ \A q \in Requests \ {r} : req'[q] = req[q]
           /\ req[r].do # "idle" => req[r] # Idle
<1>1. req'[r] = Idle /\ \A q \in Requests \ {r} : req'[q] = req[q]
  BY DoneLeaves
<1>2. req[r].do # "idle" => req[r] # Idle
  BY DEF Idle
<1>3. QED
  BY <1>1, <1>2

LEMMA SameLeaves ==
    ASSUME KnownWork, NEW words, req' = req
    PROVE  Leaves(words)
BY DEF KnownWork, Leaves

LEMMA AllIdleLeaves ==
    ASSUME NEW words, req' = [r \in Requests |-> Idle]
    PROVE  Leaves(words)
BY DEF Leaves, Idle

LEMMA KeepsKnown ==
    ASSUME KnownWork, NEW words, Leaves(words),
           {"findFile", "createFile", "writePassword"} \cap words = {}
    PROVE  KnownWork'
BY DEF KnownWork, Leaves

LEMMA BudgetLeaves ==
    ASSUME KnownWork, NEW r \in Requests, BudgetNext(r)
    PROVE  Leaves(BudgetWords)
<1>1. CASE Upload(r)
  <2>1. PICK parsed : Await(r, [do |-> "numberTable", rows |-> parsed])
    BY <1>1 DEF Upload
  <2>2. QED
    BY <2>1, AwaitLeaves DEF BudgetWords
<1>2. CASE NumberTable(r)
  BY <1>2, AwaitLeaves DEF NumberTable, BudgetWords
<1>3. CASE InsertTable(r) \/ ActivateInTransaction(r)
  BY <1>3, DoneLeaves DEF InsertTable, ActivateInTransaction
<1>4. CASE Activate(r)
  <2>1. PICK i : Await(r, [do |-> "deactivate", table |-> i])
    BY <1>4 DEF Activate
  <2>2. QED
    BY <2>1, AwaitLeaves DEF BudgetWords
<1>5. CASE Deactivate(r)
  BY <1>5, AwaitLeaves DEF Deactivate, BudgetWords
<1>6. QED
  BY <1>1, <1>2, <1>3, <1>4, <1>5 DEF BudgetNext

\* The steps that make or delete a purchase, whoever asked for it.
PurchaseMove(r) ==
    \/ CountPurchases(r) \/ InsertPurchase(r) \/ NumbersNext(r)
    \/ \E o \in Origins : r \in scene.requests /\ CheckLink(r, o)

LEMMA NumbersLeave ==
    ASSUME KnownWork, NEW r \in Requests, PurchaseMove(r)
    PROVE  Leaves(NumbersWords)
<1>1. CASE \E o \in Origins : CheckLink(r, o)
  BY <1>1, AwaitLeaves DEF CheckLink, NumbersWords
<1>2. CASE CountPurchases(r) \/ CreatePurchase(r)
  BY <1>2, AwaitLeaves DEF CountPurchases, CreatePurchase, Insert, NumbersWords
<1>3. CASE InsertPurchase(r)
  BY <1>3, DoneLeaves DEF InsertPurchase
<1>4. CASE DeleteDraft(r)
  BY <1>4, SameLeaves DEF DeleteDraft
<1>5. QED
  BY <1>1, <1>2, <1>3, <1>4 DEF NumbersNext, PurchaseMove

\* Those that number, write or delete a ticket.
TicketMove(r) ==
    \/ \E t \in Tickets :
        \/ FileTicket(r, t) \/ GiveStatus(r, t) \/ SoftDelete(r, t) \/ DeleteFiler(r, t)
        \/ t \in Journeys /\ CancelJourney(r, t)
    \/ InsertTicket(r) \/ RefuseTicket(r) \/ NumberAgain(r) \/ ApplyChange(r)

LEMMA TicketsLeave ==
    ASSUME KnownWork, NEW r \in Requests, TicketsNext(r)
    PROVE  \/ TicketMove(r) /\ Leaves(TicketWords) /\ UNCHANGED << purchases, link >>
           \/ PurchaseMove(r) /\ UNCHANGED tickets
<1>1. ASSUME NEW t, NEW n, NumberIt(r, t, n)
      PROVE  Leaves(TicketWords)
  BY <1>1, AwaitLeaves DEF NumberIt, TicketWords
<1>2. ASSUME NEW t, NEW change, WriteTicket(r, t, change)
      PROVE  Leaves(TicketWords)
  BY <1>2, AwaitLeaves DEF WriteTicket, TicketWords
<1>3. ASSUME NEW t, FileTicket(r, t) \/ GiveStatus(r, t) \/ CancelJourney(r, t) \/ SoftDelete(r, t)
      PROVE  Leaves(TicketWords) /\ UNCHANGED << purchases, link >>
  BY <1>1, <1>2, <1>3 DEF FileTicket, GiveStatus, CancelJourney, SoftDelete, TicketCalled
<1>4. CASE InsertTicket(r) \/ ApplyChange(r)
  BY <1>4, DoneLeaves DEF InsertTicket, ApplyChange, TicketMove
<1>5. CASE RefuseTicket(r)
  <2>1. CASE Done(r)
    BY <2>1, <1>5, DoneLeaves DEF RefuseTicket, TicketMove
  <2>2. CASE ~Done(r)
    BY <1>5, <2>2, AwaitLeaves DEF RefuseTicket, TicketWords, TicketMove
  <2>3. QED
    BY <2>1, <2>2
<1>6. CASE NumberAgain(r)
  BY <1>1, <1>6 DEF NumberAgain, TicketMove
<1>7. CASE \E t \in Tickets : DeleteFiler(r, t)
  BY <1>7, SameLeaves DEF DeleteFiler, TicketMove
<1>8. CASE \E t \in Origins : Trigger(r, t)
  BY <1>8 DEF Trigger, Free, PurchaseMove
<1>9. CASE (CountPurchases(r) \/ InsertPurchase(r) \/ NumbersNext(r)) /\ UNCHANGED tickets
  BY <1>9 DEF PurchaseMove
<1>10. QED
  BY <1>3, <1>4, <1>5, <1>6, <1>7, <1>8, <1>9, TicketsAssumption
     DEF TicketMove, InsertTicket, RefuseTicket, NumberAgain, ApplyChange, DeleteFiler,
         TicketsNext, CreateTrip, CreateFuelSupply, CreateRepair, CreateDemand, UpdateTripStatus,
         UpdateFuelStatus, UpdateRepairStatus, UpdateDemandStatus, CancelTrip,
         CancelFuelSupply, TriggerForRepair, TriggerForDemand, Journeys

LEMMA StockLeaves ==
    ASSUME KnownWork, NEW r \in Requests, StockNext(r)
    PROVE  \/ Leaves(StockWords) /\ UNCHANGED << purchases, link >>
           \/ PurchaseMove(r) /\ UNCHANGED stockVars
<1>1. CASE \E a : CreateAsset(r, a)
  BY <1>1, SameLeaves DEF CreateAsset
<1>2. ASSUME NEW a, UpdateAsset(r, a)
      PROVE  Leaves(StockWords)
  <2>1. PICK n : Await(r, [do |-> "updateAsset", asset |-> a, total |-> n])
    BY <1>2 DEF UpdateAsset
  <2>2. QED
    BY <2>1, AwaitLeaves DEF StockWords
<1>3. ASSUME NEW a, ArchiveAsset(r, a)
      PROVE  Leaves(StockWords)
  BY <1>3, AwaitLeaves DEF ArchiveAsset, StockWords
<1>4. ASSUME NEW a, Attribute(r, a)
      PROVE  Leaves(StockWords)
  <2>1. PICK q : Await(r, [do |-> "attribute", asset |-> a, quantity |-> q])
    BY <1>4 DEF Attribute
  <2>2. QED
    BY <2>1, AwaitLeaves DEF StockWords
<1>5. ASSUME NEW a, Return(r, a)
      PROVE  Leaves(StockWords)
  <2>1. PICK i : Await(r, [do |-> "return", asset |-> a, attribution |-> i])
    BY <1>5 DEF Return
  <2>2. QED
    BY <2>1, AwaitLeaves DEF StockWords
<1>6. CASE \E a \in Assets : TriggerForAsset(r, a)
  BY <1>6, ItStockAssumption DEF TriggerForAsset, Free, PurchaseMove, stockVars
<1>7. CASE WriteStock(r)
  BY <1>7, DoneLeaves DEF WriteStock
<1>8. QED
  BY <1>1, <1>2, <1>3, <1>4, <1>5, <1>6, <1>7
     DEF StockNext, CreateAsset, UpdateAsset, ArchiveAsset, Attribute, Return, StockCalled,
         WriteStock

\* What a request awaits is known work, if its own choices are.
LEMMA AwaitKnown ==
    ASSUME KnownWork, NEW r \in Requests, NEW w, "do" \in DOMAIN w, Await(r, w),
           w.do \in {"findFile", "createFile"} =>
                /\ "next" \in DOMAIN w /\ "do" \in DOMAIN w.next
                /\ w.next.do \in {"insertSpecimen", "appendPhoto", "supersede"},
           w.do = "writePassword" => w.after \in {"revokeTokens", "deleteTokens"}
    PROVE  KnownWork'
BY DEF KnownWork, Await

LEMMA DoneKnown ==
    ASSUME KnownWork, NEW r \in Requests, Done(r)
    PROVE  KnownWork'
BY AwaitKnown DEF Done, Idle

LEMMA AccountsLeave ==
    ASSUME KnownWork, NEW r \in Requests, AccountsNext(r) \/ DeleteUserRow(r)
    PROVE  Leaves(AccountWords) /\ KnownWork'
<1>1. ASSUME NEW u, CreateUser(r, u) \/ Login(r, u) \/ Logout(r, u) \/ RemoveUser(r, u)
      PROVE  Leaves(AccountWords) /\ KnownWork'
  <2>1. CASE CreateUser(r, u) \/ Login(r, u) \/ RemoveUser(r, u)
    BY <2>1, AwaitLeaves, AwaitKnown DEF CreateUser, Login, RemoveUser, AccountWords
  <2>2. CASE Logout(r, u)
    <3>1. PICK i : Await(r, [do |-> "revokeToken", token |-> i])
      BY <2>2 DEF Logout
    <3>2. QED
      BY <3>1, AwaitLeaves, AwaitKnown DEF AccountWords
  <2>3. QED
    BY <1>1, <2>1, <2>2
<1>2. ASSUME NEW u, Refresh(r, u)
      PROVE  Leaves(AccountWords) /\ KnownWork'
  <2>1. PICK i : Await(r, [do |-> "storeToken", user |-> u, replaces |-> i,
                           session |-> tokens[i].session, password |-> tokens[i].password])
    BY <1>2 DEF Refresh
  <2>2. QED
    BY <2>1, AwaitLeaves, AwaitKnown DEF AccountWords
<1>3. ASSUME NEW u, ChangePassword(r, u) \/ ToggleActive(r, u)
      PROVE  Leaves(AccountWords) /\ KnownWork'
  <2>1. CASE ChangePassword(r, u)
    <3>1. PICK after \in {"revokeTokens", "deleteTokens"} :
            Await(r, [do |-> "writePassword", user |-> u, after |-> after])
      BY <2>1 DEF ChangePassword
    <3>2. QED
      BY <3>1, AwaitLeaves, AwaitKnown DEF AccountWords
  <2>2. CASE ToggleActive(r, u)
    BY <2>2, AwaitLeaves, AwaitKnown DEF ToggleActive, AccountWords
  <2>3. QED
    BY <1>3, <2>1, <2>2
<1>4. CASE (\E u : LogoutAll(r, u)) \/ Expire
  <2>1. req' = req
    BY <1>4 DEF LogoutAll, Expire
  <2>2. QED
    BY <2>1, SameLeaves DEF KnownWork
<1>5. CASE StoreToken(r)
  <2>1. Done(r) \/ Await(r, [do |-> "revokeToken", token |-> req[r].replaces])
    BY <1>5 DEF StoreToken
  <2>2. QED
    BY <2>1, DoneLeaves, DoneKnown, AwaitLeaves, AwaitKnown DEF AccountWords
<1>6. CASE WritePassword(r)
  <2>1. Done(r) \/ Await(r, [do |-> req[r].after, user |-> req[r].user])
    BY <1>6 DEF WritePassword
  <2>2. req[r].after \in {"revokeTokens", "deleteTokens"}
    BY <1>6 DEF WritePassword, KnownWork
  <2>3. QED
    BY <2>1, <2>2, DoneLeaves, DoneKnown, AwaitLeaves, AwaitKnown DEF AccountWords
<1>7. CASE InsertUser(r) \/ RevokeToken(r) \/ RevokeTokens(r) \/ DeleteTokens(r)
           \/ WriteActive(r) \/ DeleteUserRow(r)
  BY <1>7, DoneLeaves, DoneKnown
     DEF InsertUser, RevokeToken, RevokeTokens, DeleteTokens, WriteActive, DeleteUserRow
<1>8. CASE DeleteTokensOf(r)
  BY <1>8, AwaitLeaves, AwaitKnown DEF DeleteTokensOf, AccountWords
<1>9. QED
  BY <1>1, <1>2, <1>3, <1>4, <1>5, <1>6, <1>7, <1>8 DEF AccountsNext

LEMMA StoreFileLeaves ==
    ASSUME KnownWork, NEW r \in Requests, NEW u, NEW content, NEW next, StoreFile(r, u, content, next),
           "do" \in DOMAIN next, next.do \in {"insertSpecimen", "appendPhoto", "supersede"}
    PROVE  Leaves(FileWords) /\ KnownWork'
BY AwaitLeaves, AwaitKnown DEF StoreFile, FileWords

LEMMA FilesLeave ==
    ASSUME KnownWork, NEW r \in Requests, FilesNext(r)
    PROVE  Leaves(FileWords) /\ KnownWork'
<1>1. CASE FindFile(r)
  <2> DEFINE w == req[r]
  <2>1. \/ \E f : Await(r, [w.next EXCEPT !.file = f])
        \/ Await(r, [w EXCEPT !.do = "createFile"])
    BY <1>1 DEF FindFile
  <2>2. /\ "do" \in DOMAIN w /\ "next" \in DOMAIN w /\ "do" \in DOMAIN w.next
        /\ w.next.do \in {"insertSpecimen", "appendPhoto", "supersede"}
    BY <1>1 DEF FindFile, KnownWork
  <2>3. ASSUME NEW f
        PROVE  /\ "do" \in DOMAIN [w.next EXCEPT !.file = f]
               /\ [w.next EXCEPT !.file = f].do = w.next.do
    BY <2>2
  <2>4. /\ DOMAIN [w EXCEPT !.do = "createFile"] = DOMAIN w
        /\ [w EXCEPT !.do = "createFile"].do = "createFile"
        /\ [w EXCEPT !.do = "createFile"].next = w.next
    BY <2>2
  <2> HIDE DEF w
  <2>5. ASSUME NEW f, Await(r, [w.next EXCEPT !.file = f])
        PROVE  Leaves(FileWords) /\ KnownWork'
    BY <2>2, <2>3, <2>5, AwaitLeaves, AwaitKnown DEF FileWords
  <2>6. CASE Await(r, [w EXCEPT !.do = "createFile"])
    BY <2>2, <2>4, <2>6, AwaitLeaves, AwaitKnown DEF FileWords
  <2>7. QED
    BY <2>1, <2>5, <2>6
<1>2. CASE CreateFile(r)
  <2> DEFINE w == req[r]
  <2>1. Done(r) \/ \E f : Await(r, [w.next EXCEPT !.file = f])
    BY <1>2 DEF CreateFile
  <2>2. /\ "do" \in DOMAIN w.next
        /\ w.next.do \in {"insertSpecimen", "appendPhoto", "supersede"}
    BY <1>2 DEF CreateFile, KnownWork
  <2>3. ASSUME NEW f
        PROVE  /\ "do" \in DOMAIN [w.next EXCEPT !.file = f]
               /\ [w.next EXCEPT !.file = f].do = w.next.do
    BY <2>2
  <2> HIDE DEF w
  <2>4. ASSUME NEW f, Await(r, [w.next EXCEPT !.file = f])
        PROVE  Leaves(FileWords) /\ KnownWork'
    BY <2>2, <2>3, <2>4, AwaitLeaves, AwaitKnown DEF FileWords
  <2>5. QED
    BY <2>1, <2>4, DoneLeaves, DoneKnown
<1>3. CASE \E f \in optimizing : Optimize(f)
  <2>1. req' = req
    BY <1>3 DEF Optimize
  <2>2. QED
    BY <2>1, SameLeaves DEF KnownWork
<1>4. CASE \E f \in optimizing : UnhandledRejection(f)
  <2>1. req' = [q \in Requests |-> Idle]
    BY <1>4 DEF UnhandledRejection
  <2>2. QED
    BY <2>1, AllIdleLeaves DEF KnownWork, Idle
<1>5. CASE UploadSpecimen(r)
  <2>1. PICK x : \E first : StoreFile(r, x.user, x.content,
                    [do |-> "insertSpecimen", user |-> x.user, file |-> 0, first |-> first])
    BY <1>5 DEF UploadSpecimen
  <2>2. QED
    BY <2>1, StoreFileLeaves
<1>6. ASSUME NEW v, UploadPhoto(r, v) \/ UploadDocument(r, v)
      PROVE  Leaves(FileWords) /\ KnownWork'
  <2>1. CASE UploadPhoto(r, v)
    <3>1. PICK x : StoreFile(r, x.user, x.content,
                        [do |-> "appendPhoto", vehicle |-> v, file |-> 0])
      BY <2>1 DEF UploadPhoto
    <3>2. QED
      BY <3>1, StoreFileLeaves
  <2>2. CASE UploadDocument(r, v)
    <3>1. PICK x, type : StoreFile(r, x.user, x.content,
                        [do |-> "supersede", vehicle |-> v, type |-> type, file |-> 0])
      BY <2>2 DEF UploadDocument
    <3>2. QED
      BY <3>1, StoreFileLeaves
  <2>3. QED
    BY <1>6, <2>1, <2>2
<1>7. CASE InsertSpecimen(r)
  <2>1. Done(r) \/ \E i : Await(r, [do |-> "deactivateSpecimens", specimen |-> i])
    BY <1>7 DEF InsertSpecimen
  <2>2. QED
    BY <2>1, DoneLeaves, DoneKnown, AwaitLeaves, AwaitKnown DEF FileWords
<1>8. CASE ActivateSpecimen(r)
  <2>1. PICK i : Await(r, [do |-> "deactivateSpecimens", specimen |-> i])
    BY <1>8 DEF ActivateSpecimen
  <2>2. QED
    BY <2>1, AwaitLeaves, AwaitKnown DEF FileWords
<1>9. CASE DeactivateSpecimens(r) \/ DeleteSpecimen(r) \/ CountReferences(r)
  <2>1. \/ Done(r)
        \/ \E i, seen : Await(r, [do |-> "activateOne", specimen |-> i, seen |-> seen])
        \/ \E f : Await(r, [do |-> "deleteFile", file |-> f])
    BY <1>9 DEF DeactivateSpecimens, DeleteSpecimen, CountReferences
  <2>2. QED
    BY <2>1, DoneLeaves, DoneKnown, AwaitLeaves, AwaitKnown DEF FileWords
<1>10. CASE RemoveSpecimen(r)
  <2>1. PICK i, f : Await(r, [do |-> "deleteSpecimen", specimen |-> i, file |-> f])
    BY <1>10 DEF RemoveSpecimen
  <2>2. QED
    BY <2>1, AwaitLeaves, AwaitKnown DEF FileWords
<1>11. ASSUME NEW v, ArchiveVehicle(r, v) \/ DeletePhoto(r, v)
       PROVE  Leaves(FileWords) /\ KnownWork'
  <2>1. CASE ArchiveVehicle(r, v)
    <3>1. req' = req
      BY <2>1 DEF ArchiveVehicle
    <3>2. QED
      BY <3>1, SameLeaves DEF KnownWork
  <2>2. CASE DeletePhoto(r, v)
    <3>1. PICK f : Await(r, [do |-> "readPhotos", vehicle |-> v, file |-> f])
      BY <2>2 DEF DeletePhoto
    <3>2. QED
      BY <3>1, AwaitLeaves, AwaitKnown DEF FileWords
  <2>3. QED
    BY <1>11, <2>1, <2>2
<1>12. CASE ReadPhotos(r) \/ WritePhotos(r) \/ Supersede(r)
  BY <1>12, AwaitLeaves, AwaitKnown DEF ReadPhotos, WritePhotos, Supersede, FileWords
<1>13. CASE DeleteFile(r) \/ ActivateOne(r) \/ AppendPhoto(r) \/ InsertDocument(r)
  BY <1>13, DoneLeaves, DoneKnown DEF DeleteFile, ActivateOne, AppendPhoto, InsertDocument
<1>14. QED
  BY <1>1, <1>2, <1>3, <1>4, <1>5, <1>6, <1>7, <1>8, <1>9, <1>10, <1>11, <1>12, <1>13
     DEF FilesNext

LEMMA SigningLeaves ==
    ASSUME KnownWork, SigningNext
    PROVE  Leaves(SigningWords)
<1>1. CASE WorkerStep
  BY <1>1, SameLeaves DEF WorkerStep
<1>2. CASE Die
  BY <1>2, AllIdleLeaves DEF Die
<1>3. ASSUME NEW r \in Requests, NEW p, SignStep(r, p)
      PROVE  Leaves(SigningWords)
  <2>1. PICK i : Await(r, [do |-> "markPending", paper |-> p, specimen |-> i])
    BY <1>3 DEF SignStep
  <2>2. QED
    BY <2>1, AwaitLeaves DEF SigningWords
<1>4. ASSUME NEW r \in Requests, MarkPending(r)
      PROVE  Leaves(SigningWords)
  <2> DEFINE w == [req[r] EXCEPT !.do = "enqueue"]
  <2>1. Await(r, w)
    BY <1>4 DEF MarkPending
  <2>2. "do" \in DOMAIN w /\ w.do = "enqueue"
    BY DEF KnownWork
  <2> HIDE DEF w
  <2>3. QED
    BY <2>1, <2>2, AwaitLeaves DEF SigningWords
<1>5. ASSUME NEW r \in Requests, Enqueue(r) \/ WriteJobId(r)
      PROVE  Leaves(SigningWords)
  BY <1>5, AwaitLeaves, DoneLeaves DEF Enqueue, WriteJobId, SigningWords
<1>6. QED
  BY <1>1, <1>2, <1>3, <1>4, <1>5 DEF SigningNext

LEMMA LeasesLeave ==
    ASSUME KnownWork, NEW r \in Requests, LeasesNext(r)
    PROVE  Leaves(LeaseWords)
<1>1. ASSUME NEW l, CreateLease(r, l)
      PROVE  Leaves(LeaseWords)
  <2>1. PICK terms : Await(r, [do |-> "insertLease", lease |-> l, terms |-> terms,
                               number |-> NextLeaseNumber])
    BY <1>1 DEF CreateLease
  <2>2. QED
    BY <2>1, AwaitLeaves DEF LeaseWords
<1>2. ASSUME NEW l, UpdateLease(r, l) \/ ArchiveLease(r, l)
      PROVE  Leaves(LeaseWords)
  <2>1. PICK patch : Await(r, [do |-> "writeLease", lease |-> l, patch |-> patch])
    BY <1>2 DEF UpdateLease, ArchiveLease
  <2>2. QED
    BY <2>1, AwaitLeaves DEF LeaseWords
<1>3. ASSUME NEW l, AddAmendment(r, l)
      PROVE  Leaves(LeaseWords)
  <2>1. PICK amount : Await(r, [do |-> "writeAmendment", lease |-> l, nouveauMontant |-> amount])
    BY <1>3 DEF AddAmendment
  <2>2. QED
    BY <2>1, AwaitLeaves DEF LeaseWords
<1>4. ASSUME NEW l, AddPayment(r, l)
      PROVE  Leaves(LeaseWords)
  <2>1. PICK payment : Await(r, [do |-> "insertPayment", payment |-> payment])
    BY <1>4 DEF AddPayment
  <2>2. QED
    BY <2>1, AwaitLeaves DEF LeaseWords
<1>5. CASE InsertLease(r) \/ WriteLease(r) \/ WriteAmendment(r) \/ InsertPayment(r)
           \/ IndexationEnds(r)
  BY <1>5, DoneLeaves
     DEF InsertLease, WriteLease, WriteAmendment, InsertPayment, IndexationEnds
<1>6. CASE NextMonth \/ RunIndexation(r)
  BY <1>6, SameLeaves, AwaitLeaves DEF NextMonth, RunIndexation, LeaseWords
<1>7. CASE IndexLease(r) \/ IndexFails(r)
  <2> DEFINE w(l) == [req[r] EXCEPT !.left = @ \ {l}]
  <2>1. PICK l : Await(r, w(l))
    BY <1>7 DEF IndexLease, IndexFails
  <2>2. "do" \in DOMAIN w(l) /\ w(l).do = "index"
    BY <1>7 DEF KnownWork, IndexLease, IndexFails
  <2> HIDE DEF w
  <2>3. QED
    BY <2>1, <2>2, AwaitLeaves DEF LeaseWords
<1>8. QED
  BY <1>1, <1>2, <1>3, <1>4, <1>5, <1>6, <1>7 DEF LeasesNext

LEMMA PvLeaves ==
    ASSUME KnownWork, NEW r \in Requests, PvNext(r)
    PROVE  Leaves(PvWords)
<1>1. CASE CreatePv(r) \/ UpdatePv(r)
  <2>1. PICK word \in PvWords : \E suppliers : Await(r, [do |-> word, suppliers |-> suppliers])
    BY <1>1 DEF CreatePv, UpdatePv, SomeSuppliers, PvWords
  <2>2. QED
    BY <2>1, AwaitLeaves
<1>2. CASE AddSupplierItems(r) \/ SelectSupplierItems(r)
  <2>1. \/ \E o, articles : Await(r, [do |-> "deleteItems", offer |-> o, articles |-> articles,
                                     left |-> DOMAIN articles])
        \/ \E o, chosen : Await(r, [do |-> "deselect", offer |-> o, chosen |-> chosen])
    BY <1>2 DEF AddSupplierItems, SelectSupplierItems
  <2>2. QED
    BY <2>1, AwaitLeaves DEF PvWords
<1>3. CASE DeleteSuppliers(r) \/ DeleteItems(r) \/ Deselect(r)
  <2> DEFINE w(word) == [req[r] EXCEPT !.do = word]
  <2>1. PICK word \in {"createSuppliers", "createItems", "select"} : Await(r, w(word))
    BY <1>3 DEF DeleteSuppliers, DeleteItems, Deselect
  <2>2. "do" \in DOMAIN w(word) /\ w(word).do = word
    BY DEF KnownWork
  <2> HIDE DEF w
  <2>3. QED
    BY <2>1, <2>2, AwaitLeaves DEF PvWords
<1>4. CASE CreateItem(r)
  <2> DEFINE w(k) == [req[r] EXCEPT !.left = @ \ {k}]
  <2>1. PICK k : Await(r, w(k))
    BY <1>4 DEF CreateItem
  <2>2. "do" \in DOMAIN w(k) /\ w(k).do = "createItems"
    BY <1>4 DEF KnownWork, CreateItem
  <2> HIDE DEF w
  <2>3. QED
    BY <2>1, <2>2, AwaitLeaves DEF PvWords
<1>5. CASE InsertPv(r) \/ CreateSuppliers(r) \/ ItemsEnd(r) \/ Select(r)
  BY <1>5, DoneLeaves DEF InsertPv, CreateSuppliers, ItemsEnd, Select
<1>6. ASSUME NEW endpoint, NEW todo, Writes(r, endpoint, todo)
      PROVE  Leaves(PvWords)
  BY <1>6, AwaitLeaves DEF Writes, PvWords
<1>7. CASE \/ SubmitPv(r) \/ Validate(r) \/ Reject(r) \/ RequestChanges(r)
           \/ Publish(r) \/ UpdateAndRepublish(r) \/ ValidateDerogation(r) \/ UploadBC(r)
  BY <1>6, <1>7
     DEF SubmitPv, Validate, Reject, RequestChanges, Publish, UpdateAndRepublish,
         ValidateDerogation, UploadBC
<1>8. CASE RequirePv(r) \/ CreateFlow(r) \/ UpdatePurchase(r)
  <2>1. req[r].do = "lifecycle" /\ (Done(r) \/ GoesOn(r))
    BY <1>8 DEF RequirePv, CreateFlow, UpdatePurchase, Writing
  <2> DEFINE w == [req[r] EXCEPT !.todo = Tail(@)]
  <2>2. Done(r) \/ Await(r, w)
    BY <2>1 DEF GoesOn
  <2>3. "do" \in DOMAIN w /\ w.do = "lifecycle"
    BY <2>1 DEF KnownWork
  <2> HIDE DEF w
  <2>4. QED
    BY <2>2, <2>3, AwaitLeaves, DoneLeaves DEF PvWords
<1>9. QED
  BY <1>1, <1>2, <1>3, <1>4, <1>5, <1>7, <1>8 DEF PvNext, PvEdits, PvLifecycle

LEMMA OtherLeaves ==
    ASSUME KnownWork, NEW r \in Requests, ReportsNext(r) \/ Abandon(r)
    PROVE  Leaves(ReportWords)
<1>1. CASE AskReport(r)
  <2>1. PICK of, in, out : Await(r, [do |-> "report", of |-> of, in |-> in, out |-> out])
    BY <1>1 DEF AskReport
  <2>2. QED
    BY <2>1, AwaitLeaves DEF ReportWords
<1>2. QED
  BY <1>1, DoneLeaves DEF ReportsNext, AnswerReport, Abandon

-----------------------------------------------------------------------------
(* What a step does to the requests and the rows of every part.            *)

\* The words of the parts: none is another part's.
LEMMA StepsLeave ==
    ASSUME KnownWork, [Next]_vars
    PROVE  /\ KnownWork' /\ scene' = scene
           /\ \E words \in {BudgetWords, NumbersWords, TicketWords, StockWords, AccountWords,
                            FileWords, SigningWords, LeaseWords, PvWords, ReportWords} :
                Leaves(words)
<1>1. CASE UNCHANGED vars
  BY <1>1, SameLeaves DEF vars, KnownWork
<1>2. CASE Next
  <2>1. scene' = scene
    BY <1>2 DEF Next
  <2>2. CASE SigningStep
    BY <2>1, <2>2, SigningLeaves, KeepsKnown DEF SigningStep, SigningWords
  <2>3. ASSUME NEW r \in Requests, BudgetStep(r) \/ TicketsStep(r) \/ StockStep(r)
        PROVE  \E words \in {BudgetWords, NumbersWords, TicketWords, StockWords} : Leaves(words)
    BY <2>3, BudgetLeaves, TicketsLeave, StockLeaves, NumbersLeave
       DEF BudgetStep, TicketsStep, StockStep
  <2>4. ASSUME NEW r \in Requests, AccountsStep(r)
        PROVE  (Leaves(AccountWords) \/ Leaves(FileWords)) /\ KnownWork'
    BY <2>4, AccountsLeave, FilesLeave DEF AccountsStep, DeleteUserAndFiles
  <2>5. ASSUME NEW r \in Requests, LeasesStep(r) \/ PvStep(r) \/ OtherStep(r)
        PROVE  \E words \in {LeaseWords, PvWords, ReportWords} : Leaves(words)
    BY <2>5, LeasesLeave, PvLeaves, OtherLeaves DEF LeasesStep, PvStep, OtherStep
  <2>6. ASSUME NEW words \in {BudgetWords, NumbersWords, TicketWords, StockWords, LeaseWords,
                              PvWords, ReportWords}, Leaves(words)
        PROVE  KnownWork'
    <3>1. {"findFile", "createFile", "writePassword"} \cap words = {}
      BY DEF BudgetWords, NumbersWords, TicketWords, StockWords, LeaseWords, PvWords, ReportWords
    <3>2. QED
      BY <2>6, <3>1, KeepsKnown
  <2>7. QED
    BY <1>2, <2>1, <2>2, <2>3, <2>4, <2>5, <2>6 DEF Next
<1>3. QED
  BY <1>1, <1>2

LEMMA StartKnown ==
    ASSUME Init
    PROVE  KnownWork /\ \A r \in Requests : req[r] = Idle
BY DEF Init, KnownWork, Idle

\* A step that leaves other work only leaves a part's work as it was.
LEMMA LeavesElsewhere ==
    ASSUME NEW words, NEW mine, Leaves(words), words \cap mine = {}, "idle" \notin mine
    PROVE  Elsewhere(mine)
BY DEF Leaves, Elsewhere

\* Only the requests of the scene are ever at work.
OnlyCalled == \A r \in Requests : req[r] # Idle => r \in scene.requests

\* A step that one request takes by itself: the others stay as they are, and
\* it had been called, or is now, or stays as it is.
ByOne(r) ==
    /\ \A q \in Requests \ {r} : req'[q] = req[q]
    /\ req[r] # Idle \/ r \in scene.requests \/ req'[r] = req[r]

LEMMA AwaitByOne ==
    ASSUME KnownWork, NEW r \in Requests, NEW w, Await(r, w),
           req[r].do # "idle" \/ r \in scene.requests
    PROVE  ByOne(r)
BY DEF KnownWork, Await, ByOne, Idle

LEMMA SameByOne ==
    ASSUME NEW r, req' = req
    PROVE  ByOne(r)
BY DEF ByOne

LEMMA BudgetByOne ==
    ASSUME KnownWork, NEW r \in Requests, BudgetNext(r)
    PROVE  ByOne(r)
<1>1. CASE Upload(r) \/ Activate(r)
  <2>1. r \in scene.requests /\ \E w : Await(r, w)
    BY <1>1 DEF Upload, Activate, Free
  <2>2. QED
    BY <2>1, AwaitByOne
<1>2. CASE NumberTable(r) \/ InsertTable(r) \/ Deactivate(r) \/ ActivateInTransaction(r)
  <2>1. req[r].do # "idle" /\ \E w : Await(r, w)
    BY <1>2 DEF NumberTable, InsertTable, Deactivate, ActivateInTransaction, Done
  <2>2. QED
    BY <2>1, AwaitByOne
<1>3. QED
  BY <1>1, <1>2 DEF BudgetNext

LEMMA NumbersByOne ==
    ASSUME KnownWork, NEW r \in Requests, PurchaseMove(r)
    PROVE  ByOne(r)
<1>1. CASE r \in scene.requests /\ \E o \in Origins : CheckLink(r, o)
  <2>1. \E w : Await(r, w)
    BY <1>1 DEF CheckLink
  <2>2. QED
    BY <1>1, <2>1, AwaitByOne
<1>2. CASE CountPurchases(r) \/ InsertPurchase(r)
  <2>1. req[r].do # "idle" /\ \E w : Await(r, w)
    BY <1>2 DEF CountPurchases, InsertPurchase, Done
  <2>2. QED
    BY <2>1, AwaitByOne
<1>3. CASE CreatePurchase(r)
  BY <1>3, AwaitByOne DEF CreatePurchase, Free
<1>4. CASE DeleteDraft(r)
  BY <1>4, SameByOne DEF DeleteDraft
<1>5. QED
  BY <1>1, <1>2, <1>3, <1>4 DEF NumbersNext, PurchaseMove

LEMMA TicketsByOne ==
    ASSUME KnownWork, NEW r \in Requests, TicketsNext(r)
    PROVE  ByOne(r)
<1>1. ASSUME NEW t, FileTicket(r, t) \/ GiveStatus(r, t) \/ CancelJourney(r, t) \/ SoftDelete(r, t)
      PROVE  ByOne(r)
  <2>1. r \in scene.requests /\ \E w : Await(r, w)
    BY <1>1 DEF FileTicket, GiveStatus, CancelJourney, SoftDelete, TicketCalled, Free, NumberIt,
                WriteTicket
  <2>2. QED
    BY <2>1, AwaitByOne
<1>2. CASE InsertTicket(r) \/ RefuseTicket(r) \/ NumberAgain(r) \/ ApplyChange(r)
  <2>1. req[r].do # "idle" /\ \E w : Await(r, w)
    BY <1>2 DEF InsertTicket, RefuseTicket, NumberAgain, ApplyChange, NumberIt, Done
  <2>2. QED
    BY <2>1, AwaitByOne
<1>3. CASE \E t : DeleteFiler(r, t)
  BY <1>3, SameByOne DEF DeleteFiler
<1>4. CASE PurchaseMove(r)
  BY <1>4, NumbersByOne
<1>5. CASE \E t \in Origins : Trigger(r, t)
  BY <1>4, <1>5 DEF Trigger, Free, PurchaseMove
<1>6. QED
  BY <1>1, <1>2, <1>3, <1>4, <1>5, TicketsAssumption
     DEF PurchaseMove, TicketsNext, CreateTrip, CreateFuelSupply, CreateRepair, CreateDemand, UpdateTripStatus,
         UpdateFuelStatus, UpdateRepairStatus, UpdateDemandStatus, CancelTrip,
         CancelFuelSupply, TriggerForRepair, TriggerForDemand

LEMMA StockByOne ==
    ASSUME KnownWork, NEW r \in Requests, StockNext(r)
    PROVE  ByOne(r)
<1>1. ASSUME NEW a, UpdateAsset(r, a) \/ ArchiveAsset(r, a) \/ Attribute(r, a) \/ Return(r, a)
      PROVE  ByOne(r)
  <2>1. r \in scene.requests /\ \E w : Await(r, w)
    BY <1>1 DEF UpdateAsset, ArchiveAsset, Attribute, Return, StockCalled, Free
  <2>2. QED
    BY <2>1, AwaitByOne
<1>2. CASE \E a : CreateAsset(r, a)
  BY <1>2, SameByOne DEF CreateAsset
<1>3. CASE \E a \in Assets : TriggerForAsset(r, a)
  BY <1>3, NumbersByOne, ItStockAssumption DEF TriggerForAsset, Free, PurchaseMove
<1>4. CASE WriteStock(r)
  <2>1. req[r].do # "idle" /\ \E w : Await(r, w)
    BY <1>4 DEF WriteStock, Done
  <2>2. QED
    BY <2>1, AwaitByOne
<1>5. QED
  BY <1>1, <1>2, <1>3, <1>4 DEF StockNext

LEMMA AccountsByOne ==
    ASSUME KnownWork, NEW r \in Requests, AccountsNext(r) \/ DeleteUserRow(r)
    PROVE  ByOne(r)
<1>1. ASSUME NEW u, \/ CreateUser(r, u) \/ Login(r, u) \/ Refresh(r, u) \/ Logout(r, u)
                    \/ ChangePassword(r, u) \/ ToggleActive(r, u) \/ RemoveUser(r, u)
      PROVE  ByOne(r)
  <2>1. r \in scene.requests /\ \E w : Await(r, w)
    BY <1>1 DEF CreateUser, Login, Refresh, Logout, ChangePassword, ToggleActive, RemoveUser,
                AccountCalled, Free
  <2>2. QED
    BY <2>1, AwaitByOne
<1>2. CASE (\E u : LogoutAll(r, u)) \/ Expire
  BY <1>2, SameByOne DEF LogoutAll, Expire
<1>3. CASE \/ InsertUser(r) \/ StoreToken(r) \/ RevokeToken(r) \/ WritePassword(r)
           \/ RevokeTokens(r) \/ DeleteTokens(r) \/ WriteActive(r) \/ DeleteTokensOf(r)
           \/ DeleteUserRow(r)
  <2>1. req[r].do # "idle" /\ \E w : Await(r, w)
    BY <1>3 DEF InsertUser, StoreToken, RevokeToken, WritePassword, RevokeTokens, DeleteTokens,
                WriteActive, DeleteTokensOf, DeleteUserRow, Done
  <2>2. QED
    BY <2>1, AwaitByOne
<1>4. QED
  BY <1>1, <1>2, <1>3 DEF AccountsNext

LEMMA LeasesByOne ==
    ASSUME KnownWork, NEW r \in Requests, LeasesNext(r)
    PROVE  ByOne(r)
<1>1. ASSUME NEW l, \/ CreateLease(r, l) \/ UpdateLease(r, l) \/ ArchiveLease(r, l)
                    \/ AddAmendment(r, l) \/ AddPayment(r, l) \/ RunIndexation(r)
      PROVE  ByOne(r)
  <2>1. r \in scene.requests /\ \E w : Await(r, w)
    BY <1>1 DEF CreateLease, UpdateLease, ArchiveLease, AddAmendment, AddPayment, RunIndexation,
                LeaseCalled, Free
  <2>2. QED
    BY <2>1, AwaitByOne
<1>2. CASE \/ InsertLease(r) \/ WriteLease(r) \/ WriteAmendment(r) \/ InsertPayment(r)
           \/ IndexLease(r) \/ IndexFails(r) \/ IndexationEnds(r)
  <2>1. req[r].do # "idle" /\ \E w : Await(r, w)
    BY <1>2 DEF InsertLease, WriteLease, WriteAmendment, InsertPayment, IndexLease, IndexFails,
                IndexationEnds, Done
  <2>2. QED
    BY <2>1, AwaitByOne
<1>3. CASE NextMonth
  BY <1>3, SameByOne DEF NextMonth
<1>4. QED
  BY <1>1, <1>2, <1>3 DEF LeasesNext

\* A call of the buyer, or one of the rest of the lifecycle.
LEMMA PvCallsAwait ==
    ASSUME NEW r,
           \/ CreatePv(r) \/ UpdatePv(r) \/ AddSupplierItems(r) \/ SelectSupplierItems(r)
           \/ SubmitPv(r) \/ Validate(r) \/ Reject(r) \/ RequestChanges(r)
           \/ Publish(r) \/ UpdateAndRepublish(r) \/ ValidateDerogation(r) \/ UploadBC(r)
    PROVE  r \in scene.requests /\ req[r] = Idle /\ \E w : Await(r, w)
<1>1. ASSUME NEW endpoint, NEW todo, Writes(r, endpoint, todo)
      PROVE  r \in scene.requests /\ req[r] = Idle /\ \E w : Await(r, w)
  BY <1>1 DEF Writes, Free
<1>2. QED
  BY <1>1
     DEF CreatePv, UpdatePv, AddSupplierItems, SelectSupplierItems, SomeSuppliers, PvCalled, Free,
         SubmitPv, Validate, Reject, RequestChanges, Publish, UpdateAndRepublish,
         ValidateDerogation, UploadBC

LEMMA PvByOne ==
    ASSUME KnownWork, NEW r \in Requests, PvNext(r)
    PROVE  ByOne(r)
<1>1. CASE \/ CreatePv(r) \/ UpdatePv(r) \/ AddSupplierItems(r) \/ SelectSupplierItems(r)
           \/ SubmitPv(r) \/ Validate(r) \/ Reject(r) \/ RequestChanges(r)
           \/ Publish(r) \/ UpdateAndRepublish(r) \/ ValidateDerogation(r) \/ UploadBC(r)
  BY <1>1, PvCallsAwait, AwaitByOne
<1>2. CASE \/ InsertPv(r) \/ DeleteSuppliers(r) \/ CreateSuppliers(r) \/ DeleteItems(r)
           \/ CreateItem(r) \/ ItemsEnd(r) \/ Deselect(r) \/ Select(r)
           \/ RequirePv(r) \/ CreateFlow(r) \/ UpdatePurchase(r)
  <2>1. req[r].do # "idle" /\ \E w : Await(r, w)
    BY <1>2 DEF InsertPv, DeleteSuppliers, CreateSuppliers, DeleteItems, CreateItem, ItemsEnd,
                Deselect, Select, RequirePv, CreateFlow, UpdatePurchase, Writing, GoesOn, Done
  <2>2. QED
    BY <2>1, AwaitByOne
<1>3. QED
  BY <1>1, <1>2 DEF PvNext, PvEdits, PvLifecycle

LEMMA OtherByOne ==
    ASSUME KnownWork, NEW r \in Requests, ReportsNext(r) \/ Abandon(r)
    PROVE  ByOne(r)
<1>1. CASE AskReport(r)
  <2>1. r \in scene.requests /\ \E w : Await(r, w)
    BY <1>1 DEF AskReport, Free
  <2>2. QED
    BY <2>1, AwaitByOne
<1>2. CASE AnswerReport(r)
  BY <1>2, AwaitByOne DEF AnswerReport, Done
<1>3. CASE Abandon(r)
  BY <1>3 DEF Abandon, Done, Await, ByOne, KnownWork
<1>4. QED
  BY <1>1, <1>2, <1>3 DEF ReportsNext

\* The steps that end every request at once: the process dies.
AllEnd == req' = [r \in Requests |-> Idle]

LEMMA FilesByOne ==
    ASSUME KnownWork, NEW r \in Requests, FilesNext(r)
    PROVE  ByOne(r) \/ (AllEnd /\ \E f \in optimizing : UnhandledRejection(f))
<1>1. ASSUME NEW v, \/ UploadSpecimen(r) \/ ActivateSpecimen(r) \/ RemoveSpecimen(r)
                    \/ UploadPhoto(r, v) \/ DeletePhoto(r, v) \/ UploadDocument(r, v)
      PROVE  ByOne(r)
  <2>1. r \in scene.requests /\ \E w : Await(r, w)
    BY <1>1 DEF UploadSpecimen, ActivateSpecimen, RemoveSpecimen, UploadPhoto, DeletePhoto,
                UploadDocument, StoreFile, FileCalled, Free
  <2>2. QED
    BY <2>1, AwaitByOne
<1>2. CASE (\E f \in optimizing : Optimize(f)) \/ \E v : ArchiveVehicle(r, v)
  BY <1>2, SameByOne DEF Optimize, ArchiveVehicle
<1>3. CASE \E f \in optimizing : UnhandledRejection(f)
  BY <1>3 DEF UnhandledRejection, AllEnd
<1>4. CASE \/ FindFile(r) \/ CreateFile(r) \/ DeleteFile(r) \/ InsertSpecimen(r)
           \/ DeactivateSpecimens(r) \/ ActivateOne(r) \/ DeleteSpecimen(r)
  <2>1. req[r].do # "idle" /\ \E w : Await(r, w)
    BY <1>4 DEF FindFile, CreateFile, DeleteFile, InsertSpecimen, DeactivateSpecimens, ActivateOne,
                DeleteSpecimen, Done
  <2>2. QED
    BY <2>1, AwaitByOne
<1>5. CASE \/ AppendPhoto(r) \/ ReadPhotos(r) \/ WritePhotos(r) \/ CountReferences(r)
           \/ Supersede(r) \/ InsertDocument(r)
  <2>1. req[r].do # "idle" /\ \E w : Await(r, w)
    BY <1>5 DEF AppendPhoto, ReadPhotos, WritePhotos, CountReferences, Supersede, InsertDocument,
                Done
  <2>2. QED
    BY <2>1, AwaitByOne
<1>6. QED
  BY <1>1, <1>2, <1>3, <1>4, <1>5 DEF FilesNext

LEMMA SigningByOne ==
    ASSUME KnownWork, SigningNext
    PROVE  (\E r \in Requests : ByOne(r)) \/ req' = req \/ (AllEnd /\ Die)
<1>1. ASSUME NEW r \in Requests, NEW p, SignStep(r, p)
      PROVE  ByOne(r)
  <2>1. r \in scene.requests /\ \E w : Await(r, w)
    BY <1>1 DEF SignStep, Free
  <2>2. QED
    BY <2>1, AwaitByOne
<1>2. ASSUME NEW r \in Requests, MarkPending(r) \/ Enqueue(r) \/ WriteJobId(r)
      PROVE  ByOne(r)
  <2>1. req[r].do # "idle" /\ \E w : Await(r, w)
    BY <1>2 DEF MarkPending, Enqueue, WriteJobId, Done
  <2>2. QED
    BY <2>1, AwaitByOne
<1>3. QED
  BY <1>1, <1>2 DEF SigningNext, WorkerStep, Die, AllEnd

LEMMA StepsByOne ==
    ASSUME KnownWork, [Next]_vars
    PROVE  \/ req' = req \/ \E r \in Requests : ByOne(r)
           \/ AllEnd /\ (Die \/ \E f \in optimizing : UnhandledRejection(f))
<1>1. CASE UNCHANGED vars
  BY <1>1 DEF vars
<1>2. CASE SigningStep
  BY <1>2, SigningByOne DEF SigningStep
<1>3. ASSUME NEW r \in Requests, BudgetStep(r) \/ TicketsStep(r) \/ StockStep(r) \/ LeasesStep(r)
      PROVE  ByOne(r)
  BY <1>3, BudgetByOne, TicketsByOne, StockByOne, LeasesByOne
     DEF BudgetStep, TicketsStep, StockStep, LeasesStep
<1>4. ASSUME NEW r \in Requests, PvStep(r) \/ OtherStep(r)
      PROVE  ByOne(r)
  BY <1>4, PvByOne, OtherByOne DEF PvStep, OtherStep
<1>5. ASSUME NEW r \in Requests, AccountsStep(r)
      PROVE  ByOne(r) \/ (AllEnd /\ \E f \in optimizing : UnhandledRejection(f))
  BY <1>5, AccountsByOne, FilesByOne DEF AccountsStep, DeleteUserAndFiles
<1>6. QED
  BY <1>1, <1>2, <1>3, <1>4, <1>5 DEF Next

LEMMA StepsCalled ==
    ASSUME KnownWork, OnlyCalled, [Next]_vars
    PROVE  OnlyCalled'
<1>1. scene' = scene
  BY DEF Next, vars
<1>2. QED
  BY <1>1, StepsByOne DEF ByOne, AllEnd, OnlyCalled, Idle

\* What every part's invariant needs.
Common == KnownWork /\ OnlyCalled /\ scene \in Scenes

LEMMA StartCommon ==
    ASSUME Init
    PROVE  Common
BY StartKnown DEF Common, OnlyCalled, Init

LEMMA StepsKeepCommon ==
    ASSUME Common, [Next]_vars
    PROVE  Common' /\ scene' = scene
BY StepsLeave, StepsCalled DEF Common

\* When requests come one after the other, the one at work is alone.
LEMMA SerialAlone ==
    ASSUME Common, Serial, NEW r \in Requests, req[r] # Idle \/ r \in scene.requests
    PROVE  \A q \in Requests \ {r} : req[q] = Idle
BY DEF Common, OnlyCalled, Serial

LEMMA GreatestOfInterval ==
    ASSUME NEW n \in Nat \ {0}, NEW S, S = 1 .. n
    PROVE  (CHOOSE v \in S : \A w \in S : w <= v) = n
<1>1. n \in S /\ \A w \in S : w <= n
  OBVIOUS
<1>2. \A v \in S : (\A w \in S : w <= v) => v = n
  <2>1. TAKE v \in S
  <2>2. HAVE \A w \in S : w <= v
  <2>3. v <= n /\ n <= v /\ v \in Nat
    BY <1>1, <2>2
  <2>4. QED
    BY <2>3
<1>3. QED
  BY <1>1, <1>2

-----------------------------------------------------------------------------
(* The budget tables.                                                      *)

BudgetRows == UNION {RowsOf(c) : c \in SUBSET Codes}

\* What a request that works on the tables has still to do.  When it is alone,
\* what it has read of them is still so.
TableWork(r) ==
    LET w == req[r]
    IN  /\ w.do \in {"numberTable", "insertTable"} => w.rows \in BudgetRows
        /\ w.do = "insertTable" =>
            w.version \in Nat \ {0} /\ 1 .. (w.version - 1) \subseteq Versions
        /\ w.do \in {"deactivate", "activate"} => w.table \in DOMAIN tables
        /\ Serial =>
            /\ w.do = "insertTable" => w.version = Len(tables) + 1
            /\ w.do = "activate" => w.seen = Active

OneInForce ==
    /\ (\E i \in DOMAIN tables : ~tables[i].pending) => Active # {}
    /\ \E k \in 0 .. Len(tables) : Versions = 1 .. k
    /\ Serial =>
        /\ \A i, j \in Active : i = j
        /\ Versions = 1 .. Len(tables)

TablesInv == Common /\ BudgetType /\ OneInForce /\ \A r \in Requests : TableWork(r)

LEMMA TablesElsewhere ==
    ASSUME KnownWork, [Next]_vars
    PROVE  \/ \E r \in Requests : BudgetNext(r)
           \/ tables' = tables /\ Elsewhere(BudgetWords)
<1>1. CASE UNCHANGED vars
  BY <1>1 DEF vars, Elsewhere
<1>2. ASSUME NEW words \in {NumbersWords, TicketWords, StockWords, AccountWords, FileWords,
                            SigningWords, LeaseWords, PvWords, ReportWords}, Leaves(words)
      PROVE  Elsewhere(BudgetWords)
  <2>1. words \cap BudgetWords = {} /\ "idle" \notin BudgetWords
    BY DEF BudgetWords, NumbersWords, TicketWords, StockWords, AccountWords, FileWords,
           SigningWords, LeaseWords, PvWords, ReportWords
  <2>2. QED
    BY <1>2, <2>1, LeavesElsewhere
<1>3. CASE SigningStep
  BY <1>2, <1>3, SigningLeaves DEF SigningStep
<1>4. ASSUME NEW r \in Requests, TicketsStep(r) \/ StockStep(r)
      PROVE  tables' = tables /\ Elsewhere(BudgetWords)
  BY <1>2, <1>4, TicketsLeave, StockLeaves, NumbersLeave DEF TicketsStep, StockStep
<1>5. ASSUME NEW r \in Requests, AccountsStep(r)
      PROVE  tables' = tables /\ Elsewhere(BudgetWords)
  BY <1>2, <1>5, AccountsLeave, FilesLeave DEF AccountsStep, DeleteUserAndFiles
<1>6. ASSUME NEW r \in Requests, LeasesStep(r) \/ PvStep(r) \/ OtherStep(r)
      PROVE  tables' = tables /\ Elsewhere(BudgetWords)
  BY <1>2, <1>6, LeasesLeave, PvLeaves, OtherLeaves DEF LeasesStep, PvStep, OtherStep
<1>7. QED
  BY <1>1, <1>3, <1>4, <1>5, <1>6 DEF Next, BudgetStep

LEMMA TablesStart ==
    ASSUME Init
    PROVE  TablesInv
<1>1. Common /\ \A r \in Requests : req[r] = Idle
  BY StartCommon, StartKnown
<1>2. tables = scene.tables /\ StartInForce(tables)
  BY ScenesAssumption DEF Init, BudgetInit
<1>3. OneInForce
  BY <1>2 DEF StartInForce, OneInForce, Active, Versions
<1>4. QED
  BY <1>1, <1>2, <1>3 DEF TablesInv, StartInForce, BudgetType, TableWork, Idle

LEMMA ParsedRows ==
    ASSUME NEW file \in Seq(Line), ParseBudgetCsv(file) # None
    PROVE  ParseBudgetCsv(file) \in BudgetRows
<1> DEFINE codes == {file[i].code : i \in Kept(file)}
           detail(c) == file[CHOOSE i \in Kept(file) : file[i].code = c].detail
<1>1. \A i \in Kept(file) : file[i] \in Line
  BY DEF Kept
<1>2. codes \subseteq Codes
  BY <1>1 DEF Line
<1>3. ASSUME NEW c \in codes
      PROVE  detail(c) \in Details
  <2>1. (CHOOSE i \in Kept(file) : file[i].code = c) \in Kept(file)
    BY <1>3
  <2>2. QED
    BY <1>1, <2>1 DEF Line
<1>4. ParseBudgetCsv(file) = [c \in codes |-> detail(c)]
  BY DEF ParseBudgetCsv
<1> HIDE DEF codes, detail
<1>5. ParseBudgetCsv(file) \in [codes -> Details]
  BY <1>3, <1>4
<1>6. QED
  BY <1>2, <1>5 DEF BudgetRows, RowsOf

LEMMA NextVersionIsNew ==
    ASSUME BudgetType, NEW k \in Nat, Versions = 1 .. k
    PROVE  NextVersion = k + 1
<1>1. CASE tables = << >>
  <2>1. Versions = {}
    BY <1>1 DEF Versions
  <2>2. k = 0
    BY <2>1
  <2>3. QED
    BY <1>1, <2>2 DEF NextVersion
<1>2. CASE tables # << >>
  <2>1. 1 \in DOMAIN tables
    BY <1>2 DEF BudgetType
  <2>2. tables[1].version \in Versions
    BY <2>1 DEF Versions
  <2>3. k \in Nat \ {0}
    BY <2>2
  <2>4. (CHOOSE v \in Versions : \A w \in Versions : w <= v) = k
    BY <2>3, GreatestOfInterval
  <2>5. NextVersion = 1 + CHOOSE v \in Versions : \A w \in Versions : w <= v
    BY <1>2 DEF NextVersion
  <2>6. NextVersion = 1 + k
    BY <2>4, <2>5
  <2>7. QED
    BY <2>6
<1>3. QED
  BY <1>1, <1>2

\* The work of the others, when the tables stay as they are.
LEMMA TableWorkStays ==
    ASSUME tables' = tables, scene' = scene, NEW r, TableWork(r), req'[r] = req[r]
    PROVE  TableWork(r)'
BY DEF TableWork, Serial, Versions, Active

LEMMA OneInForceStays ==
    ASSUME tables' = tables, scene' = scene, OneInForce
    PROVE  OneInForce'
BY DEF OneInForce, Serial, Versions, Active

LEMMA TableReads ==
    ASSUME TablesInv, scene' = scene, NEW r \in Requests,
           Upload(r) \/ NumberTable(r) \/ Activate(r) \/ Deactivate(r)
    PROVE  BudgetType' /\ OneInForce' /\ \A q \in Requests : TableWork(q)'
<1>1. tables' = tables
  BY DEF Upload, NumberTable, Activate, Deactivate
<1>2. BudgetType' /\ OneInForce'
  BY <1>1, OneInForceStays DEF TablesInv, BudgetType
<1>3. req = [q \in Requests |-> req[q]]
  BY DEF TablesInv, Common, KnownWork
<1>4. ASSUME NEW w, Await(r, w)
      PROVE  req'[r] = w /\ \A q \in Requests \ {r} : req'[q] = req[q]
  BY <1>3, <1>4 DEF Await
<1>5. (Serial' <=> Serial) /\ Active' = Active /\ Versions' = Versions
  BY <1>1 DEF Serial, Active, Versions
<1>6. (\A q \in Requests \ {r} : req'[q] = req[q]) /\ TableWork(r)'
  <2>1. CASE Upload(r)
    <3>1. PICK file \in scene.csv :
            /\ ParseBudgetCsv(file) # None
            /\ Await(r, [do |-> "numberTable", rows |-> ParseBudgetCsv(file)])
      BY <2>1 DEF Upload
    <3>2. ParseBudgetCsv(file) \in BudgetRows
      BY <3>1, ParsedRows, ScenesAssumption DEF TablesInv, Common
    <3>3. QED
      BY <1>4, <3>1, <3>2 DEF TableWork
  <2>2. CASE NumberTable(r)
    <3> DEFINE w == [do |-> "insertTable", rows |-> req[r].rows, version |-> NextVersion]
    <3>1. Await(r, w) /\ req[r].rows \in BudgetRows
      BY <2>2 DEF NumberTable, TablesInv, TableWork
    <3>2. PICK k \in Nat : Versions = 1 .. k
      BY DEF TablesInv, OneInForce, BudgetType
    <3>3. NextVersion = k + 1
      BY <3>2, NextVersionIsNew DEF TablesInv
    <3>4. NextVersion \in Nat \ {0} /\ 1 .. (NextVersion - 1) \subseteq Versions
      BY <3>2, <3>3
    <3>5. Serial => NextVersion = Len(tables) + 1
      BY NextVersionIsNew DEF TablesInv, OneInForce, BudgetType
    <3>6. QED
      BY <1>1, <1>4, <1>5, <3>1, <3>4, <3>5 DEF TableWork
  <2>3. CASE Activate(r)
    <3>1. PICK i \in DOMAIN tables : Await(r, [do |-> "deactivate", table |-> i])
      BY <2>3 DEF Activate
    <3>2. QED
      BY <1>1, <1>4, <3>1 DEF TableWork
  <2>4. CASE Deactivate(r)
    <3>1. /\ Await(r, [do |-> "activate", table |-> req[r].table, seen |-> Active])
          /\ req[r].table \in DOMAIN tables
      BY <2>4 DEF Deactivate, TablesInv, TableWork
    <3>2. QED
      BY <1>1, <1>4, <1>5, <3>1 DEF TableWork
  <2>5. QED
    BY <2>1, <2>2, <2>3, <2>4
<1>7. QED
  BY <1>1, <1>2, <1>6, TableWorkStays DEF TablesInv

\* A request that ends leaves nothing to do; what it wrote, the others' work
\* must bear with, and when it was alone there is no other.
LEMMA TableWrites ==
    ASSUME TablesInv, scene' = scene, NEW r \in Requests, Done(r), BudgetType',
           req[r] # Idle, Len(tables') >= Len(tables), Versions \subseteq Versions'
    PROVE  \A q \in Requests : TableWork(q)'
<1>1. /\ req'[r] = Idle /\ \A q \in Requests \ {r} : req'[q] = req[q]
      /\ Serial => \A q \in Requests \ {r} : req[q] = Idle
  BY DoneLeaves, SerialAlone DEF TablesInv, Common
<1>2. Serial' <=> Serial
  BY DEF Serial
<1>3. DOMAIN tables \subseteq DOMAIN tables'
  BY DEF TablesInv, BudgetType
<1>4. ASSUME NEW q \in Requests, q # r
      PROVE  TableWork(q)'
  BY <1>1, <1>2, <1>3, <1>4 DEF TablesInv, TableWork, Idle
<1>5. TableWork(r)'
  BY <1>1 DEF TableWork, Idle
<1>6. QED
  BY <1>4, <1>5

LEMMA InsertTableKeeps ==
    ASSUME TablesInv, scene' = scene, NEW r \in Requests, InsertTable(r)
    PROVE  BudgetType' /\ OneInForce' /\ \A q \in Requests : TableWork(q)'
<1> DEFINE n == Len(tables)
           new == [version |-> req[r].version, rows |-> req[r].rows,
                   pending |-> TRUE, active |-> FALSE]
<1>1. tables' = Append(tables, new) /\ Done(r) /\ TableWork(r) /\ req[r].do = "insertTable"
  BY DEF InsertTable, TablesInv
<1>2. tables \in Seq(Table) /\ new \in Table /\ n \in Nat
  BY <1>1 DEF TablesInv, BudgetType, TableWork, Table, BudgetRows
<1>3. /\ tables' \in Seq(Table) /\ Len(tables') = n + 1 /\ tables'[n + 1] = new
      /\ \A i \in DOMAIN tables : tables'[i] = tables[i] /\ i \in DOMAIN tables'
      /\ DOMAIN tables' = DOMAIN tables \cup {n + 1} /\ n + 1 \notin DOMAIN tables
  BY <1>1, <1>2
<1>4. Active' = Active
  BY <1>3 DEF Active
<1>5. Versions' = Versions \cup {req[r].version}
  BY <1>3 DEF Versions
<1>6. \E k \in 0 .. Len(tables') : Versions' = 1 .. k
  <2>1. PICK k \in 0 .. n : Versions = 1 .. k
    BY DEF TablesInv, OneInForce
  <2>2. req[r].version \in Nat \ {0} /\ 1 .. (req[r].version - 1) \subseteq 1 .. k
    BY <1>1, <2>1 DEF TableWork
  <2>3. req[r].version <= k + 1
    <3>1. CASE req[r].version = 1
      BY <3>1
    <3>2. CASE req[r].version > 1
      <4>1. req[r].version - 1 \in 1 .. (req[r].version - 1)
        BY <2>2, <3>2
      <4>2. QED
        BY <2>2, <4>1
    <3>3. QED
      BY <2>2, <3>1, <3>2
  <2>4. CASE req[r].version = k + 1
    <3>1. Versions' = 1 .. (k + 1) /\ k + 1 \in 0 .. Len(tables')
      BY <1>2, <1>3, <1>5, <2>1, <2>4
    <3>2. QED
      BY <3>1
  <2>5. CASE req[r].version # k + 1
    <3>1. Versions' = 1 .. k /\ k \in 0 .. Len(tables')
      BY <1>2, <1>3, <1>5, <2>1, <2>2, <2>3, <2>5
    <3>2. QED
      BY <3>1
  <2>6. QED
    BY <2>4, <2>5
<1>7. Serial => Versions' = 1 .. Len(tables')
  <2>1. ASSUME Serial
        PROVE  Versions = 1 .. n /\ req[r].version = n + 1
    BY <1>1, <2>1 DEF TablesInv, OneInForce, TableWork
  <2>2. QED
    BY <1>2, <1>3, <1>5, <2>1
<1>8. (\E i \in DOMAIN tables' : ~tables'[i].pending) => Active # {}
  BY <1>3 DEF TablesInv, OneInForce
<1>9. OneInForce'
  BY <1>4, <1>6, <1>7, <1>8 DEF OneInForce, Serial, TablesInv
<1>10. req[r] # Idle
  BY <1>1 DEF Idle
<1>11. Len(tables') >= Len(tables) /\ Versions \subseteq Versions'
  BY <1>2, <1>3, <1>5
<1> HIDE DEF new, n
<1>12. QED
  BY <1>1, <1>3, <1>9, <1>10, <1>11, TableWrites DEF BudgetType

LEMMA ActivateKeeps ==
    ASSUME TablesInv, scene' = scene, NEW r \in Requests, ActivateInTransaction(r)
    PROVE  BudgetType' /\ OneInForce' /\ \A q \in Requests : TableWork(q)'
<1> DEFINE target == req[r].table
           row(i) == IF i = target THEN [tables[i] EXCEPT !.active = TRUE, !.pending = FALSE]
                     ELSE IF i \in req[r].seen THEN [tables[i] EXCEPT !.active = FALSE]
                     ELSE tables[i]
<1>1. /\ tables' = [i \in DOMAIN tables |-> row(i)] /\ Done(r)
      /\ TableWork(r) /\ req[r].do = "activate"
  BY DEF ActivateInTransaction, TablesInv
<1>2. target \in DOMAIN tables /\ (Serial => req[r].seen = Active)
  BY <1>1 DEF TableWork
<1>3. tables \in Seq(Table) /\ DOMAIN tables = 1 .. Len(tables) /\ Len(tables) \in Nat
  BY DEF TablesInv, BudgetType
<1>4. ASSUME NEW i \in DOMAIN tables
      PROVE  /\ row(i) \in Table /\ row(i).version = tables[i].version
             /\ row(i).active <=> i = target \/ (tables[i].active /\ i \notin req[r].seen)
  <2>1. tables[i] \in Table
    BY <1>3
  <2>2. QED
    BY <2>1 DEF Table
<1> HIDE DEF row
<1>5. DOMAIN tables' = DOMAIN tables /\ \A i \in DOMAIN tables : tables'[i] = row(i)
  BY <1>1
<1>6. tables' \in Seq(Table) /\ Len(tables') = Len(tables)
  BY <1>1, <1>3, <1>4
<1>7. Versions' = Versions
  BY <1>4, <1>5 DEF Versions
<1>8. Active' = {target} \cup (Active \ req[r].seen)
  BY <1>2, <1>4, <1>5 DEF Active
<1>9. OneInForce'
  BY <1>2, <1>6, <1>7, <1>8 DEF OneInForce, Serial, TablesInv
<1>10. req[r] # Idle
  BY <1>1 DEF Idle
<1>11. Len(tables') >= Len(tables)
  BY <1>3, <1>6
<1>12. QED
  BY <1>1, <1>6, <1>7, <1>9, <1>10, <1>11, TableWrites DEF BudgetType

LEMMA TablesKept ==
    ASSUME TablesInv, [Next]_vars
    PROVE  TablesInv'
<1>1. Common' /\ scene' = scene
  BY StepsKeepCommon DEF TablesInv
<1>2. ASSUME NEW r \in Requests, BudgetNext(r)
      PROVE  TablesInv'
  BY <1>1, <1>2, TableReads, InsertTableKeeps, ActivateKeeps DEF BudgetNext, TablesInv
<1>3. CASE tables' = tables /\ Elsewhere(BudgetWords)
  <2>1. BudgetType' /\ OneInForce'
    BY <1>1, <1>3, OneInForceStays DEF TablesInv, BudgetType
  <2>2. ASSUME NEW r \in Requests
        PROVE  TableWork(r)'
    <3>1. CASE req'[r] = req[r]
      BY <1>1, <1>3, <3>1, TableWorkStays DEF TablesInv
    <3>2. CASE req'[r].do \notin BudgetWords
      BY <3>2 DEF TableWork, BudgetWords
    <3>3. QED
      BY <1>3, <3>1, <3>2 DEF Elsewhere
  <2>3. QED
    BY <1>1, <2>1, <2>2 DEF TablesInv
<1>4. QED
  BY <1>2, <1>3, TablesElsewhere DEF TablesInv, Common

LEMMA TablesAlways == Spec => []TablesInv
<1>1. Init => TablesInv
  BY TablesStart
<1>2. TablesInv /\ [Next]_vars => TablesInv'
  BY TablesKept
<1>3. QED
  BY <1>1, <1>2, PTL DEF Spec

\* Whatever uploads and activations run at once, once a table has been in
\* force one always is, and when activations come one after the other no two
\* are: activateInTransaction never leaves the purchases without a budget.
THEOREM AlwaysInForce == Spec => []TableInForce
<1>1. ASSUME TablesInv
      PROVE  TableInForce
  <2>1. ASSUME Serial
        PROVE  Cardinality(Active) <= 1
    <3>1. \A i, j \in Active : i = j
      BY <1>1, <2>1 DEF TablesInv, OneInForce
    <3>2. CASE Active = {}
      BY <3>2, FS_EmptySet
    <3>3. CASE Active # {}
      <4>1. PICK i \in Active : Active = {i}
        BY <3>1, <3>3
      <4>2. QED
        BY <4>1, FS_Singleton
    <3>4. QED
      BY <3>2, <3>3
  <2>2. QED
    BY <1>1, <2>1 DEF TablesInv, OneInForce, TableInForce
<1>2. QED
  BY <1>1, TablesAlways, PTL
-----------------------------------------------------------------------------
(* The purchases and what triggered them.                                  *)

PurchaseWork(r) ==
    /\ req[r].do \in NumbersWords => req[r] \in NumbersWork
    /\ Serial => FoundNoLink(r)

PurchasesInv ==
    /\ Common /\ NumbersSound
    /\ Serial => LinksExact
    /\ \A r \in Requests : PurchaseWork(r)

LEMMA PurchasesElsewhere ==
    ASSUME KnownWork, [Next]_vars
    PROVE  \/ \E r \in Requests : PurchaseMove(r)
           \/ UNCHANGED << purchases, link >> /\ Elsewhere(NumbersWords)
<1>1. CASE UNCHANGED vars
  BY <1>1 DEF vars, numberVars, Elsewhere
<1>2. ASSUME NEW words \in {BudgetWords, TicketWords, StockWords, AccountWords, FileWords,
                            SigningWords, LeaseWords, PvWords, ReportWords}, Leaves(words)
      PROVE  Elsewhere(NumbersWords)
  <2>1. words \cap NumbersWords = {} /\ "idle" \notin NumbersWords
    BY DEF BudgetWords, NumbersWords, TicketWords, StockWords, AccountWords, FileWords,
           SigningWords, LeaseWords, PvWords, ReportWords
  <2>2. QED
    BY <1>2, <2>1, LeavesElsewhere
<1>3. CASE SigningStep
  BY <1>2, <1>3, SigningLeaves DEF SigningStep, numberVars
<1>4. ASSUME NEW r \in Requests, BudgetStep(r) \/ TicketsStep(r) \/ StockStep(r)
      PROVE  \/ PurchaseMove(r)
             \/ UNCHANGED << purchases, link >> /\ Elsewhere(NumbersWords)
  BY <1>2, <1>4, BudgetLeaves, TicketsLeave, StockLeaves
     DEF BudgetStep, TicketsStep, StockStep, numberVars
<1>5. ASSUME NEW r \in Requests, AccountsStep(r)
      PROVE  UNCHANGED << purchases, link >> /\ Elsewhere(NumbersWords)
  BY <1>2, <1>5, AccountsLeave, FilesLeave DEF AccountsStep, DeleteUserAndFiles, numberVars
<1>6. ASSUME NEW r \in Requests, LeasesStep(r) \/ PvStep(r) \/ OtherStep(r)
      PROVE  UNCHANGED << purchases, link >> /\ Elsewhere(NumbersWords)
  BY <1>2, <1>6, LeasesLeave, PvLeaves, OtherLeaves DEF LeasesStep, PvStep, OtherStep, numberVars
<1>7. QED
  BY <1>1, <1>3, <1>4, <1>5, <1>6 DEF Next

LEMMA PurchasesStart ==
    ASSUME Init
    PROVE  PurchasesInv
<1>1. Common /\ \A r \in Requests : req[r] = Idle
  BY StartCommon, StartKnown
<1>2. NumbersSound /\ LinksExact
  BY NumbersStart DEF Init, TicketsInit
<1>3. QED
  BY <1>1, <1>2 DEF PurchasesInv, PurchaseWork, FoundNoLink, NumbersWords, Idle

LEMMA PurchaseMoves ==
    ASSUME PurchasesInv, Common', scene' = scene, NEW r \in Requests, PurchaseMove(r)
    PROVE  PurchasesInv'
<1>1. Serial' <=> Serial
  BY DEF Serial
<1>2. KnownWork /\ NumbersSound /\ NumbersType
  BY DEF PurchasesInv, Common, NumbersSound
<1>3. ASSUME NEW w, Await(r, w)
      PROVE  req'[r] = w /\ \A q \in Requests \ {r} : req'[q] = req[q]
  BY <1>2, <1>3 DEF Await, KnownWork
<1>4. ASSUME UNCHANGED << purchases, link >>, \A q \in Requests \ {r} : req'[q] = req[q],
             PurchaseWork(r)'
      PROVE  PurchasesInv'
  <2>1. ASSUME NEW q \in Requests, q # r
        PROVE  PurchaseWork(q)'
    BY <1>1, <1>4, <2>1 DEF PurchasesInv, PurchaseWork, FoundNoLink
  <2>2. NumbersSound' /\ (LinksExact => LinksExact')
    BY <1>2, <1>4, SameNumbers
  <2>3. QED
    BY <1>1, <1>4, <2>1, <2>2 DEF PurchasesInv
<1>5. CASE CreatePurchase(r) \/ CountPurchases(r)
  <2>1. PICK o \in Origins \cup {None} :
            /\ Await(r, Insert(o)) /\ UNCHANGED << purchases, link >>
            /\ Serial /\ o # None => link[o] = 0
    <3>1. CASE CreatePurchase(r)
      BY <3>1 DEF CreatePurchase
    <3>2. CASE CountPurchases(r)
      <4>1. req[r].do \in NumbersWords /\ req[r].do = "countPurchases"
        BY <3>2 DEF CountPurchases, NumbersWords
      <4>2. req[r] \in NumbersWork /\ (Serial => FoundNoLink(r))
        BY <4>1 DEF PurchasesInv, PurchaseWork
      <4>3. req[r].origin \in Origins
        BY <4>1, <4>2 DEF NumbersWork
      <4>4. QED
        BY <3>2, <4>1, <4>2, <4>3 DEF CountPurchases, FoundNoLink
    <3>3. QED
      BY <1>5, <3>1, <3>2
  <2>2. Insert(o) \in NumbersWork /\ Insert(o).origin = o
    BY <1>2, NextNumberType DEF Insert, NumbersWork
  <2>3. PurchaseWork(r)'
    BY <1>1, <1>3, <2>1, <2>2 DEF PurchaseWork, FoundNoLink
  <2>4. QED
    BY <1>3, <1>4, <2>1, <2>3
<1>6. CASE \E o \in Origins : CheckLink(r, o)
  <2>1. PICK o \in Origins : /\ link[o] = 0 /\ UNCHANGED << purchases, link >>
                             /\ Await(r, [do |-> "countPurchases", origin |-> o])
    BY <1>6 DEF CheckLink
  <2>2. [do |-> "countPurchases", origin |-> o] \in NumbersWork
    BY DEF NumbersWork
  <2>3. PurchaseWork(r)'
    BY <1>3, <2>1, <2>2 DEF PurchaseWork, FoundNoLink
  <2>4. QED
    BY <1>3, <1>4, <2>1, <2>3
<1>7. CASE InsertPurchase(r)
  <2>1. req[r].do \in NumbersWords /\ req[r] # Idle
    BY <1>7 DEF InsertPurchase, NumbersWords, Idle
  <2>2. req[r] \in NumbersWork /\ (Serial => FoundNoLink(r) /\ LinksExact)
    BY <2>1 DEF PurchasesInv, PurchaseWork
  <2>3. NumbersSound' /\ (Serial => LinksExact')
    BY <1>2, <1>7, <2>2, InsertKeepsNumbers
  <2>4. req'[r] = Idle /\ \A q \in Requests \ {r} : req'[q] = req[q]
    BY <1>3, <1>7 DEF InsertPurchase, Done
  <2>5. Serial => \A q \in Requests : req'[q] = Idle
    BY <2>1, <2>4, SerialAlone DEF PurchasesInv
  <2>6. ASSUME NEW q \in Requests
        PROVE  PurchaseWork(q)'
    BY <1>1, <2>4, <2>5 DEF PurchasesInv, PurchaseWork, FoundNoLink, Idle, NumbersWords
  <2>7. QED
    BY <1>1, <2>3, <2>6 DEF PurchasesInv
<1>8. CASE DeleteDraft(r)
  <2>1. NumbersSound' /\ (LinksExact => LinksExact')
    BY <1>2, <1>8, DeleteKeepsNumbers
  <2>2. req' = req /\ \A o \in Origins : link[o] = 0 => link'[o] = 0
    BY <1>8 DEF DeleteDraft
  <2>3. ASSUME NEW q \in Requests
        PROVE  PurchaseWork(q)'
    <3>1. req[q].do \in NumbersWords /\ req[q].origin # None => req[q].origin \in Origins
      BY DEF PurchasesInv, PurchaseWork, NumbersWork
    <3>2. QED
      BY <1>1, <2>2, <3>1 DEF PurchasesInv, PurchaseWork, FoundNoLink, NumbersWords
  <2>4. QED
    BY <1>1, <2>1, <2>3 DEF PurchasesInv
<1>9. QED
  BY <1>5, <1>6, <1>7, <1>8 DEF PurchaseMove, NumbersNext

LEMMA PurchasesKept ==
    ASSUME PurchasesInv, [Next]_vars
    PROVE  PurchasesInv'
<1>1. Common' /\ scene' = scene
  BY StepsKeepCommon DEF PurchasesInv
<1>2. CASE UNCHANGED << purchases, link >> /\ Elsewhere(NumbersWords)
  <2>1. Serial' <=> Serial
    BY <1>1 DEF Serial
  <2>2. NumbersSound' /\ (LinksExact => LinksExact')
    BY <1>2, SameNumbers DEF PurchasesInv
  <2>3. ASSUME NEW r \in Requests
        PROVE  PurchaseWork(r)'
    BY <1>2, <2>1 DEF PurchasesInv, PurchaseWork, Elsewhere, FoundNoLink, NumbersWords
  <2>4. QED
    BY <1>1, <2>1, <2>2, <2>3 DEF PurchasesInv
<1>3. QED
  BY <1>1, <1>2, PurchaseMoves, PurchasesElsewhere DEF PurchasesInv, Common

LEMMA PurchasesAlways == Spec => []PurchasesInv
<1>1. Init => PurchasesInv
  BY PurchasesStart
<1>2. PurchasesInv /\ [Next]_vars => PurchasesInv'
  BY PurchasesKept
<1>3. QED
  BY <1>1, <1>2, PTL DEF Spec

\* However many purchases are created, triggered and deleted at once, a
\* linkedPurchaseId names a purchase made for its row; when the triggers come
\* one after the other no row gets a second one.
THEOREM LinksAlwaysSound == Spec => []LinksSound
<1>1. ASSUME PurchasesInv
      PROVE  LinksSound
  <2>1. ASSUME Serial, NEW p \in purchases, NEW q \in purchases,
               p.origin = q.origin, p.origin # None
        PROVE  p = q
    <3>1. p.number = link[p.origin] /\ q.number = link[q.origin]
      BY <1>1, <2>1 DEF PurchasesInv, LinksExact
    <3>2. QED
      BY <1>1, <2>1, <3>1 DEF PurchasesInv, NumbersSound
  <2>2. QED
    BY <1>1, <2>1 DEF PurchasesInv, NumbersSound, LinksSound
<1>2. QED
  BY <1>1, PurchasesAlways, PTL

-----------------------------------------------------------------------------
(* The tickets and their numbers.                                          *)

Families == {Trips, FuelSupplies, Repairs, Demands}

\* A number was the next one of its family when it was computed, so that it is
\* still the next or taken; a change is that of a ticket that exists.
TicketWork(r) ==
    LET w == req[r]
    IN  /\ w.do \in TicketWords => w.ticket \in Tickets
        /\ w.do = "insertTicket" =>
            \E family \in Families :
                /\ w.ticket \in family
                /\ w.number \in 1 .. Cardinality(Filed(family)) + 1
        /\ w.do = "writeTicket" =>
            /\ tickets[w.ticket].status # None
            /\ w.change \in StatusesOf(w.ticket) \cup {"delete"}

FamiliesDense ==
    \A family \in Families :
        /\ IsFiniteSet(Filed(family))
        /\ NumbersOf(family) = 1 .. Cardinality(Filed(family))

TicketsInv == Common /\ TicketsType /\ FamiliesDense /\ \A r \in Requests : TicketWork(r)

LEMMA TicketsElsewhere ==
    ASSUME KnownWork, [Next]_vars
    PROVE  \/ \E r \in Requests : TicketMove(r)
           \/ tickets' = tickets /\ Elsewhere(TicketWords)
<1>1. CASE UNCHANGED vars
  BY <1>1 DEF vars, Elsewhere
<1>2. ASSUME NEW words \in {BudgetWords, NumbersWords, StockWords, AccountWords, FileWords,
                            SigningWords, LeaseWords, PvWords, ReportWords}, Leaves(words)
      PROVE  Elsewhere(TicketWords)
  <2>1. words \cap TicketWords = {} /\ "idle" \notin TicketWords
    BY DEF BudgetWords, NumbersWords, TicketWords, StockWords, AccountWords, FileWords,
           SigningWords, LeaseWords, PvWords, ReportWords
  <2>2. QED
    BY <1>2, <2>1, LeavesElsewhere
<1>3. CASE SigningStep
  BY <1>2, <1>3, SigningLeaves DEF SigningStep
<1>4. ASSUME NEW r \in Requests, BudgetStep(r) \/ TicketsStep(r) \/ StockStep(r)
      PROVE  TicketMove(r) \/ (tickets' = tickets /\ Elsewhere(TicketWords))
  BY <1>2, <1>4, BudgetLeaves, TicketsLeave, StockLeaves, NumbersLeave
     DEF BudgetStep, TicketsStep, StockStep
<1>5. ASSUME NEW r \in Requests, AccountsStep(r)
      PROVE  tickets' = tickets /\ Elsewhere(TicketWords)
  BY <1>2, <1>5, AccountsLeave, FilesLeave DEF AccountsStep, DeleteUserAndFiles
<1>6. ASSUME NEW r \in Requests, LeasesStep(r) \/ PvStep(r) \/ OtherStep(r)
      PROVE  tickets' = tickets /\ Elsewhere(TicketWords)
  BY <1>2, <1>6, LeasesLeave, PvLeaves, OtherLeaves DEF LeasesStep, PvStep, OtherStep
<1>7. QED
  BY <1>1, <1>3, <1>4, <1>5, <1>6 DEF Next

\* Every ticket is of one family only.
LEMMA FamilyIsOne ==
    ASSUME NEW t \in Tickets
    PROVE  /\ Family(t) \in Families /\ t \in Family(t)
           /\ \A family \in Families : t \in family => family = Family(t)
<1>1. \E family \in Families : t \in family
  BY DEF Tickets, Journeys, Families
<1>2. Family(t) \in Families /\ t \in Family(t)
  BY <1>1 DEF Family, Families
<1>3. ASSUME NEW f \in Families, NEW g \in Families, t \in f, t \in g
      PROVE  f = g
  BY <1>3, TicketsAssumption DEF Families
<1>4. QED
  BY <1>2, <1>3

LEMMA StatusFacts ==
    ASSUME NEW t \in Tickets
    PROVE  StatusesOf(t) \subseteq TicketStatus /\ FirstStatus(t) \in StatusesOf(t)
           /\ None \notin StatusesOf(t)
<1>1. StatusesOf(t) \subseteq TicketStatus
  BY DEF StatusesOf, TicketStatus
<1>2. t \in Demands => t \notin Journeys /\ t \notin Repairs
  BY TicketsAssumption DEF Journeys
<1>3. FirstStatus(t) \in StatusesOf(t)
  BY <1>2 DEF FirstStatus, StatusesOf, Tickets
<1>4. QED
  BY <1>1, <1>3, NoStatusAssumption

LEMMA NextTicketIsNext ==
    ASSUME FamiliesDense, NEW t \in Tickets
    PROVE  NextTicketNumber(t) = Cardinality(Filed(Family(t))) + 1
<1>1. ASSUME NEW family \in Families
      PROVE  /\ Cardinality(Filed(family)) \in Nat
             /\ AfterLast(NumbersOf(family)) = Cardinality(Filed(family)) + 1
  <2> DEFINE n == Cardinality(Filed(family))
             used == NumbersOf(family)
  <2>1. n \in Nat /\ used = 1 .. n
    BY FS_CardinalityType DEF FamiliesDense
  <2> HIDE DEF n, used
  <2>2. ASSUME n = 0
        PROVE  AfterLast(used) = n + 1
    BY <2>1, <2>2 DEF AfterLast
  <2>3. ASSUME n # 0
        PROVE  AfterLast(used) = n + 1
    <3>1. n \in Nat \ {0} /\ used # {}
      BY <2>1, <2>3
    <3>2. (CHOOSE v \in used : \A w \in used : w <= v) = n
      BY <2>1, <3>1, GreatestOfInterval
    <3>3. AfterLast(used) = 1 + CHOOSE v \in used : \A w \in used : w <= v
      BY <3>1 DEF AfterLast
    <3>4. AfterLast(used) = 1 + n
      BY <3>2, <3>3
    <3>5. QED
      BY <2>1, <3>4
  <2>4. n \in Nat /\ AfterLast(used) = n + 1
    BY <2>1, <2>2, <2>3
  <2>5. QED
    BY <2>4 DEF n, used
<1>2. ASSUME NEW family \in Families, t \in family
      PROVE  Family(t) = family
  BY <1>2, FamilyIsOne
<1>3. CASE t \in Trips
  <2>1. Family(t) = Trips
    BY <1>2, <1>3 DEF Families
  <2>2. NextTicketNumber(t) = Cardinality(Filed(Trips)) + 1
    BY <1>3 DEF NextTicketNumber, NextTripNumber
  <2>3. QED
    BY <2>1, <2>2
<1>4. CASE t \in FuelSupplies
  <2>1. Family(t) = FuelSupplies
    BY <1>2, <1>4 DEF Families
  <2>2. NextTicketNumber(t) = Cardinality(Filed(FuelSupplies)) + 1
    BY <1>4, TicketsAssumption DEF NextTicketNumber, NextFuelNumber
  <2>3. QED
    BY <2>1, <2>2
<1>5. CASE t \in Repairs
  BY <1>1, <1>2, <1>5, TicketsAssumption DEF NextTicketNumber, NextRepairNumber, Families
<1>6. CASE t \in Demands
  BY <1>1, <1>2, <1>6, TicketsAssumption DEF NextTicketNumber, NextDemandNumber, Families
<1>7. QED
  BY <1>3, <1>4, <1>5, <1>6 DEF Tickets, Journeys

LEMMA TicketsStart ==
    ASSUME Init
    PROVE  TicketsInv
<1>1. Common /\ \A r \in Requests : req[r] = Idle
  BY StartCommon, StartKnown
<1>2. tickets = [t \in Tickets |-> NoTicket]
  BY DEF Init, TicketsInit
<1>3. TicketsType
  BY <1>2 DEF TicketsType, TicketRow, NoTicket
<1>4. ASSUME NEW family \in Families
      PROVE  Filed(family) = {} /\ NumbersOf(family) = {}
  BY <1>2 DEF Filed, NumbersOf, NoTicket, Families, Tickets, Journeys
<1>5. FamiliesDense
  BY <1>4, FS_EmptySet DEF FamiliesDense
<1>6. QED
  BY <1>1, <1>3, <1>5 DEF TicketsInv, TicketWork, TicketWords, Idle

\* The numbers stand as long as no ticket is written.
LEMMA FamiliesStand ==
    ASSUME TicketsInv, tickets' = tickets
    PROVE  TicketsType' /\ FamiliesDense'
<1>1. TicketsType'
  BY DEF TicketsInv, TicketsType
<1>2. \A family \in Families : Filed(family)' = Filed(family)
  BY DEF Filed
<1>3. \A family \in Families : NumbersOf(family)' = NumbersOf(family)
  BY <1>2 DEF NumbersOf
<1>4. FamiliesDense'
  BY <1>2, <1>3 DEF TicketsInv, FamiliesDense
<1>5. QED
  BY <1>1, <1>4

\* A request that has read, and left the tickets as they are.
LEMMA TicketReads ==
    ASSUME TicketsInv, Common', tickets' = tickets, NEW r \in Requests,
           \A q \in Requests \ {r} : req'[q] = req[q], TicketWork(r)'
    PROVE  TicketsInv'
<1>1. TicketsType' /\ FamiliesDense'
  BY FamiliesStand
<1>2. ASSUME NEW q \in Requests, q # r
      PROVE  TicketWork(q)'
  BY <1>2 DEF TicketsInv, TicketWork, Filed
<1>3. QED
  BY <1>1, <1>2 DEF TicketsInv

\* A request that has rewritten a ticket without its number, and is done.
LEMMA TicketRewrites ==
    ASSUME TicketsInv, Common', NEW r \in Requests, req'[r] = Idle \/ req'[r] = req[r],
           \A q \in Requests \ {r} : req'[q] = req[q],
           NEW t \in Tickets, NEW row, tickets' = [tickets EXCEPT ![t] = row],
           row \in TicketRow, row.status \in StatusesOf(t), tickets[t].status # None,
           row.number = tickets[t].number
    PROVE  TicketsInv'
<1>1. tickets \in [Tickets -> TicketRow]
  BY DEF TicketsInv, TicketsType
<1>2. /\ tickets'[t] = row /\ \A u \in Tickets \ {t} : tickets'[u] = tickets[u]
      /\ tickets' \in [Tickets -> TicketRow]
  BY <1>1
<1>3. TicketsType'
  BY <1>2 DEF TicketsInv, TicketsType
<1>4. None \notin StatusesOf(t)
  BY StatusFacts
<1>5. \A u \in Tickets : /\ tickets'[u].status # None <=> tickets[u].status # None
                          /\ tickets'[u].number = tickets[u].number
  BY <1>2, <1>4
<1>6. ASSUME NEW family \in Families
      PROVE  Filed(family)' = Filed(family) /\ NumbersOf(family)' = NumbersOf(family)
  <2>1. family \subseteq Tickets
    BY DEF Families, Tickets, Journeys
  <2>2. QED
    BY <1>5, <2>1 DEF Filed, NumbersOf
<1>7. FamiliesDense'
  BY <1>6 DEF TicketsInv, FamiliesDense
<1>8. ASSUME NEW q \in Requests
      PROVE  TicketWork(q)'
  <2>1. CASE req'[q] = req[q]
    BY <1>5, <1>6, <2>1 DEF TicketsInv, TicketWork, TicketWords
  <2>2. CASE req'[q] = Idle
    BY <2>2 DEF TicketWork, TicketWords, Idle
  <2>3. QED
    BY <2>1, <2>2
<1>9. QED
  BY <1>3, <1>7, <1>8 DEF TicketsInv

LEMMA InsertTicketKeeps ==
    ASSUME TicketsInv, Common', NEW r \in Requests, Done(r), req[r].do = "insertTicket",
           NEW t \in Tickets, NEW f \in Families, t \in f, tickets[t].status = None,
           NEW k, k = Cardinality(Filed(f)), NEW n \in 1 .. k + 1, n \notin NumbersOf(f),
           tickets' = [tickets EXCEPT ![t].status = FirstStatus(t), ![t].number = n]
    PROVE  TicketsInv'
<1>1. tickets \in [Tickets -> TicketRow]
  BY DEF TicketsInv, TicketsType
<1>2. \A g \in Families : t \in g => g = f
  BY FamilyIsOne
<1>3. k \in Nat /\ IsFiniteSet(Filed(f)) /\ NumbersOf(f) = 1 .. k
  BY FS_CardinalityType DEF TicketsInv, FamiliesDense
<1>4. n = k + 1
  BY <1>3
<1>5. /\ tickets'[t].status = FirstStatus(t) /\ tickets'[t].number = n
      /\ \A u \in Tickets \ {t} : tickets'[u] = tickets[u]
      /\ tickets'[t] \in TicketRow
  <2>1. FirstStatus(t) \in TicketStatus
    BY StatusFacts
  <2>2. tickets[t] \in TicketRow /\ n \in Nat
    BY <1>1, <1>3, <1>4
  <2>3. QED
    BY <1>1, <2>1, <2>2 DEF TicketRow
<1>6. tickets' = [u \in Tickets |-> tickets'[u]]
  BY <1>1
<1>7. FirstStatus(t) \in StatusesOf(t) /\ FirstStatus(t) # None
  BY StatusFacts
<1>8. TicketsType'
  BY <1>1, <1>5, <1>6, <1>7 DEF TicketsInv, TicketsType
<1>9. Filed(f)' = Filed(f) \cup {t} /\ t \notin Filed(f)
  <2>1. f \subseteq Tickets
    BY DEF Families, Tickets, Journeys
  <2>2. \A u \in f : tickets'[u].status # None <=> u = t \/ tickets[u].status # None
    BY <1>5, <1>7, <2>1
  <2>3. QED
    BY <2>2 DEF Filed
<1>10. IsFiniteSet(Filed(f)') /\ Cardinality(Filed(f)') = k + 1
  BY <1>3, <1>9, FS_AddElement
<1>11. NumbersOf(f)' = NumbersOf(f) \cup {n}
  <2>1. \A u \in Filed(f) : u \in Tickets \ {t}
    BY <1>9 DEF Filed, Families, Tickets, Journeys
  <2>2. NumbersOf(f)' = {tickets'[u].number : u \in Filed(f) \cup {t}}
    BY <1>9 DEF NumbersOf
  <2>3. /\ tickets'[t].number = n
        /\ \A u \in Filed(f) : tickets'[u].number = tickets[u].number
    BY <1>5, <2>1
  <2>4. NumbersOf(f) = {tickets[u].number : u \in Filed(f)}
    BY DEF NumbersOf
  <2>5. {tickets'[u].number : u \in Filed(f)} = {tickets[u].number : u \in Filed(f)}
    BY <2>3
  <2>6. {tickets'[u].number : u \in Filed(f) \cup {t}}
          = {tickets'[u].number : u \in Filed(f)} \cup {tickets'[t].number}
    OBVIOUS
  <2>7. QED
    BY <2>2, <2>3, <2>4, <2>5, <2>6
<1>12. NumbersOf(f)' = 1 .. k + 1
  BY <1>3, <1>4, <1>11
<1>13. ASSUME NEW g \in Families, g # f
       PROVE  Filed(g)' = Filed(g) /\ NumbersOf(g)' = NumbersOf(g)
  <2>1. g \subseteq Tickets \ {t}
    BY <1>2, <1>13 DEF Families, Tickets, Journeys
  <2>2. \A u \in g : tickets'[u] = tickets[u]
    BY <1>5, <2>1
  <2>3. Filed(g)' = Filed(g) /\ \A u \in Filed(g) : u \in g
    BY <2>2 DEF Filed
  <2>4. QED
    BY <2>2, <2>3 DEF NumbersOf
<1>14. FamiliesDense'
  BY <1>10, <1>12, <1>13 DEF TicketsInv, FamiliesDense
<1>15. req'[r] = Idle /\ \A q \in Requests \ {r} : req'[q] = req[q]
  BY DoneFrees DEF TicketsInv, Common
<1>16. ASSUME NEW q \in Requests
       PROVE  TicketWork(q)'
  <2>1. CASE q = r
    BY <1>15, <2>1 DEF TicketWork, TicketWords, Idle
  <2>2. CASE q # r
    <3>1. req'[q] = req[q] /\ TicketWork(q)
      BY <1>15, <2>2 DEF TicketsInv
    <3>2. ASSUME req[q].do = "insertTicket"
          PROVE  \E family \in Families :
                    /\ req[q].ticket \in family
                    /\ req[q].number \in 1 .. Cardinality(Filed(family)') + 1
      <4>1. PICK family \in Families :
                    /\ req[q].ticket \in family
                    /\ req[q].number \in 1 .. Cardinality(Filed(family)) + 1
        BY <3>1, <3>2 DEF TicketWork
      <4>2. CASE family = f
        <5>1. req[q].number \in 1 .. (k + 1) + 1
          BY <1>3, <4>1, <4>2
        <5>2. QED
          BY <1>10, <4>1, <4>2, <5>1
      <4>3. CASE family # f
        BY <1>13, <4>1, <4>3
      <4>4. QED
        BY <4>1, <4>2, <4>3
    <3>3. ASSUME req[q].do = "writeTicket"
          PROVE  tickets'[req[q].ticket].status # None
      <4>1. req[q].ticket \in Tickets /\ tickets[req[q].ticket].status # None
        BY <3>1, <3>3 DEF TicketWork, TicketWords
      <4>2. QED
        BY <1>5, <1>7, <4>1
    <3>4. QED
      BY <3>1, <3>2, <3>3 DEF TicketWork
  <2>3. QED
    BY <2>1, <2>2
<1>17. QED
  BY <1>8, <1>14, <1>16 DEF TicketsInv

LEMMA TicketMoves ==
    ASSUME TicketsInv, Common', NEW r \in Requests, TicketMove(r)
    PROVE  TicketsInv'
<1>1. ASSUME NEW w, Await(r, w)
      PROVE  req'[r] = w /\ \A q \in Requests \ {r} : req'[q] = req[q]
  BY <1>1 DEF Await, TicketsInv, Common, KnownWork
<1>2. TicketWork(r)
  BY DEF TicketsInv
<1>3. ASSUME NEW t \in Tickets, NEW attempt, NumberIt(r, t, attempt), tickets' = tickets
      PROVE  TicketsInv'
  <2> DEFINE w == [do |-> "insertTicket", ticket |-> t, attempt |-> attempt,
                   number |-> NextTicketNumber(t)]
  <2>1. req'[r] = w /\ \A q \in Requests \ {r} : req'[q] = req[q]
    BY <1>1, <1>3 DEF NumberIt
  <2>2. Family(t) \in Families /\ t \in Family(t)
    BY FamilyIsOne
  <2>3. Cardinality(Filed(Family(t))) \in Nat
    BY <2>2, FS_CardinalityType DEF TicketsInv, FamiliesDense
  <2>4. NextTicketNumber(t) \in 1 .. Cardinality(Filed(Family(t))) + 1
    BY <2>3, NextTicketIsNext DEF TicketsInv
  <2>5. TicketWork(r)'
    <3>1. Filed(Family(t))' = Filed(Family(t))
      BY <1>3 DEF Filed
    <3>2. QED
      BY <2>1, <2>2, <2>4, <3>1 DEF TicketWork, TicketWords
  <2>6. QED
    BY <1>3, <2>1, <2>5, TicketReads
<1>4. ASSUME NEW t \in Tickets, NEW change \in StatusesOf(t) \cup {"delete"},
             WriteTicket(r, t, change), tickets[t].status # None, tickets' = tickets
      PROVE  TicketsInv'
  <2>1. /\ req'[r] = [do |-> "writeTicket", ticket |-> t, change |-> change]
        /\ \A q \in Requests \ {r} : req'[q] = req[q]
    BY <1>1, <1>4 DEF WriteTicket
  <2>2. TicketWork(r)'
    BY <1>4, <2>1 DEF TicketWork, TicketWords
  <2>3. QED
    BY <1>4, <2>1, <2>2, TicketReads
<1>5. ASSUME NEW t \in Tickets, FileTicket(r, t)
      PROVE  TicketsInv'
  BY <1>3, <1>5 DEF FileTicket, TicketCalled
<1>6. ASSUME NEW t \in Tickets, GiveStatus(r, t)
      PROVE  TicketsInv'
  BY <1>4, <1>6 DEF GiveStatus, TicketCalled
<1>7. ASSUME NEW t \in Tickets, SoftDelete(r, t) \/ (t \in Journeys /\ CancelJourney(r, t))
      PROVE  TicketsInv'
  <2>1. tickets[t].status = "PENDING" /\ tickets' = tickets /\ tickets[t].status # None
    BY <1>7, NoStatusAssumption DEF CancelJourney, SoftDelete, TicketCalled, TicketStatus
  <2>2. CASE SoftDelete(r, t)
    BY <1>4, <2>1, <2>2 DEF SoftDelete
  <2>3. CASE t \in Journeys /\ CancelJourney(r, t)
    BY <1>4, <2>1, <2>3 DEF CancelJourney, StatusesOf
  <2>4. QED
    BY <1>7, <2>2, <2>3
<1>8. ASSUME NEW t \in Tickets, DeleteFiler(r, t)
      PROVE  TicketsInv'
  <2> DEFINE row == [tickets[t] EXCEPT !.requestor = FALSE]
  <2>1. /\ tickets' = [tickets EXCEPT ![t] = row] /\ req' = req /\ tickets[t].status # None
        /\ tickets[t] \in TicketRow /\ tickets[t].status \in StatusesOf(t) \cup {None}
    BY <1>8 DEF DeleteFiler, TicketsInv, TicketsType
  <2>2. row \in TicketRow /\ row.status = tickets[t].status /\ row.number = tickets[t].number
    BY <2>1 DEF TicketRow
  <2> HIDE DEF row
  <2>3. QED
    BY <2>1, <2>2, TicketRewrites
<1>9. CASE InsertTicket(r)
  <2> DEFINE t == req[r].ticket
             n == req[r].number
             f == Family(t)
  <2>1. /\ req[r].do = "insertTicket" /\ tickets[t].status = None /\ n \notin NumbersOf(f)
        /\ tickets' = [tickets EXCEPT ![t].status = FirstStatus(t), ![t].number = n]
        /\ Done(r)
    BY <1>9 DEF InsertTicket, Collides
  <2>2. t \in Tickets
    BY <1>2, <2>1 DEF TicketWork, TicketWords
  <2>3. f \in Families /\ t \in f /\ \A g \in Families : t \in g => g = f
    BY <2>2, FamilyIsOne
  <2>4. n \in 1 .. Cardinality(Filed(f)) + 1
    BY <1>2, <2>1, <2>3 DEF TicketWork
  <2> HIDE DEF t, n, f
  <2>5. QED
    BY <2>1, <2>2, <2>3, <2>4, InsertTicketKeeps
<1>10. CASE RefuseTicket(r)
  <2> DEFINE t == req[r].ticket
             w == [do |-> "numberTicket", ticket |-> t, attempt |-> req[r].attempt + 1]
  <2>1. (Await(r, w) \/ Await(r, Idle)) /\ tickets' = tickets /\ t \in Tickets
    BY <1>2, <1>10 DEF RefuseTicket, Done, TicketWork, TicketWords
  <2>2. /\ req'[r] = w \/ req'[r] = Idle
        /\ \A q \in Requests \ {r} : req'[q] = req[q]
    BY <1>1, <2>1
  <2>3. TicketWork(r)'
    BY <2>1, <2>2 DEF TicketWork, TicketWords, Idle
  <2>4. QED
    BY <2>1, <2>2, <2>3, TicketReads
<1>11. CASE NumberAgain(r)
  BY <1>2, <1>3, <1>11 DEF NumberAgain, TicketWork, TicketWords
<1>12. CASE ApplyChange(r)
  <2> DEFINE t == req[r].ticket
             row == IF req[r].change = "delete" THEN [tickets[t] EXCEPT !.deleted = TRUE]
                    ELSE [tickets[t] EXCEPT !.status = req[r].change]
  <2>1. /\ req[r].do = "writeTicket" /\ Done(r) /\ t \in Tickets
        /\ tickets[t].status # None
        /\ req[r].change \in StatusesOf(t) \cup {"delete"}
    BY <1>2, <1>12 DEF ApplyChange, TicketWork, TicketWords
  <2>2. tickets[t] \in TicketRow /\ tickets[t].status \in StatusesOf(t) \cup {None}
    BY <2>1 DEF TicketsInv, TicketsType
  <2>3. tickets' = [tickets EXCEPT ![t] = row]
    BY <1>12, <2>1 DEF ApplyChange
  <2>4. StatusesOf(t) \subseteq TicketStatus
    BY <2>1, StatusFacts
  <2>5. row \in TicketRow /\ row.status \in StatusesOf(t) /\ row.number = tickets[t].number
    BY <2>1, <2>2, <2>4 DEF TicketRow
  <2>6. req'[r] = Idle /\ \A q \in Requests \ {r} : req'[q] = req[q]
    BY <1>1, <2>1 DEF Done
  <2> HIDE DEF row, t
  <2>7. QED
    BY <2>1, <2>3, <2>5, <2>6, TicketRewrites
<1>13. QED
  BY <1>5, <1>6, <1>7, <1>8, <1>9, <1>10, <1>11, <1>12 DEF TicketMove


LEMMA TicketsKept ==
    ASSUME TicketsInv, [Next]_vars
    PROVE  TicketsInv'
<1>1. Common' /\ scene' = scene
  BY StepsKeepCommon DEF TicketsInv
<1>2. CASE tickets' = tickets /\ Elsewhere(TicketWords)
  <2>1. TicketsType' /\ FamiliesDense'
    BY <1>2, FamiliesStand
  <2>2. ASSUME NEW r \in Requests
        PROVE  TicketWork(r)'
    BY <1>2 DEF TicketsInv, TicketWork, Filed, Elsewhere, TicketWords
  <2>3. QED
    BY <1>1, <2>1, <2>2 DEF TicketsInv
<1>3. QED
  BY <1>1, <1>2, TicketMoves, TicketsElsewhere DEF TicketsInv, Common

LEMMA TicketsAlways == Spec => []TicketsInv
<1>1. Init => TicketsInv
  BY TicketsStart
<1>2. TicketsInv /\ [Next]_vars => TicketsInv'
  BY TicketsKept
<1>3. QED
  BY <1>1, <1>2, PTL DEF Spec

-----------------------------------------------------------------------------
(* The leases.                                                             *)

HasLatest(S) == S # {} => \E i \in S : \A j \in S : j <= i

\* The end of a lease is after its beginning, and its duration is the months
\* from one to the other.
Spans(lease) ==
    /\ After(lease.dateFin, lease.dateDebut)
    /\ 12 * lease.dateDebut.year + lease.dateDebut.month + lease.dureeInitialeMois
            = 12 * lease.dateFin.year + lease.dateFin.month

LeaseWork(r) ==
    LET w == req[r]
    IN  /\ w.do = "insertLease" =>
            /\ w.lease \in LeaseIds
            /\ w.terms \in LeaseTerms /\ After(w.terms.dateFin, w.terms.dateDebut)
            /\ w.number \in 1 .. Cardinality(Signed) + 1
        /\ w.do = "writeLease" =>
            /\ w.lease \in Signed /\ IsPatch(w.patch)
            /\ w.patch \in scene.patches \cup {[statut |-> "ARCHIVE"]}
            /\ BothDates(w.patch) => After(w.patch.dateFin, w.patch.dateDebut)
        /\ w.do = "writeAmendment" => w.lease \in Signed /\ w.nouveauMontant \in Nat
        /\ w.do = "insertPayment" =>
            w.payment \in [lease : LeaseIds, periode : Nat, type : PaymentTypes]
        /\ w.do = "index" =>
            /\ {"do", "left", "read", "month"} \subseteq DOMAIN w /\ w.month \in Nat
            /\ w.left \subseteq Signed /\ \A l \in w.left : w.read[l] \in LeaseRow
            /\ Serial => \A l \in w.left : w.read[l] = leases[l]

LeaseNumbersDense ==
    /\ IsFiniteSet(Signed)
    /\ {leases[l].number : l \in Signed} = 1 .. Cardinality(Signed)

\* The rent is what the last amendment says.
RentFollows ==
    /\ \A i \in DOMAIN amendments : amendments[i].lease \in Signed
    /\ \A l \in LeaseIds :
        /\ HasLatest(AmendmentsOf(l))
        /\ ~Patching({"montantMensuel"}) /\ AmendmentsOf(l) # {} =>
            leases[l].montantMensuel = amendments[LatestOf(AmendmentsOf(l))].nouveauMontant

\* One after the other, an indexation starts from the rent before it.
BaseFollows ==
    \A i \in Indexations :
        /\ HasLatest(Before(i))
        /\ Serial /\ ~Patching({"montantMensuel"}) => BasedOnRent(i)

TermsAgree == DatesTogether => \A l \in Signed : Spans(leases[l])

LeasesInv ==
    /\ Common /\ LeasesType
    /\ LeaseNumbersDense /\ RentFollows /\ BaseFollows /\ TermsAgree
    /\ \A r \in Requests : LeaseWork(r)

LeaseRows == LeaseNumbersDense /\ RentFollows /\ BaseFollows /\ TermsAgree

LEMMA LeasesElsewhere ==
    ASSUME KnownWork, [Next]_vars
    PROVE  \/ \E r \in Requests : LeasesNext(r)
           \/ UNCHANGED leaseVars /\ Elsewhere(LeaseWords)
<1>1. CASE UNCHANGED vars
  BY <1>1 DEF vars, Elsewhere
<1>2. ASSUME NEW words \in {BudgetWords, NumbersWords, TicketWords, StockWords, AccountWords,
                            FileWords, SigningWords, PvWords, ReportWords}, Leaves(words)
      PROVE  Elsewhere(LeaseWords)
  <2>1. words \cap LeaseWords = {} /\ "idle" \notin LeaseWords
    BY DEF BudgetWords, NumbersWords, TicketWords, StockWords, AccountWords, FileWords,
           SigningWords, LeaseWords, PvWords, ReportWords
  <2>2. QED
    BY <1>2, <2>1, LeavesElsewhere
<1>3. CASE SigningStep
  BY <1>2, <1>3, SigningLeaves DEF SigningStep
<1>4. ASSUME NEW r \in Requests, BudgetStep(r) \/ TicketsStep(r) \/ StockStep(r)
      PROVE  UNCHANGED leaseVars /\ Elsewhere(LeaseWords)
  BY <1>2, <1>4, BudgetLeaves, TicketsLeave, StockLeaves, NumbersLeave
     DEF BudgetStep, TicketsStep, StockStep
<1>5. ASSUME NEW r \in Requests, AccountsStep(r)
      PROVE  UNCHANGED leaseVars /\ Elsewhere(LeaseWords)
  BY <1>2, <1>5, AccountsLeave, FilesLeave DEF AccountsStep, DeleteUserAndFiles
<1>6. ASSUME NEW r \in Requests, PvStep(r) \/ OtherStep(r)
      PROVE  UNCHANGED leaseVars /\ Elsewhere(LeaseWords)
  BY <1>2, <1>6, PvLeaves, OtherLeaves DEF PvStep, OtherStep
<1>7. QED
  BY <1>1, <1>3, <1>4, <1>5, <1>6 DEF Next, LeasesStep

LEMMA LeasesStart ==
    ASSUME Init
    PROVE  LeasesInv
<1>1. Common /\ \A r \in Requests : req[r] = Idle
  BY StartCommon, StartKnown
<1>2. leases = [l \in LeaseIds |-> None] /\ amendments = << >> /\ payments = {} /\ month = 0
  BY DEF Init, LeasesInit
<1>3. Signed = {} /\ Indexations = {} /\ \A l : AmendmentsOf(l) = {}
  BY <1>2 DEF Signed, Indexations, AmendmentsOf
<1>4. LeasesType
  BY <1>2 DEF LeasesType
<1>5. LeaseNumbersDense
  BY <1>3, FS_EmptySet DEF LeaseNumbersDense
<1>6. RentFollows /\ BaseFollows /\ TermsAgree
  BY <1>2, <1>3 DEF RentFollows, BaseFollows, TermsAgree, HasLatest
<1>7. \A r \in Requests : LeaseWork(r)
  BY <1>1 DEF LeaseWork, Idle
<1>8. QED
  BY <1>1, <1>4, <1>5, <1>6, <1>7 DEF LeasesInv

\* Time and payments change no lease.
LEMMA LeaseRowsStay ==
    ASSUME LeasesInv, scene' = scene, UNCHANGED << leases, amendments >>
    PROVE  LeaseRows'
<1>1. LeaseNumbersDense' /\ TermsAgree'
  BY DEF LeasesInv, LeaseNumbersDense, TermsAgree, Signed, DatesTogether
<1>2. /\ Signed' = Signed /\ Indexations' = Indexations
      /\ \A l : AmendmentsOf(l)' = AmendmentsOf(l)
      /\ \A i : Before(i)' = Before(i)
      /\ Serial' <=> Serial
      /\ \A columns : Patching(columns)' <=> Patching(columns)
  BY DEF Signed, Indexations, AmendmentsOf, Before, Serial, Patching
<1>3. RentFollows'
  BY <1>2 DEF LeasesInv, RentFollows
<1>4. BaseFollows'
  BY <1>2 DEF LeasesInv, BaseFollows, BasedOnRent
<1>5. QED
  BY <1>1, <1>3, <1>4 DEF LeaseRows

LEMMA LeaseWorkStays ==
    ASSUME LeasesInv, scene' = scene, UNCHANGED leases,
           NEW r \in Requests, req'[r] = req[r]
    PROVE  LeaseWork(r)'
BY DEF LeasesInv, LeaseWork, Signed, Serial

\* When the leases change, others' work bears with it: there is none if
\* requests come one after the other.
LEMMA LeaseOthers ==
    ASSUME LeasesInv, scene' = scene, NEW r \in Requests, req[r] # Idle \/ r \in scene.requests,
           NEW q \in Requests, q # r, req'[q] = req[q],
           Signed \subseteq Signed', Cardinality(Signed') >= Cardinality(Signed),
           Cardinality(Signed) \in Nat, Cardinality(Signed') \in Nat
    PROVE  LeaseWork(q)'
<1>1. CASE Serial
  <2>1. req'[q] = Idle
    BY <1>1, SerialAlone DEF LeasesInv
  <2>2. QED
    BY <2>1 DEF LeaseWork, Idle
<1>2. CASE ~Serial
  <2>1. ~Serial'
    BY <1>2 DEF Serial
  <2>2. QED
    BY <1>2, <2>1 DEF LeasesInv, LeaseWork
<1>3. QED
  BY <1>1, <1>2

LEMMA LeaseReads ==
    ASSUME LeasesInv, Common', scene' = scene, NEW r \in Requests,
           UNCHANGED << leases, amendments, payments, month >>,
           \A q \in Requests \ {r} : req'[q] = req[q], LeaseWork(r)'
    PROVE  LeasesInv'
<1>1. LeaseRows'
  BY LeaseRowsStay
<1>2. LeasesType'
  BY DEF LeasesInv, LeasesType
<1>3. QED
  BY <1>1, <1>2, LeaseWorkStays DEF LeasesInv, LeaseRows

LEMMA LeaseCalls ==
    ASSUME LeasesInv, Common', scene' = scene, NEW r \in Requests, NEW l \in LeaseIds,
           \/ CreateLease(r, l) \/ UpdateLease(r, l) \/ ArchiveLease(r, l)
           \/ AddAmendment(r, l) \/ AddPayment(r, l)
    PROVE  LeasesInv'
<1>1. UNCHANGED << leases, amendments, payments, month >>
  BY DEF CreateLease, UpdateLease, ArchiveLease, AddAmendment, AddPayment, LeaseCalled
<1>2. ASSUME NEW w, Await(r, w)
      PROVE  req'[r] = w /\ \A q \in Requests \ {r} : req'[q] = req[q]
  BY <1>2 DEF Await, LeasesInv, Common, KnownWork
<1>3. Signed' = Signed
  BY <1>1 DEF Signed
<1>4. scene \in Scenes
  BY DEF LeasesInv, Common
<1>5. CASE CreateLease(r, l)
  <2>1. PICK terms \in scene.terms :
            /\ After(terms.dateFin, terms.dateDebut)
            /\ Await(r, [do |-> "insertLease", lease |-> l, terms |-> terms,
                         number |-> NextLeaseNumber])
    BY <1>5 DEF CreateLease
  <2>2. terms \in LeaseTerms
    BY <1>4, ScenesAssumption
  <2>3. NextLeaseNumber \in 1 .. Cardinality(Signed) + 1
    BY FS_CardinalityType DEF NextLeaseNumber, LeasesInv, LeaseNumbersDense
  <2>4. LeaseWork(r)'
    BY <1>2, <1>3, <2>1, <2>2, <2>3 DEF LeaseWork
  <2>5. QED
    BY <1>1, <1>2, <2>1, <2>4, LeaseReads
<1>6. CASE UpdateLease(r, l)
  <2>1. PICK patch \in scene.patches :
            /\ BothDates(patch) => After(patch.dateFin, patch.dateDebut)
            /\ Await(r, [do |-> "writeLease", lease |-> l, patch |-> patch])
    BY <1>6 DEF UpdateLease
  <2>2. IsPatch(patch) /\ l \in Signed
    BY <1>4, <1>6, ScenesAssumption DEF UpdateLease
  <2>3. LeaseWork(r)'
    BY <1>2, <1>3, <2>1, <2>2 DEF LeaseWork
  <2>4. QED
    BY <1>1, <1>2, <2>1, <2>3, LeaseReads
<1>7. CASE ArchiveLease(r, l)
  <2> DEFINE patch == [statut |-> "ARCHIVE"]
  <2>1. IsPatch(patch) /\ ~BothDates(patch) /\ l \in Signed
    BY <1>7 DEF IsPatch, TypeOf, BothDates, Terms, Statut, ArchiveLease
  <2>2. Await(r, [do |-> "writeLease", lease |-> l, patch |-> patch])
    BY <1>7 DEF ArchiveLease
  <2>3. LeaseWork(r)'
    BY <1>2, <1>3, <2>1, <2>2 DEF LeaseWork
  <2>4. QED
    BY <1>1, <1>2, <2>2, <2>3, LeaseReads
<1>8. CASE AddAmendment(r, l)
  <2>1. PICK amount \in scene.amounts :
            Await(r, [do |-> "writeAmendment", lease |-> l, nouveauMontant |-> amount])
    BY <1>8 DEF AddAmendment
  <2>2. amount \in Nat /\ l \in Signed
    BY <1>4, <1>8, ScenesAssumption DEF AddAmendment
  <2>3. LeaseWork(r)'
    BY <1>2, <1>3, <2>1, <2>2 DEF LeaseWork
  <2>4. QED
    BY <1>1, <1>2, <2>1, <2>3, LeaseReads
<1>9. CASE AddPayment(r, l)
  <2>1. PICK type \in {"LOYER", "CHARGE"} :
            Await(r, [do |-> "insertPayment",
                      payment |-> [lease |-> l, periode |-> month, type |-> type]])
    BY <1>9 DEF AddPayment
  <2>2. [lease |-> l, periode |-> month, type |-> type]
            \in [lease : LeaseIds, periode : Nat, type : PaymentTypes]
    BY DEF LeasesInv, LeasesType, PaymentTypes
  <2>3. LeaseWork(r)'
    BY <1>2, <2>1, <2>2 DEF LeaseWork
  <2>4. QED
    BY <1>1, <1>2, <2>1, <2>3, LeaseReads
<1>10. QED
  BY <1>5, <1>6, <1>7, <1>8, <1>9

\* What the parts of the invariant look at, besides the rows.
LEMMA LeaseScene ==
    ASSUME scene' = scene
    PROVE  /\ Serial' <=> Serial
           /\ \A columns : Patching(columns)' <=> Patching(columns)
           /\ DatesTogether' <=> DatesTogether
BY DEF Serial, Patching, DatesTogether

LEMMA AmendmentsStay ==
    ASSUME amendments' = amendments
    PROVE  /\ Indexations' = Indexations
           /\ \A l : AmendmentsOf(l)' = AmendmentsOf(l)
           /\ \A i : Before(i)' = Before(i)
BY DEF Indexations, AmendmentsOf, Before

LEMMA LeaseInserted ==
    ASSUME LeasesInv, scene' = scene, NEW l \in LeaseIds, l \notin Signed, NEW row \in LeaseRow,
           row.number \in 1 .. Cardinality(Signed) + 1,
           \A m \in Signed : leases[m].number # row.number,
           DatesTogether => Spans(row),
           leases' = [leases EXCEPT ![l] = row], UNCHANGED << amendments, payments, month >>
    PROVE  /\ LeasesType' /\ LeaseRows'
           /\ Signed' = Signed \cup {l} /\ Cardinality(Signed') = Cardinality(Signed) + 1
<1> DEFINE k == Cardinality(Signed)
<1>1. leases \in [LeaseIds -> LeaseRow \cup {None}] /\ None \notin LeaseRow
  BY NoLeaseAssumption DEF LeasesInv, LeasesType
<1>2. leases'[l] = row /\ \A m \in LeaseIds \ {l} : leases'[m] = leases[m]
  BY <1>1
<1>3. Signed' = Signed \cup {l} /\ Signed \subseteq LeaseIds \ {l}
  BY <1>1, <1>2 DEF Signed
<1>4. k \in Nat /\ IsFiniteSet(Signed) /\ {leases[m].number : m \in Signed} = 1 .. k
  BY FS_CardinalityType DEF LeasesInv, LeaseNumbersDense
<1>5. IsFiniteSet(Signed') /\ Cardinality(Signed') = k + 1
  BY <1>3, <1>4, FS_AddElement
<1> HIDE DEF k
<1>6. row.number = k + 1
  <2>1. row.number \notin 1 .. k
    BY <1>4
  <2>2. row.number \in 1 .. k + 1
    BY DEF k
  <2>3. QED
    BY <1>4, <2>1, <2>2
<1>7. LeaseNumbersDense'
  <2>1. \A m \in Signed : leases'[m].number = leases[m].number
    BY <1>2, <1>3
  <2>2. {leases'[m].number : m \in Signed'} = {leases[m].number : m \in Signed} \cup {k + 1}
    BY <1>2, <1>3, <1>6, <2>1
  <2>3. k \in Nat
    BY <1>4
  <2>4. (1 .. k) \cup {k + 1} = 1 .. k + 1
    BY ONLY <2>3
  <2>5. {leases'[m].number : m \in Signed'} = 1 .. k + 1
    BY ONLY <1>4, <2>2, <2>4
  <2>6. QED
    BY <1>5, <2>5 DEF LeaseNumbersDense
<1>8. \A i \in DOMAIN amendments : amendments[i].lease \in LeaseIds \ {l}
  BY <1>3 DEF LeasesInv, RentFollows
<1>9. RentFollows'
  <2>1. AmendmentsOf(l) = {}
    BY <1>8 DEF AmendmentsOf
  <2>2. \A i \in DOMAIN amendments : amendments[i].lease \in Signed'
    BY <1>3 DEF LeasesInv, RentFollows
  <2>3. QED
    BY <1>2, <2>1, <2>2, LeaseScene, AmendmentsStay DEF LeasesInv, RentFollows
<1>10. BaseFollows'
  BY LeaseScene, AmendmentsStay DEF LeasesInv, BaseFollows, BasedOnRent
<1>11. TermsAgree'
  BY <1>2, <1>3, LeaseScene DEF LeasesInv, TermsAgree
<1>12. LeasesType'
  BY <1>1 DEF LeasesInv, LeasesType
<1>13. QED
  BY <1>3, <1>5, <1>7, <1>9, <1>10, <1>11, <1>12 DEF LeaseRows, k

\* A duration is a number of months, 0 in the month of the beginning.
LEMMA Durations ==
    ASSUME NEW debut \in Date, NEW fin \in Date, After(fin, debut)
    PROVE  /\ MonthsBetween(debut, fin) \in Nat
           /\ 12 * debut.year + debut.month + MonthsBetween(debut, fin) = 12 * fin.year + fin.month
<1>1. /\ debut.year \in Nat /\ debut.month \in 0 .. 11
      /\ fin.year \in Nat /\ fin.month \in 0 .. 11
  BY DEF Date
<1>2. fin.year > debut.year \/ (fin.year = debut.year /\ fin.month >= debut.month)
  BY <1>1 DEF After
<1>3. ASSUME NEW y \in Nat, NEW z \in Nat, NEW m \in 0 .. 11, NEW n \in 0 .. 11,
             z > y \/ (z = y /\ n >= m)
      PROVE  (z - y) * 12 + n - m \in Nat /\ 12 * y + m + ((z - y) * 12 + n - m) = 12 * z + n
  <2>1. (z - y) * 12 + n - m >= 0
    BY <1>3
  <2>2. QED
    BY <2>1
<1>4. QED
  BY <1>1, <1>2, <1>3 DEF MonthsBetween

LEMMA InsertLeaseKeeps ==
    ASSUME LeasesInv, Common', scene' = scene, NEW r \in Requests, InsertLease(r)
    PROVE  LeasesInv'
<1> DEFINE w == req[r]
           row == [c \in Columns |->
                        CASE c \in Terms -> w.terms[c]
                          [] c = "number" -> w.number
                          [] c = "statut" -> "EN_NEGOCIATION"
                          [] c = "dureeInitialeMois" ->
                                MonthsBetween(w.terms.dateDebut, w.terms.dateFin)]
<1>1. /\ w.do = "insertLease" /\ Done(r) /\ LeaseWork(r)
      /\ UNCHANGED << amendments, payments, month >>
      /\ leases' = IF w.lease \in Signed \/ \E l \in Signed : leases[l].number = w.number
                   THEN leases ELSE [leases EXCEPT ![w.lease] = row]
  BY DEF InsertLease, LeasesInv
<1>2. /\ w.lease \in LeaseIds /\ w.terms \in LeaseTerms
      /\ After(w.terms.dateFin, w.terms.dateDebut)
      /\ w.number \in 1 .. Cardinality(Signed) + 1
  BY <1>1 DEF LeaseWork
<1>3. req'[r] = Idle /\ req[r] # Idle /\ \A q \in Requests \ {r} : req'[q] = req[q]
  BY <1>1, DoneFrees DEF LeasesInv, Common
<1>4. LeaseWork(r)'
  BY <1>3 DEF LeaseWork, Idle
<1>5. CASE leases' = leases
  BY <1>1, <1>3, <1>4, <1>5, LeaseReads
<1>6. CASE leases' # leases
  <2>1. Cardinality(Signed) \in Nat
    BY FS_CardinalityType DEF LeasesInv, LeaseNumbersDense
  <2>2. row \in LeaseRow /\ Spans(row)
    <3>1. /\ w.terms.dateDebut \in Date /\ w.terms.dateFin \in Date
      BY <1>2 DEF LeaseTerms
    <3> DEFINE duration == MonthsBetween(w.terms.dateDebut, w.terms.dateFin)
    <3>2. /\ duration \in Nat
          /\ 12 * w.terms.dateDebut.year + w.terms.dateDebut.month + duration
                = 12 * w.terms.dateFin.year + w.terms.dateFin.month
      BY <1>2, <3>1, Durations
    <3>3. /\ row.dateFin = w.terms.dateFin /\ row.dateDebut = w.terms.dateDebut
          /\ row.dureeInitialeMois = duration
      BY DEF Columns, Terms
    <3>4. Spans(row)
      BY <1>2, <3>2, <3>3 DEF Spans
    <3>5. row.dureeInitialeMois \in Nat
      BY <3>2, <3>3
    <3>6. /\ w.number \in Nat \ {0} /\ row.number = w.number /\ row.statut \in Statut
          /\ \A c \in Terms : row[c] = w.terms[c]
      BY <1>2, <2>1 DEF Columns, Terms, Statut
    <3>7. row = [c \in Columns |-> row[c]]
      BY DEF Columns, Terms
    <3> HIDE DEF duration, row
    <3>8. row \in LeaseRow
      BY <1>2, <3>5, <3>6, <3>7 DEF LeaseRow, LeaseTerms, Columns, Terms
    <3>9. QED
      BY <3>4, <3>8
  <2>3. row.number = w.number
    BY DEF Columns, Terms
  <2>4. /\ w.lease \notin Signed /\ \A l \in Signed : leases[l].number # w.number
        /\ leases' = [leases EXCEPT ![w.lease] = row]
    BY <1>1, <1>6
  <2> HIDE DEF row, w
  <2>5. PICK l, new : l = w.lease /\ new = row
    OBVIOUS
  <2>6. /\ l \in LeaseIds /\ l \notin Signed /\ new \in LeaseRow
        /\ new.number \in 1 .. Cardinality(Signed) + 1
        /\ \A m \in Signed : leases[m].number # new.number
    BY <1>2, <2>2, <2>3, <2>4, <2>5
  <2>7. Spans(new)
    BY <2>2, <2>5
  <2>8. leases' = [leases EXCEPT ![l] = new] /\ UNCHANGED << amendments, payments, month >>
    BY <1>1, <2>4, <2>5
  <2>9. /\ LeasesType' /\ LeaseRows'
        /\ Signed' = Signed \cup {l} /\ Cardinality(Signed') = Cardinality(Signed) + 1
    BY <2>6, <2>7, <2>8, LeaseInserted
  <2>10. Cardinality(Signed') >= Cardinality(Signed) /\ Cardinality(Signed') \in Nat
    BY <2>1, <2>9
  <2>11. req[r] # Idle
    BY <1>3 DEF w
  <2>12. \A q \in Requests \ {r} : LeaseWork(q)'
    BY <1>3, <2>1, <2>9, <2>10, <2>11, LeaseOthers
  <2>13. QED
    BY <1>4, <2>9, <2>12 DEF LeasesInv, LeaseRows
<1>7. QED
  BY <1>5, <1>6

LEMMA PatchedRow ==
    ASSUME NEW lease \in LeaseRow, NEW patch, IsPatch(patch),
           BothDates(patch) => After(patch.dateFin, patch.dateDebut)
    PROVE  /\ Patched(lease, patch) \in LeaseRow
           /\ Patched(lease, patch).number = lease.number
           /\ "montantMensuel" \notin DOMAIN patch =>
                Patched(lease, patch).montantMensuel = lease.montantMensuel
           /\ BothDates(patch) => Spans(Patched(lease, patch))
           /\ DOMAIN patch \cap {"dateDebut", "dateFin"} = {} /\ Spans(lease) =>
                Spans(Patched(lease, patch))
<1> DEFINE row == Patched(lease, patch)
           duration == MonthsBetween(patch.dateDebut, patch.dateFin)
<1>1. row = [c \in Columns |->
                IF c \in DOMAIN patch THEN patch[c]
                ELSE IF c = "dureeInitialeMois" /\ BothDates(patch) THEN duration
                ELSE lease[c]]
  BY DEF Patched
<1>2. DOMAIN patch \subseteq Terms \cup {"statut"} /\ \A c \in DOMAIN patch : patch[c] \in TypeOf(c)
  BY DEF IsPatch
<1>3. ASSUME BothDates(patch)
      PROVE  /\ duration \in Nat
             /\ 12 * patch.dateDebut.year + patch.dateDebut.month + duration
                    = 12 * patch.dateFin.year + patch.dateFin.month
  <2>1. patch["dateDebut"] \in TypeOf("dateDebut") /\ patch["dateFin"] \in TypeOf("dateFin")
    BY <1>2, <1>3 DEF BothDates
  <2>2. patch.dateDebut \in Date /\ patch.dateFin \in Date
    BY <2>1 DEF TypeOf
  <2>3. QED
    BY <1>3, <2>2, Durations
<1> HIDE DEF duration
<1>4. row \in LeaseRow
  BY <1>1, <1>2, <1>3 DEF LeaseRow, Columns, Terms, TypeOf
<1>5. row.number = lease.number
  BY <1>1, <1>2 DEF Columns, Terms
<1>6. "montantMensuel" \notin DOMAIN patch => row.montantMensuel = lease.montantMensuel
  BY <1>1 DEF Columns, Terms
<1>7. ASSUME BothDates(patch)
      PROVE  Spans(row)
  <2>1. "dureeInitialeMois" \notin DOMAIN patch
    BY <1>2 DEF Terms
  <2>2. /\ row.dateFin = patch.dateFin /\ row.dateDebut = patch.dateDebut
        /\ row.dureeInitialeMois = duration
    BY <1>1, <1>7, <2>1 DEF BothDates, Columns, Terms
  <2> HIDE DEF row
  <2>3. QED
    BY <1>3, <1>7, <2>2 DEF Spans
<1>8. ASSUME DOMAIN patch \cap {"dateDebut", "dateFin"} = {}, Spans(lease)
      PROVE  Spans(row)
  <2>1. "dureeInitialeMois" \notin DOMAIN patch /\ ~BothDates(patch)
    BY <1>2, <1>8 DEF Terms, BothDates
  <2>2. /\ row.dateFin = lease.dateFin /\ row.dateDebut = lease.dateDebut
        /\ row.dureeInitialeMois = lease.dureeInitialeMois
    BY <1>1, <1>8, <2>1 DEF Columns, Terms
  <2> HIDE DEF row
  <2>3. QED
    BY <1>8, <2>2 DEF Spans
<1>9. QED
  BY <1>4, <1>5, <1>6, <1>7, <1>8

LEMMA WriteLeaseKeeps ==
    ASSUME LeasesInv, Common', scene' = scene, NEW r \in Requests, WriteLease(r)
    PROVE  LeasesInv'
<1> DEFINE w == req[r]
           row == Patched(leases[w.lease], w.patch)
<1>1. /\ w.do = "writeLease" /\ Done(r) /\ LeaseWork(r)
      /\ UNCHANGED << amendments, payments, month >>
      /\ leases' = [leases EXCEPT ![w.lease] = row]
  BY DEF WriteLease, LeasesInv
<1>2. /\ w.lease \in Signed /\ IsPatch(w.patch)
      /\ w.patch \in scene.patches \cup {[statut |-> "ARCHIVE"]}
      /\ BothDates(w.patch) => After(w.patch.dateFin, w.patch.dateDebut)
  BY <1>1 DEF LeaseWork
<1>3. leases \in [LeaseIds -> LeaseRow \cup {None}] /\ None \notin LeaseRow
  BY NoLeaseAssumption DEF LeasesInv, LeasesType
<1>4. w.lease \in LeaseIds /\ leases[w.lease] \in LeaseRow
  BY <1>2, <1>3 DEF Signed
<1>5. row \in LeaseRow /\ row.number = leases[w.lease].number
  BY <1>2, <1>4, PatchedRow
<1>6. ASSUME ~Patching({"montantMensuel"})
      PROVE  row.montantMensuel = leases[w.lease].montantMensuel
  <2>1. "montantMensuel" \notin DOMAIN w.patch
    BY <1>2, <1>6 DEF Patching
  <2>2. QED
    BY <1>2, <1>4, <2>1, PatchedRow
<1>7. ASSUME DatesTogether
      PROVE  Spans(row)
  <2>1. BothDates(w.patch) \/ DOMAIN w.patch \cap {"dateDebut", "dateFin"} = {}
    BY <1>2, <1>7 DEF DatesTogether
  <2>2. Spans(leases[w.lease])
    BY <1>2, <1>7 DEF LeasesInv, TermsAgree
  <2>3. QED
    BY <1>2, <1>4, <2>1, <2>2, PatchedRow
<1> HIDE DEF row
<1>8. leases'[w.lease] = row /\ \A m \in LeaseIds \ {w.lease} : leases'[m] = leases[m]
  BY <1>1, <1>3, <1>4
<1>9. Signed' = Signed
  BY <1>2, <1>3, <1>5, <1>8 DEF Signed
<1>10. LeasesType'
  BY <1>1, <1>3, <1>5 DEF LeasesInv, LeasesType
<1>11. \A m \in Signed : leases'[m].number = leases[m].number
  BY <1>5, <1>8 DEF Signed
<1>12. LeaseNumbersDense'
  BY <1>9, <1>11 DEF LeasesInv, LeaseNumbersDense
<1>13. ~Patching({"montantMensuel"}) =>
            \A m \in LeaseIds : leases'[m].montantMensuel = leases[m].montantMensuel
  BY <1>6, <1>8
<1>14. RentFollows'
  BY <1>1, <1>9, <1>13, LeaseScene, AmendmentsStay DEF LeasesInv, RentFollows
<1>15. BaseFollows'
  BY <1>1, LeaseScene, AmendmentsStay DEF LeasesInv, BaseFollows, BasedOnRent
<1>16. TermsAgree'
  BY <1>7, <1>8, <1>9, LeaseScene DEF LeasesInv, TermsAgree, Signed
<1>17. req'[r] = Idle /\ req[r] # Idle /\ \A q \in Requests \ {r} : req'[q] = req[q]
  BY <1>1, DoneFrees DEF LeasesInv, Common
<1>18. Cardinality(Signed) \in Nat
  BY FS_CardinalityType DEF LeasesInv, LeaseNumbersDense
<1>19. LeaseWork(r)'
  BY <1>17 DEF LeaseWork, Idle
<1>20. \A q \in Requests : LeaseWork(q)'
  BY <1>9, <1>17, <1>18, <1>19, LeaseOthers
<1>21. QED
  BY <1>10, <1>12, <1>14, <1>15, <1>16, <1>20 DEF LeasesInv

LEMMA IndexedType ==
    ASSUME NEW amount \in Nat, NEW rate \in Nat
    PROVE  Indexed(amount, rate) \in Nat
<1>1. PICK product \in Nat : product = amount * (100 + rate)
  OBVIOUS
<1>2. (product + 50) \div 100 \in Nat
  OBVIOUS
<1>3. QED
  BY <1>1, <1>2 DEF Indexed

\* A lease and its amendment are written at once.
LEMMA Amended ==
    ASSUME LeasesInv, scene' = scene, NEW l \in Signed, NEW new \in Amendment,
           new.lease = l, Amend(l, new), UNCHANGED << payments, month >>,
           new.kind = "indexation" /\ Serial => new.base = leases[l].montantMensuel
    PROVE  /\ LeasesType' /\ LeaseRows' /\ Signed' = Signed
           /\ \A m \in LeaseIds \ {l} : leases'[m] = leases[m]
<1>0. PICK n : n = Len(amendments) + 1
  OBVIOUS
<1>1. /\ leases \in [LeaseIds -> LeaseRow \cup {None}] /\ None \notin LeaseRow
      /\ amendments \in Seq(Amendment) /\ month \in Nat
  BY NoLeaseAssumption DEF LeasesInv, LeasesType
<1>2. l \in LeaseIds /\ leases[l] \in LeaseRow /\ new.nouveauMontant \in Nat
  BY <1>1 DEF Signed, Amendment
<1>3. /\ amendments' = Append(amendments, new)
      /\ leases' = IF new.nouveauMontant = 0 THEN leases
                   ELSE [leases EXCEPT ![l].montantMensuel = new.nouveauMontant]
  BY DEF Amend
<1>4. /\ n \in Nat /\ n \notin DOMAIN amendments /\ DOMAIN amendments' = DOMAIN amendments \cup {n}
      /\ amendments'[n] = new /\ \A i \in DOMAIN amendments : amendments'[i] = amendments[i] /\ i < n
      /\ amendments' \in Seq(Amendment) /\ DOMAIN amendments \subseteq Nat
  BY <1>0, <1>1, <1>3
<1>5. /\ leases' \in [LeaseIds -> LeaseRow \cup {None}] /\ leases'[l] \in LeaseRow
      /\ \A m \in LeaseIds \ {l} : leases'[m] = leases[m]
      /\ leases'[l].montantMensuel
            = IF new.nouveauMontant = 0 THEN leases[l].montantMensuel ELSE new.nouveauMontant
      /\ leases'[l].number = leases[l].number /\ leases'[l].dateDebut = leases[l].dateDebut
      /\ leases'[l].dateFin = leases[l].dateFin
      /\ leases'[l].dureeInitialeMois = leases[l].dureeInitialeMois
  BY <1>1, <1>2, <1>3 DEF LeaseRow
<1>6. Signed' = Signed
  BY <1>1, <1>5 DEF Signed
<1>7. \A m \in LeaseIds : leases'[m].number = leases[m].number
  BY <1>5
<1>8. LeaseNumbersDense'
  <2>1. \A m \in Signed : leases'[m].number = leases[m].number
    BY <1>7 DEF Signed
  <2>2. {leases'[m].number : m \in Signed} = {leases[m].number : m \in Signed}
    BY <2>1
  <2>3. QED
    BY <1>6, <2>2 DEF LeasesInv, LeaseNumbersDense
<1>9. TermsAgree'
  <2>1. \A m \in Signed : Spans(leases'[m]) <=> Spans(leases[m])
    BY <1>5 DEF Spans, Signed
  <2>2. QED
    BY <1>6, <2>1, LeaseScene DEF LeasesInv, TermsAgree
<1>10. /\ \A m \in LeaseIds \ {l} : AmendmentsOf(m)' = AmendmentsOf(m)
       /\ AmendmentsOf(l)' = IF new.nouveauMontant = 0 THEN AmendmentsOf(l)
                             ELSE AmendmentsOf(l) \cup {n}
  BY <1>4 DEF AmendmentsOf
<1>11. \A m \in LeaseIds : AmendmentsOf(m) \subseteq DOMAIN amendments
  BY DEF AmendmentsOf
<1>12. \A m \in LeaseIds : HasLatest(AmendmentsOf(m))
  BY DEF LeasesInv, RentFollows
<1>13. ASSUME NEW S, S \subseteq DOMAIN amendments, HasLatest(S), S # {}
       PROVE  LatestOf(S) \in S
  BY <1>13 DEF LatestOf, HasLatest
<1>14. RentFollows'
  <2>1. \A i \in DOMAIN amendments' : amendments'[i].lease \in Signed'
    BY <1>4, <1>6 DEF LeasesInv, RentFollows
  <2>2. ASSUME NEW m \in LeaseIds, AmendmentsOf(m)' = AmendmentsOf(m),
               leases'[m].montantMensuel = leases[m].montantMensuel
        PROVE  /\ HasLatest(AmendmentsOf(m)')
               /\ ~Patching({"montantMensuel"})' /\ AmendmentsOf(m)' # {} =>
                    leases'[m].montantMensuel = amendments'[LatestOf(AmendmentsOf(m)')].nouveauMontant
    <3>1. HasLatest(AmendmentsOf(m)')
      BY <1>12, <2>2
    <3>2. AmendmentsOf(m) # {} => LatestOf(AmendmentsOf(m)) \in DOMAIN amendments
      BY <1>11, <1>12, <1>13
    <3>3. ~Patching({"montantMensuel"}) /\ AmendmentsOf(m) # {} =>
            leases[m].montantMensuel = amendments[LatestOf(AmendmentsOf(m))].nouveauMontant
      BY DEF LeasesInv, RentFollows
    <3>4. QED
      BY <1>4, <2>2, <3>1, <3>2, <3>3, LeaseScene
  <2>3. ASSUME new.nouveauMontant # 0
        PROVE  HasLatest(AmendmentsOf(l)') /\ LatestOf(AmendmentsOf(l)') = n
    <3> DEFINE S == AmendmentsOf(l) \cup {n}
    <3>1. \A j \in S : j <= n
      BY <1>2, <1>4, <1>11
    <3>2. \A i \in S : (\A j \in S : j <= i) => i = n
      BY <1>2, <1>4, <1>11
    <3>3. AmendmentsOf(l)' = S
      BY <1>10, <2>3
    <3> HIDE DEF S
    <3>4. n \in S
      BY DEF S
    <3>5. LatestOf(S) = n
      BY <3>1, <3>2, <3>4 DEF LatestOf
    <3>6. HasLatest(S)
      BY <3>1, <3>4 DEF HasLatest
    <3>7. QED
      BY <3>3, <3>5, <3>6
  <2>4. \A m \in LeaseIds :
            /\ HasLatest(AmendmentsOf(m)')
            /\ ~Patching({"montantMensuel"})' /\ AmendmentsOf(m)' # {} =>
                leases'[m].montantMensuel = amendments'[LatestOf(AmendmentsOf(m)')].nouveauMontant
    <3>1. CASE new.nouveauMontant = 0
      BY <1>5, <1>10, <2>2, <3>1
    <3>2. CASE new.nouveauMontant # 0
      <4>1. amendments'[n].nouveauMontant = new.nouveauMontant
        BY <1>4
      <4>2. leases'[l].montantMensuel = new.nouveauMontant
        BY <1>5, <3>2
      <4>3. ASSUME NEW m \in LeaseIds, m # l
            PROVE  /\ HasLatest(AmendmentsOf(m)')
                   /\ ~Patching({"montantMensuel"})' /\ AmendmentsOf(m)' # {} =>
                        leases'[m].montantMensuel
                          = amendments'[LatestOf(AmendmentsOf(m)')].nouveauMontant
        <5>1. AmendmentsOf(m)' = AmendmentsOf(m)
          BY <1>10, <4>3
        <5>2. leases'[m].montantMensuel = leases[m].montantMensuel
          BY <1>5, <4>3
        <5>3. QED
          BY <2>2, <5>1, <5>2
      <4>4. /\ HasLatest(AmendmentsOf(l)')
            /\ leases'[l].montantMensuel = amendments'[LatestOf(AmendmentsOf(l)')].nouveauMontant
        BY <2>3, <3>2, <4>1, <4>2
      <4>5. QED
        BY <4>3, <4>4
    <3>3. QED
      BY <3>1, <3>2
  <2>5. QED
    BY <2>1, <2>4 DEF RentFollows
<1>15. /\ Indexations' = IF new.kind = "indexation" THEN Indexations \cup {n} ELSE Indexations
       /\ Indexations \subseteq DOMAIN amendments
  BY <1>4 DEF Indexations
<1>16. \A i \in DOMAIN amendments : amendments[i].lease \in LeaseIds
  BY DEF LeasesInv, RentFollows, Signed
<1>17. /\ \A i \in Indexations : Before(i)' = Before(i) /\ Before(i) \subseteq DOMAIN amendments
       /\ Before(n)' = AmendmentsOf(l)
  <2>1. \A m \in LeaseIds, j \in DOMAIN amendments :
            j \in AmendmentsOf(m)' <=> j \in AmendmentsOf(m)
    BY <1>4, <1>10
  <2>2. \A m \in LeaseIds : AmendmentsOf(m)' \subseteq DOMAIN amendments \cup {n}
    BY <1>10, <1>11
  <2>3. \A i \in DOMAIN amendments : ~(n < i)
    BY <1>4
  <2>4. \A i \in Indexations : Before(i)' = Before(i) /\ Before(i) \subseteq DOMAIN amendments
    BY <1>4, <1>11, <1>15, <1>16, <2>1, <2>2, <2>3 DEF Before
  <2>5. Before(n)' = {j \in AmendmentsOf(l)' : j < n}
    BY <1>4 DEF Before
  <2>6. \A j \in AmendmentsOf(l)' : j < n <=> j \in AmendmentsOf(l)
    BY <1>2, <1>4, <1>10, <1>11
  <2>7. AmendmentsOf(l) \subseteq AmendmentsOf(l)'
    BY <1>10
  <2>8. QED
    BY <2>4, <2>5, <2>6, <2>7
<1>18. BaseFollows'
  <2>1. ASSUME NEW i \in Indexations
        PROVE  /\ HasLatest(Before(i)')
               /\ Serial' /\ ~Patching({"montantMensuel"})' => BasedOnRent(i)'
    <3>1. HasLatest(Before(i))
      BY DEF LeasesInv, BaseFollows
    <3>2. Before(i) # {} => LatestOf(Before(i)) \in DOMAIN amendments
      BY <1>13, <1>17, <3>1
    <3>3. Serial /\ ~Patching({"montantMensuel"}) => BasedOnRent(i)
      BY DEF LeasesInv, BaseFollows
    <3>4. BasedOnRent(i) => BasedOnRent(i)'
      BY <1>4, <1>15, <1>17, <3>2 DEF BasedOnRent
    <3>5. QED
      BY <1>17, <3>1, <3>3, <3>4, LeaseScene
  <2>2. ASSUME new.kind = "indexation"
        PROVE  /\ HasLatest(Before(n)')
               /\ Serial' /\ ~Patching({"montantMensuel"})' => BasedOnRent(n)'
    <3>1. HasLatest(AmendmentsOf(l))
      BY <1>2, <1>12
    <3>2. AmendmentsOf(l) # {} => LatestOf(AmendmentsOf(l)) \in DOMAIN amendments
      BY <1>2, <1>11, <1>13, <3>1
    <3>3. Serial /\ ~Patching({"montantMensuel"}) /\ AmendmentsOf(l) # {} =>
                new.base = amendments[LatestOf(AmendmentsOf(l))].nouveauMontant
      BY <1>2, <2>2 DEF LeasesInv, RentFollows
    <3>4. QED
      BY <1>4, <1>17, <3>1, <3>2, <3>3, LeaseScene DEF BasedOnRent
  <2>3. QED
    BY <1>15, <2>1, <2>2 DEF BaseFollows
<1>19. LeasesType'
  BY <1>4, <1>5 DEF LeasesInv, LeasesType
<1>20. QED
  BY <1>5, <1>6, <1>8, <1>9, <1>14, <1>18, <1>19 DEF LeaseRows

LEMMA WriteAmendmentKeeps ==
    ASSUME LeasesInv, Common', scene' = scene, NEW r \in Requests, WriteAmendment(r)
    PROVE  LeasesInv'
<1>1. PICK l, new : /\ l = req[r].lease
                    /\ new = [lease |-> l, kind |-> "signed", month |-> month,
                              base |-> leases[l].montantMensuel,
                              nouveauMontant |-> req[r].nouveauMontant]
  OBVIOUS
<1>2. /\ req[r].do = "writeAmendment" /\ Done(r) /\ Amend(l, new)
      /\ UNCHANGED << payments, month >>
  BY <1>1 DEF WriteAmendment
<1>3. l \in Signed /\ req[r].nouveauMontant \in Nat
  BY <1>1, <1>2 DEF LeasesInv, LeaseWork
<1>4. leases[l].montantMensuel \in Nat /\ month \in Nat
  BY <1>3 DEF LeasesInv, LeasesType, Signed, LeaseRow
<1>5. new \in Amendment /\ new.lease = l /\ new.kind # "indexation"
  BY <1>1, <1>3, <1>4 DEF Amendment, Signed
<1>6. LeasesType' /\ LeaseRows' /\ Signed' = Signed
  BY <1>2, <1>3, <1>5, Amended
<1>7. req'[r] = Idle /\ req[r] # Idle /\ \A q \in Requests \ {r} : req'[q] = req[q]
  BY <1>2, DoneFrees DEF LeasesInv, Common
<1>8. Cardinality(Signed) \in Nat
  BY FS_CardinalityType DEF LeasesInv, LeaseNumbersDense
<1>9. LeaseWork(r)'
  BY <1>7 DEF LeaseWork, Idle
<1>10. \A q \in Requests \ {r} : LeaseWork(q)'
  BY <1>6, <1>7, <1>8, LeaseOthers
<1>11. QED
  BY <1>6, <1>9, <1>10 DEF LeasesInv, LeaseRows

LEMMA InsertPaymentKeeps ==
    ASSUME LeasesInv, Common', scene' = scene, NEW r \in Requests, InsertPayment(r)
    PROVE  LeasesInv'
<1>1. /\ req[r].do = "insertPayment" /\ Done(r)
      /\ UNCHANGED << leases, amendments, month >>
      /\ payments' = payments \cup {req[r].payment}
  BY DEF InsertPayment
<1>2. req[r].payment \in [lease : LeaseIds, periode : Nat, type : PaymentTypes]
  BY <1>1 DEF LeasesInv, LeaseWork
<1>3. LeasesType'
  BY <1>1, <1>2 DEF LeasesInv, LeasesType
<1>4. LeaseRows'
  BY <1>1, LeaseRowsStay DEF LeasesInv, LeasesType
<1>5. req'[r] = Idle /\ \A q \in Requests \ {r} : req'[q] = req[q]
  BY <1>1, DoneFrees DEF LeasesInv, Common
<1>6. LeaseWork(r)'
  BY <1>5 DEF LeaseWork, Idle
<1>7. QED
  BY <1>1, <1>3, <1>4, <1>5, <1>6, LeaseWorkStays DEF LeasesInv, LeaseRows

LEMMA NextMonthKeeps ==
    ASSUME LeasesInv, Common', scene' = scene, NextMonth
    PROVE  LeasesInv'
<1>1. PICK m \in scene.months : month' = m
  BY DEF NextMonth
<1>2. m \in Nat
  BY ScenesAssumption DEF LeasesInv, Common
<1>3. UNCHANGED << req, leases, amendments, payments >>
  BY DEF NextMonth
<1>4. LeasesType' /\ LeaseRows'
  BY <1>1, <1>2, <1>3, LeaseRowsStay DEF LeasesInv, LeasesType
<1>5. QED
  BY <1>3, <1>4, LeaseWorkStays DEF LeasesInv, LeaseRows

LEMMA RunIndexationKeeps ==
    ASSUME LeasesInv, Common', scene' = scene, NEW r \in Requests, RunIndexation(r)
    PROVE  LeasesInv'
<1>1. /\ Await(r, [do |-> "index", left |-> ToIndex(month), read |-> leases, month |-> month])
      /\ UNCHANGED << leases, amendments, payments, month >>
  BY DEF RunIndexation, LeaseCalled
<1>2. /\ req'[r] = [do |-> "index", left |-> ToIndex(month), read |-> leases, month |-> month]
      /\ \A q \in Requests \ {r} : req'[q] = req[q]
  BY <1>1 DEF Await, LeasesInv, Common, KnownWork
<1>3. ToIndex(month) \subseteq Signed /\ \A l \in ToIndex(month) : leases[l] \in LeaseRow
  BY DEF ToIndex, Signed, LeasesInv, LeasesType
<1>4. month \in Nat /\ Signed' = Signed
  BY <1>1 DEF LeasesInv, LeasesType, Signed
<1>5. LeaseWork(r)'
  BY <1>1, <1>2, <1>3, <1>4 DEF LeaseWork
<1>6. QED
  BY <1>1, <1>2, <1>5, LeaseReads

\* The leases that are left are as they were read, if nothing else ran.
LEMMA IndexKeeps ==
    ASSUME LeasesInv, Common', scene' = scene, NEW r \in Requests,
           IndexLease(r) \/ IndexFails(r) \/ IndexationEnds(r)
    PROVE  LeasesInv'
<1> DEFINE w == req[r]
<1>1. w.do = "index" /\ UNCHANGED << payments, month >> /\ LeaseWork(r)
  BY DEF IndexLease, IndexFails, IndexationEnds, LeasesInv
<1>2. /\ {"do", "left", "read", "month"} \subseteq DOMAIN w /\ w.month \in Nat
      /\ w.left \subseteq Signed /\ \A m \in w.left : w.read[m] \in LeaseRow
  BY <1>1 DEF LeaseWork
<1>3. Serial => \A m \in w.left : w.read[m] = leases[m]
  BY <1>1 DEF LeaseWork
<1>4. CASE IndexationEnds(r)
  <2>1. UNCHANGED << leases, amendments, payments, month >> /\ Done(r)
    BY <1>4 DEF IndexationEnds
  <2>2. req'[r] = Idle /\ \A q \in Requests \ {r} : req'[q] = req[q]
    BY <2>1, DoneFrees DEF LeasesInv, Common
  <2>3. LeaseWork(r)'
    BY <2>2 DEF LeaseWork, Idle
  <2>4. QED
    BY <2>1, <2>2, <2>3, LeaseReads
<1>5. ASSUME NEW l \in w.left, Await(r, [w EXCEPT !.left = @ \ {l}])
      PROVE  /\ req'[r].do = "index" /\ {"do", "left", "read", "month"} \subseteq DOMAIN req'[r]
             /\ req'[r].left = w.left \ {l} /\ req'[r].read = w.read /\ req'[r].month = w.month
             /\ \A q \in Requests \ {r} : req'[q] = req[q]
  BY <1>1, <1>2, <1>5 DEF Await, LeasesInv, Common, KnownWork
<1>6. CASE IndexFails(r)
  <2>1. PICK l \in w.left : Await(r, [w EXCEPT !.left = @ \ {l}])
    BY <1>6 DEF IndexFails
  <2>2. UNCHANGED << leases, amendments, payments, month >>
    BY <1>6 DEF IndexFails
  <2>3. Signed' = Signed
    BY <2>2 DEF Signed
  <2>4. LeaseWork(r)'
    BY <1>2, <1>3, <1>5, <2>1, <2>2, <2>3, LeaseScene DEF LeaseWork
  <2>5. QED
    BY <1>5, <2>1, <2>2, <2>4, LeaseReads
<1>7. CASE IndexLease(r)
  <2> DEFINE indexation(l) ==
                [lease |-> l, kind |-> "indexation", month |-> w.month,
                 base |-> w.read[l].montantMensuel,
                 nouveauMontant |-> Indexed(w.read[l].montantMensuel, w.read[l].indexationRate)]
  <2>1. PICK l \in w.left :
            Amend(l, indexation(l)) /\ Await(r, [w EXCEPT !.left = @ \ {l}])
    BY <1>7 DEF IndexLease
  <2>2. PICK new : new = indexation(l)
    OBVIOUS
  <2>3. l \in Signed /\ w.read[l] \in LeaseRow /\ l \in LeaseIds
    BY <1>2, <2>1 DEF Signed
  <2>4. w.read[l].montantMensuel \in Nat /\ w.read[l].indexationRate \in Nat
    BY <2>3 DEF LeaseRow
  <2>5. new \in Amendment /\ new.lease = l
    BY <1>2, <2>2, <2>3, <2>4, IndexedType DEF Amendment
  <2>6. Serial => new.base = leases[l].montantMensuel
    BY <1>3, <2>1, <2>2
  <2>7. Amend(l, new)
    BY <2>1, <2>2
  <2> HIDE DEF w, indexation
  <2>8. /\ LeasesType' /\ LeaseRows' /\ Signed' = Signed
        /\ \A m \in LeaseIds \ {l} : leases'[m] = leases[m]
    BY <1>1, <2>3, <2>5, <2>6, <2>7, Amended
  <2>9. /\ req'[r].do = "index" /\ {"do", "left", "read", "month"} \subseteq DOMAIN req'[r]
        /\ req'[r].left = w.left \ {l} /\ req'[r].read = w.read /\ req'[r].month = w.month
        /\ \A q \in Requests \ {r} : req'[q] = req[q]
    BY <1>5, <2>1
  <2>10. Serial' => \A m \in w.left \ {l} : w.read[m] = leases'[m]
    BY <1>2, <1>3, <2>8, LeaseScene DEF Signed
  <2>11. LeaseWork(r)'
    BY <1>2, <2>8, <2>9, <2>10 DEF LeaseWork
  <2>12. Cardinality(Signed) \in Nat
    BY FS_CardinalityType DEF LeasesInv, LeaseNumbersDense
  <2>13. req[r] # Idle
    BY <1>1 DEF Idle, w
  <2>14. \A q \in Requests \ {r} : LeaseWork(q)'
    BY <2>8, <2>9, <2>12, <2>13, LeaseOthers
  <2>15. QED
    BY <2>8, <2>11, <2>14 DEF LeasesInv, LeaseRows
<1>8. QED
  BY <1>4, <1>6, <1>7

LEMMA LeasesKept ==
    ASSUME LeasesInv, [Next]_vars
    PROVE  LeasesInv'
<1>1. Common' /\ scene' = scene
  BY StepsKeepCommon DEF LeasesInv
<1>2. ASSUME NEW r \in Requests, LeasesNext(r)
      PROVE  LeasesInv'
  BY <1>1, <1>2, LeaseCalls, InsertLeaseKeeps, WriteLeaseKeeps, WriteAmendmentKeeps,
     InsertPaymentKeeps, NextMonthKeeps, RunIndexationKeeps, IndexKeeps DEF LeasesNext
<1>3. CASE UNCHANGED leaseVars /\ Elsewhere(LeaseWords)
  <2>1. UNCHANGED << leases, amendments, payments, month >>
    BY <1>3 DEF leaseVars
  <2>2. LeasesType' /\ LeaseRows'
    BY <1>1, <2>1, LeaseRowsStay DEF LeasesInv, LeasesType
  <2>3. ASSUME NEW r \in Requests
        PROVE  LeaseWork(r)'
    <3>1. CASE req'[r] = req[r]
      BY <1>1, <2>1, <3>1, LeaseWorkStays
    <3>2. CASE req'[r].do \notin LeaseWords
      BY <3>2 DEF LeaseWork, LeaseWords
    <3>3. QED
      BY <1>3, <3>1, <3>2 DEF Elsewhere
  <2>4. QED
    BY <1>1, <2>2, <2>3 DEF LeasesInv, LeaseRows
<1>4. QED
  BY <1>2, <1>3, LeasesElsewhere DEF LeasesInv, Common

LEMMA LeasesAlways == Spec => []LeasesInv
<1>1. Init => LeasesInv
  BY LeasesStart
<1>2. LeasesInv /\ [Next]_vars => LeasesInv'
  BY LeasesKept
<1>3. QED
  BY <1>1, <1>2, PTL DEF Spec

\* The rent of a lease is what its last amendment says unless a patch set it,
\* and the duration that create and update compute stays that between the
\* dates, through any interleaving; when requests come one after the other,
\* each run of the indexation cron starts from the rent before it.
THEOREM HistoryAlwaysKept == Spec => []LeaseHistory
<1>1. ASSUME LeasesInv
      PROVE  LeaseHistory
  <2>1. \A l \in Signed : ~Patching({"montantMensuel"}) /\ AmendmentsOf(l) # {} =>
            leases[l].montantMensuel = amendments[LatestOf(AmendmentsOf(l))].nouveauMontant
    BY <1>1 DEF LeasesInv, RentFollows, Signed
  <2>2. Serial /\ ~Patching({"montantMensuel"}) => \A i \in Indexations : BasedOnRent(i)
    BY <1>1 DEF LeasesInv, BaseFollows
  <2>3. DatesTogether => \A l \in Signed : Spans(leases[l])
    BY <1>1 DEF LeasesInv, TermsAgree
  <2>4. QED
    BY <2>1, <2>2, <2>3 DEF LeaseHistory, Spans
<1>2. QED
  BY <1>1, LeasesAlways, PTL

\* Trips, fuel supplies, repairs, demands and leases are numbered without a
\* gap through concurrent creations and their retries, and, when uploads come
\* one after the other, so are the versions of the budget tables.
THEOREM NumbersAlwaysDense == Spec => []NumbersDense
<1>1. ASSUME TicketsInv, LeasesInv, TablesInv
      PROVE  NumbersDense
  <2>1. \A family \in {Trips, FuelSupplies, Repairs, Demands} :
            Dense(NumbersOf(family), Cardinality(Filed(family)))
    BY <1>1 DEF TicketsInv, FamiliesDense, Families, Dense
  <2>2. Dense({leases[l].number : l \in Signed}, Cardinality(Signed))
    BY <1>1 DEF LeasesInv, LeaseNumbersDense, Dense
  <2>3. Serial => Dense(Versions, Len(tables))
    BY <1>1 DEF TablesInv, OneInForce, Dense
  <2>4. QED
    BY <2>1, <2>2, <2>3 DEF NumbersDense
<1>2. QED
  BY <1>1, TicketsAlways, LeasesAlways, TablesAlways, PTL

-----------------------------------------------------------------------------
(* The sessions.                                                           *)

\* Requests come one after the other and none is cut short.
Calm == Serial /\ {"die", "optimize"} \cap scene.endpoints = {}

AccountWork(r) ==
    LET w == req[r]
    IN  /\ w.do \in AccountWords \ {"revokeToken"} => w.user \in Users
        /\ w.do = "storeToken" =>
            /\ w.replaces \in Nat /\ w.password \in Nat \ {0}
            /\ w.replaces # 0 => /\ w.replaces \in DOMAIN tokens
                                 /\ w.session \in Nat \ {0} /\ w.session <= Len(tokens)
        /\ w.do = "revokeToken" => w.token \in DOMAIN tokens
        /\ w.do = "writeActive" => w.isActive \in BOOLEAN

TokensSound ==
    \A i \in DOMAIN tokens : tokens[i] # None =>
        Exists(tokens[i].user) /\ tokens[i].session <= Len(tokens)

\* Two tokens of a session can be exchanged only until the one that was is
\* revoked, one of a former password only until the user's tokens are; and
\* what is about to be stored takes the place of the only one of its session.
Revoking(r, i) == req[r].do = "revokeToken" /\ req[r].token = i
Closing(r, u) == req[r].do \in {"revokeTokens", "deleteTokens"} /\ req[r].user = u

OnePerSession ==
    \A u \in Users : \A i, j \in Live(u) :
        tokens[i].session = tokens[j].session /\ i # j =>
            \E r \in Requests : Revoking(r, i) \/ Revoking(r, j)

PasswordCurrent ==
    \A u \in Users : \A i \in Live(u) :
        tokens[i].password # users[u].password => \E r \in Requests : Closing(r, u)

StoresInPlace(r) ==
    req[r].do = "storeToken" =>
        /\ Exists(req[r].user) => req[r].password = users[req[r].user].password
        /\ req[r].replaces # 0 => \A j \in Live(req[r].user) :
            tokens[j].session = req[r].session => j = req[r].replaces

SessionsCalm == OnePerSession /\ PasswordCurrent /\ \A r \in Requests : StoresInPlace(r)

SessionsInv ==
    /\ Common /\ AccountsType /\ TokensSound
    /\ \A r \in Requests : AccountWork(r)
    /\ Calm => SessionsCalm

\* A request that moves was idle, or had work of the part that moves it.
Takes(r, words) == req' = req \/ req[r] = Idle \/ req[r].do \in words

LEMMA BudgetTakes ==
    ASSUME NEW r \in Requests, BudgetNext(r)
    PROVE  Takes(r, BudgetWords)
BY DEF BudgetNext, Takes, BudgetWords, Upload, NumberTable, InsertTable, Activate, Deactivate,
       ActivateInTransaction, Free

LEMMA NumbersTake ==
    ASSUME NEW r \in Requests, CountPurchases(r) \/ InsertPurchase(r) \/ NumbersNext(r)
    PROVE  Takes(r, NumbersWords)
BY DEF NumbersNext, Takes, NumbersWords, CountPurchases, InsertPurchase, CreatePurchase,
       DeleteDraft, Free

LEMMA TicketsTake ==
    ASSUME NEW r \in Requests, TicketsNext(r)
    PROVE  Takes(r, NumbersWords) \/ Takes(r, TicketWords)
<1>1. CASE InsertTicket(r) \/ RefuseTicket(r) \/ NumberAgain(r) \/ ApplyChange(r)
  BY <1>1 DEF InsertTicket, RefuseTicket, NumberAgain, ApplyChange, Takes, TicketWords
<1>2. CASE \E t \in Origins : Trigger(r, t)
  BY <1>2 DEF Trigger, Free, Takes
<1>3. ASSUME NEW t, \/ FileTicket(r, t) \/ GiveStatus(r, t) \/ SoftDelete(r, t)
                    \/ DeleteFiler(r, t) \/ CancelJourney(r, t)
      PROVE  Takes(r, TicketWords)
  BY <1>3 DEF FileTicket, GiveStatus, SoftDelete, DeleteFiler, CancelJourney, TicketCalled, Free,
              Takes
<1>4. QED
  BY <1>1, <1>2, <1>3, NumbersTake, TicketsAssumption
     DEF TicketsNext, CreateTrip, CreateFuelSupply, CreateRepair, CreateDemand, UpdateTripStatus,
         UpdateFuelStatus, UpdateRepairStatus, UpdateDemandStatus, CancelTrip,
         CancelFuelSupply, TriggerForRepair, TriggerForDemand

LEMMA StockTakes ==
    ASSUME NEW r \in Requests, StockNext(r)
    PROVE  Takes(r, StockWords)
BY DEF StockNext, Takes, StockWords, CreateAsset, UpdateAsset, ArchiveAsset, Attribute, Return,
       StockCalled, TriggerForAsset, WriteStock, Free

LEMMA FilesTake ==
    ASSUME NEW r \in Requests, FilesNext(r), ~\E f \in optimizing : UnhandledRejection(f)
    PROVE  Takes(r, FileWords)
<1>1. CASE \/ FindFile(r) \/ CreateFile(r) \/ DeleteFile(r) \/ InsertSpecimen(r)
           \/ DeactivateSpecimens(r) \/ ActivateOne(r) \/ DeleteSpecimen(r)
           \/ AppendPhoto(r) \/ ReadPhotos(r) \/ WritePhotos(r) \/ CountReferences(r)
           \/ Supersede(r) \/ InsertDocument(r)
  BY <1>1 DEF FindFile, CreateFile, DeleteFile, InsertSpecimen, DeactivateSpecimens, ActivateOne,
              DeleteSpecimen, AppendPhoto, ReadPhotos, WritePhotos, CountReferences, Supersede,
              InsertDocument, Takes, FileWords
<1>2. ASSUME NEW v, \/ UploadSpecimen(r) \/ ActivateSpecimen(r) \/ RemoveSpecimen(r)
                    \/ ArchiveVehicle(r, v) \/ UploadPhoto(r, v) \/ DeletePhoto(r, v)
                    \/ UploadDocument(r, v)
      PROVE  Takes(r, FileWords)
  BY <1>2 DEF UploadSpecimen, ActivateSpecimen, RemoveSpecimen, ArchiveVehicle, UploadPhoto,
              DeletePhoto, UploadDocument, FileCalled, Free, Takes
<1>3. QED
  BY <1>1, <1>2 DEF FilesNext, Optimize, Takes

LEMMA SigningTakes ==
    ASSUME SigningNext, ~Die
    PROVE  \/ req' = req
           \/ \E r \in Requests : Takes(r, SigningWords)
                                  /\ \A q \in Requests \ {r} : req'[q] = req[q]
<1>1. ASSUME NEW r \in Requests, NEW w, Await(r, w)
      PROVE  \A q \in Requests \ {r} : req'[q] = req[q]
  BY <1>1 DEF Await
<1>2. ASSUME NEW r \in Requests,
             (\E p : SignStep(r, p)) \/ MarkPending(r) \/ Enqueue(r) \/ WriteJobId(r)
      PROVE  Takes(r, SigningWords) /\ \A q \in Requests \ {r} : req'[q] = req[q]
  BY <1>1, <1>2 DEF SignStep, MarkPending, Enqueue, WriteJobId, Free, Takes, SigningWords, Done
<1>3. QED
  BY <1>2 DEF SigningNext, WorkerStep

LEMMA LeasesTake ==
    ASSUME NEW r \in Requests, LeasesNext(r)
    PROVE  Takes(r, LeaseWords)
BY DEF LeasesNext, Takes, LeaseWords, CreateLease, UpdateLease, ArchiveLease, AddAmendment,
       AddPayment, LeaseCalled, Free, InsertLease, WriteLease, WriteAmendment, InsertPayment,
       NextMonth, RunIndexation, IndexLease, IndexFails, IndexationEnds

LEMMA PvTakes ==
    ASSUME NEW r \in Requests, PvNext(r)
    PROVE  Takes(r, PvWords)
<1>1. CASE \/ CreatePv(r) \/ UpdatePv(r) \/ AddSupplierItems(r) \/ SelectSupplierItems(r)
           \/ SubmitPv(r) \/ Validate(r) \/ Reject(r) \/ RequestChanges(r)
           \/ Publish(r) \/ UpdateAndRepublish(r) \/ ValidateDerogation(r) \/ UploadBC(r)
  BY <1>1, PvCallsAwait DEF Takes
<1>2. CASE \/ InsertPv(r) \/ DeleteSuppliers(r) \/ CreateSuppliers(r) \/ DeleteItems(r)
           \/ CreateItem(r) \/ ItemsEnd(r) \/ Deselect(r) \/ Select(r)
           \/ RequirePv(r) \/ CreateFlow(r) \/ UpdatePurchase(r)
  BY <1>2 DEF InsertPv, DeleteSuppliers, CreateSuppliers, DeleteItems, CreateItem, ItemsEnd,
              Deselect, Select, RequirePv, CreateFlow, UpdatePurchase, Writing, Takes, PvWords
<1>3. QED
  BY <1>1, <1>2 DEF PvNext, PvEdits, PvLifecycle

LEMMA ReportsTake ==
    ASSUME NEW r \in Requests, ReportsNext(r)
    PROVE  Takes(r, ReportWords)
BY DEF ReportsNext, Takes, ReportWords, AskReport, AnswerReport, Free

LEMMA SessionsElsewhere ==
    ASSUME Common, [Next]_vars
    PROVE  \/ \E r \in Requests : AccountsNext(r) \/ DeleteUserRow(r)
           \/ /\ UNCHANGED accountVars /\ Elsewhere(AccountWords)
              /\ Calm => \A q \in Requests : req'[q] = req[q] \/ req[q].do \notin AccountWords
<1> DEFINE Untouched == \A q \in Requests : req'[q] = req[q] \/ req[q].do \notin AccountWords
<1>0. KnownWork
  BY DEF Common
<1>1. CASE UNCHANGED vars
  BY <1>1 DEF vars, accountVars, Elsewhere
<1>2. ASSUME NEW words \in {BudgetWords, NumbersWords, TicketWords, StockWords, FileWords,
                            SigningWords, LeaseWords, PvWords, ReportWords}
      PROVE  /\ Leaves(words) => Elsewhere(AccountWords)
             /\ \A r \in Requests :
                    Takes(r, words) /\ (\A q \in Requests \ {r} : req'[q] = req[q]) => Untouched
  <2>1. words \cap AccountWords = {} /\ "idle" \notin AccountWords
    BY DEF BudgetWords, NumbersWords, TicketWords, StockWords, AccountWords, FileWords,
           SigningWords, LeaseWords, PvWords, ReportWords
  <2>2. QED
    BY <2>1, LeavesElsewhere DEF Takes, Idle
<1>3. CASE SigningStep
  <2>1. UNCHANGED accountVars /\ Elsewhere(AccountWords)
    BY <1>0, <1>2, <1>3, SigningLeaves DEF SigningStep
  <2>2. Calm => Untouched
    BY <1>2, <1>3, SigningTakes DEF SigningStep, Calm, Die
  <2>3. QED
    BY <2>1, <2>2
<1>4. ASSUME NEW r \in Requests, BudgetStep(r) \/ TicketsStep(r) \/ StockStep(r)
      PROVE  UNCHANGED accountVars /\ Elsewhere(AccountWords) /\ Untouched
  <2>1. UNCHANGED accountVars /\ Elsewhere(AccountWords)
    BY <1>0, <1>2, <1>4, BudgetLeaves, TicketsLeave, StockLeaves, NumbersLeave
       DEF BudgetStep, TicketsStep, StockStep
  <2>2. ByOne(r)
    BY <1>0, <1>4, BudgetByOne, TicketsByOne, StockByOne DEF BudgetStep, TicketsStep, StockStep
  <2>3. Untouched
    BY <1>2, <1>4, <2>2, BudgetTakes, TicketsTake, StockTakes
       DEF BudgetStep, TicketsStep, StockStep, ByOne
  <2>4. QED
    BY <2>1, <2>3
<1>5. ASSUME NEW r \in Requests, AccountsStep(r), ~(AccountsNext(r) \/ DeleteUserRow(r))
      PROVE  UNCHANGED accountVars /\ Elsewhere(AccountWords) /\ (Calm => Untouched)
  <2>1. FilesNext(r) /\ UNCHANGED accountVars
    BY <1>5 DEF AccountsStep, DeleteUserAndFiles
  <2>2. Elsewhere(AccountWords)
    BY <1>0, <1>2, <2>1, FilesLeave
  <2>3. ASSUME Calm
        PROVE  Untouched
    <3>1. ~\E f \in optimizing : UnhandledRejection(f)
      BY <2>3 DEF Calm, UnhandledRejection
    <3>2. QED
      BY <1>0, <1>2, <2>1, <3>1, FilesTake, FilesByOne DEF ByOne
  <2>4. QED
    BY <2>1, <2>2, <2>3
<1>6. ASSUME NEW r \in Requests, LeasesStep(r) \/ PvStep(r) \/ OtherStep(r)
      PROVE  UNCHANGED accountVars /\ Elsewhere(AccountWords) /\ (Calm => Untouched)
  <2>1. UNCHANGED accountVars /\ Elsewhere(AccountWords)
    BY <1>0, <1>2, <1>6, LeasesLeave, PvLeaves, OtherLeaves DEF LeasesStep, PvStep, OtherStep
  <2>2. ByOne(r)
    BY <1>0, <1>6, LeasesByOne, PvByOne, OtherByOne DEF LeasesStep, PvStep, OtherStep
  <2>3. Calm => Untouched
    BY <1>2, <1>6, <2>2, LeasesTake, PvTakes, ReportsTake
       DEF LeasesStep, PvStep, OtherStep, ByOne, Calm, Serial
  <2>4. QED
    BY <2>1, <2>3
<1>7. QED
  BY <1>1, <1>3, <1>4, <1>5, <1>6 DEF Next

LEMMA SessionsStart ==
    ASSUME Init
    PROVE  SessionsInv
<1>1. Common /\ \A r \in Requests : req[r] = Idle
  BY StartCommon, StartKnown
<1>2. users = [u \in Users |-> None] /\ tokens = << >>
  BY DEF Init, AccountsInit
<1>3. AccountsType /\ TokensSound /\ \A u : Live(u) = {}
  BY <1>2 DEF AccountsType, TokensSound, Live, TokensOf
<1>4. \A r \in Requests : AccountWork(r) /\ StoresInPlace(r)
  BY <1>1 DEF AccountWork, StoresInPlace, Idle, AccountWords
<1>5. SessionsCalm
  BY <1>3, <1>4 DEF SessionsCalm, OnePerSession, PasswordCurrent
<1>6. QED
  BY <1>1, <1>3, <1>4, <1>5 DEF SessionsInv

\* What the calm requires, when r is the one at work.
SessionsAt(r) ==
    /\ \A u \in Users : \A i, j \in Live(u) :
        tokens[i].session = tokens[j].session /\ i # j => Revoking(r, i) \/ Revoking(r, j)
    /\ \A u \in Users : \A i \in Live(u) :
        tokens[i].password # users[u].password => Closing(r, u)
    /\ StoresInPlace(r)

LEMMA SessionsNow ==
    ASSUME SessionsInv, Calm, NEW r \in Requests, req[r] # Idle \/ r \in scene.requests
    PROVE  SessionsAt(r)
<1>1. \A q \in Requests \ {r} : req[q] = Idle
  BY SerialAlone DEF SessionsInv, Calm
<1>2. \A q \in Requests : (\E i : Revoking(q, i)) \/ (\E u : Closing(q, u)) => q = r
  BY <1>1 DEF Revoking, Closing, Idle
<1>3. SessionsCalm
  BY DEF SessionsInv
<1>4. ASSUME NEW u \in Users, NEW i \in Live(u), NEW j \in Live(u),
             tokens[i].session = tokens[j].session, i # j
      PROVE  Revoking(r, i) \/ Revoking(r, j)
  BY <1>2, <1>3, <1>4 DEF SessionsCalm, OnePerSession
<1>5. ASSUME NEW u \in Users, NEW i \in Live(u), tokens[i].password # users[u].password
      PROVE  Closing(r, u)
  BY <1>2, <1>3, <1>5 DEF SessionsCalm, PasswordCurrent
<1>6. QED
  BY <1>3, <1>4, <1>5 DEF SessionsAt, SessionsCalm

LEMMA SessionsLater ==
    ASSUME SessionsInv, Common', scene' = scene, NEW r \in Requests,
           req[r] # Idle \/ r \in scene.requests,
           \A q \in Requests \ {r} : req'[q] = req[q],
           AccountsType', TokensSound', AccountWork(r)', Len(tokens') >= Len(tokens),
           Calm => SessionsAt(r)'
    PROVE  SessionsInv'
<1>1. Calm' <=> Calm
  BY DEF Calm, Serial
<1>2. ASSUME NEW q \in Requests, q # r
      PROVE  AccountWork(q)'
  <2>1. AccountWork(q) /\ req'[q] = req[q]
    BY <1>2 DEF SessionsInv
  <2>2. DOMAIN tokens \subseteq DOMAIN tokens' /\ Len(tokens) \in Nat /\ Len(tokens') \in Nat
    BY DEF SessionsInv, AccountsType
  <2>3. \A n \in Nat : n <= Len(tokens) => n <= Len(tokens')
    BY <2>2
  <2>4. QED
    BY <2>1, <2>2, <2>3 DEF AccountWork
<1>3. ASSUME Calm
      PROVE  SessionsCalm'
  <2>1. \A q \in Requests \ {r} : req'[q] = Idle
    BY <1>3, SerialAlone DEF SessionsInv, Calm
  <2>2. \A q \in Requests \ {r} : StoresInPlace(q)'
    BY <2>1 DEF StoresInPlace, Idle
  <2>3. SessionsAt(r)'
    BY <1>3
  <2>4. OnePerSession'
    BY <2>3 DEF SessionsAt, OnePerSession
  <2>5. PasswordCurrent'
    BY <2>3 DEF SessionsAt, PasswordCurrent
  <2>6. QED
    BY <2>2, <2>3, <2>4, <2>5 DEF SessionsAt, SessionsCalm
<1>4. QED
  BY <1>1, <1>2, <1>3 DEF SessionsInv

\* The handlers that only read.
LEMMA SessionsRead ==
    ASSUME SessionsInv, Common', scene' = scene, NEW r \in Requests,
           req[r] = Idle, r \in scene.requests, UNCHANGED << users, tokens >>,
           \A q \in Requests \ {r} : req'[q] = req[q],
           AccountWork(r)', Calm => StoresInPlace(r)'
    PROVE  SessionsInv'
<1>1. AccountsType' /\ TokensSound' /\ Len(tokens') >= Len(tokens)
  BY DEF SessionsInv, AccountsType, TokensSound, Exists
<1>2. ASSUME Calm
      PROVE  SessionsAt(r)'
  <2>1. SessionsAt(r)
    BY <1>2, SessionsNow
  <2>2. \A i : ~Revoking(r, i) /\ ~Closing(r, i)
    BY DEF Revoking, Closing, Idle
  <2>3. \A u : Live(u)' = Live(u)
    BY DEF Live, TokensOf
  <2>4. QED
    BY <1>2, <2>1, <2>2, <2>3 DEF SessionsAt
<1>3. QED
  BY <1>1, <1>2, SessionsLater

LEMMA LoginKeeps ==
    ASSUME SessionsInv, Common', scene' = scene, NEW r \in Requests, NEW u \in Users, Login(r, u)
    PROVE  SessionsInv'
<1> DEFINE w == [do |-> "storeToken", user |-> u, replaces |-> 0, password |-> users[u].password]
<1>1. /\ UNCHANGED << users, tokens >> /\ r \in scene.requests /\ req[r] = Idle
      /\ Await(r, w) /\ users[u] # None
  BY DEF Login, AccountCalled, Free, IsActive, Exists
<1>2. req'[r] = w /\ \A q \in Requests \ {r} : req'[q] = req[q]
  BY <1>1 DEF Await, SessionsInv, Common, KnownWork
<1>3. users[u].password \in Nat \ {0}
  BY <1>1 DEF SessionsInv, AccountsType, UserRow
<1>4. AccountWork(r)'
  BY <1>2, <1>3 DEF AccountWork, AccountWords
<1>5. StoresInPlace(r)'
  BY <1>1, <1>2 DEF StoresInPlace
<1>6. QED
  BY <1>1, <1>2, <1>4, <1>5, SessionsRead

LEMMA RefreshKeeps ==
    ASSUME SessionsInv, Common', scene' = scene, NEW r \in Requests, NEW u \in Users, Refresh(r, u)
    PROVE  SessionsInv'
<1>1. PICK i \in Live(u) :
        Await(r, [do |-> "storeToken", user |-> u, replaces |-> i,
                  session |-> tokens[i].session, password |-> tokens[i].password])
  BY DEF Refresh
<1>2. UNCHANGED << users, tokens >> /\ r \in scene.requests /\ req[r] = Idle
  BY DEF Refresh, AccountCalled, Free
<1>3. /\ req'[r] = [do |-> "storeToken", user |-> u, replaces |-> i,
                    session |-> tokens[i].session, password |-> tokens[i].password]
      /\ \A q \in Requests \ {r} : req'[q] = req[q]
  BY <1>1 DEF Await, SessionsInv, Common, KnownWork
<1>4. i \in DOMAIN tokens /\ tokens[i] \in Token /\ i \in Nat /\ tokens[i].session <= Len(tokens)
  BY DEF Live, TokensOf, SessionsInv, AccountsType, TokensSound
<1>5. AccountWork(r)'
  BY <1>2, <1>3, <1>4 DEF AccountWork, AccountWords, Token
<1>6. ASSUME Calm
      PROVE  StoresInPlace(r)'
  <2>1. SessionsAt(r)
    BY <1>2, <1>6, SessionsNow
  <2>2. \A j : ~Revoking(r, j) /\ ~Closing(r, j)
    BY <1>2 DEF Revoking, Closing, Idle
  <2>3. tokens[i].password = users[u].password
    BY <2>1, <2>2 DEF SessionsAt
  <2>4. \A j \in Live(u) : tokens[j].session = tokens[i].session => j = i
    BY <2>1, <2>2 DEF SessionsAt
  <2>5. Live(u)' = Live(u)
    BY <1>2 DEF Live, TokensOf
  <2>6. QED
    BY <1>2, <1>3, <2>3, <2>4, <2>5 DEF StoresInPlace
<1>7. QED
  BY <1>2, <1>3, <1>5, <1>6, SessionsRead

LEMMA OtherCallsKeep ==
    ASSUME SessionsInv, Common', scene' = scene, NEW r \in Requests, NEW u \in Users,
           CreateUser(r, u) \/ Logout(r, u) \/ ChangePassword(r, u) \/ ToggleActive(r, u)
           \/ RemoveUser(r, u)
    PROVE  SessionsInv'
<1>1. UNCHANGED << users, tokens >> /\ r \in scene.requests /\ req[r] = Idle
  BY DEF CreateUser, Logout, ChangePassword, ToggleActive, RemoveUser, AccountCalled, Free
<1>2. ASSUME NEW w, Await(r, w)
      PROVE  req'[r] = w /\ \A q \in Requests \ {r} : req'[q] = req[q]
  BY <1>2 DEF Await, SessionsInv, Common, KnownWork
<1>3. ASSUME NEW w, Await(r, w), w.do \in AccountWords \ {"storeToken"},
             w.do = "revokeToken" => w.token \in DOMAIN tokens,
             w.do # "revokeToken" => w.user \in Users,
             w.do = "writeActive" => w.isActive \in BOOLEAN
      PROVE  SessionsInv'
  <2>1. AccountWork(r)'
    BY <1>1, <1>2, <1>3 DEF AccountWork
  <2>2. StoresInPlace(r)'
    BY <1>2, <1>3 DEF StoresInPlace
  <2>3. QED
    BY <1>1, <1>2, <1>3, <2>1, <2>2, SessionsRead
<1>4. CASE Logout(r, u)
  <2>1. PICK i \in TokensOf(u) : Await(r, [do |-> "revokeToken", token |-> i])
    BY <1>4 DEF Logout
  <2>2. QED
    BY <1>3, <2>1 DEF TokensOf, AccountWords
<1>5. CASE ChangePassword(r, u)
  <2>1. PICK after : Await(r, [do |-> "writePassword", user |-> u, after |-> after])
    BY <1>5 DEF ChangePassword
  <2>2. QED
    BY <1>3, <2>1 DEF AccountWords
<1>6. CASE ToggleActive(r, u)
  <2>1. Await(r, [do |-> "writeActive", user |-> u, isActive |-> ~users[u].isActive])
    BY <1>6 DEF ToggleActive
  <2>2. QED
    BY <1>3, <2>1 DEF AccountWords
<1>7. CASE CreateUser(r, u) \/ RemoveUser(r, u)
  BY <1>3, <1>7 DEF CreateUser, RemoveUser, AccountWords
<1>8. QED
  BY <1>4, <1>5, <1>6, <1>7

\* Tokens are only revoked, deleted or expire.
Falls ==
    /\ tokens' \in Seq(Token \cup {None}) /\ DOMAIN tokens' = DOMAIN tokens
    /\ Len(tokens') = Len(tokens)
    /\ \A i \in DOMAIN tokens : tokens'[i] # None =>
        /\ tokens[i] # None
        /\ tokens'[i].user = tokens[i].user /\ tokens'[i].session = tokens[i].session
        /\ tokens'[i].password = tokens[i].password
        /\ tokens[i].revoked => tokens'[i].revoked
        /\ tokens[i].expired => tokens'[i].expired

LEMMA FallsKeep ==
    ASSUME SessionsInv, Falls, \A u \in Users : Exists(u) => Exists(u)' \/ TokensOf(u)' = {}
    PROVE  /\ TokensSound'
           /\ \A u : Live(u)' \subseteq Live(u)
           /\ \A u : \A i \in Live(u)' : /\ tokens'[i].session = tokens[i].session
                                         /\ tokens'[i].password = tokens[i].password
<1>1. ASSUME NEW i \in DOMAIN tokens', tokens'[i] # None
      PROVE  users'[tokens'[i].user] # None /\ tokens'[i].session <= Len(tokens')
  <2>1. /\ tokens[i] # None /\ tokens'[i].user = tokens[i].user
        /\ tokens'[i].session = tokens[i].session /\ i \in DOMAIN tokens
        /\ Len(tokens') = Len(tokens)
    BY <1>1 DEF Falls
  <2>2. Exists(tokens[i].user) /\ tokens[i].session <= Len(tokens)
    BY <2>1 DEF SessionsInv, TokensSound
  <2>3. tokens[i].user \in Users
    BY <2>1 DEF SessionsInv, AccountsType, Token
  <2>4. PICK u \in Users : u = tokens[i].user
    BY <2>3
  <2>5. i \in TokensOf(u)'
    BY <1>1, <2>1, <2>4 DEF TokensOf
  <2>6. Exists(u)'
    BY <2>2, <2>4, <2>5
  <2>7. users'[u] # None
    BY <2>6 DEF Exists
  <2>8. QED
    BY <2>1, <2>2, <2>4, <2>7
<1>2. TokensSound'
  BY <1>1 DEF TokensSound, Exists
<1>3. QED
  BY <1>2 DEF Falls, Live, TokensOf

LEMMA RevokeFalls ==
    ASSUME SessionsInv, NEW u, RevokeAll(u)
    PROVE  Falls /\ Live(u)' = {} /\ \A v : v # u => Live(v)' = Live(v)
<1>1. tokens \in Seq(Token \cup {None})
  BY DEF SessionsInv, AccountsType
<1>2. \A i \in DOMAIN tokens :
        /\ tokens'[i] = IF i \in TokensOf(u) THEN [tokens[i] EXCEPT !.revoked = TRUE]
                        ELSE tokens[i]
        /\ i \in TokensOf(u) => tokens[i] \in Token
        /\ tokens[i] \in Token \cup {None}
  <2>1. ASSUME NEW i \in DOMAIN tokens
        PROVE  /\ tokens'[i] = IF i \in TokensOf(u) THEN [tokens[i] EXCEPT !.revoked = TRUE]
                               ELSE tokens[i]
               /\ i \in TokensOf(u) => tokens[i] \in Token
               /\ tokens[i] \in Token \cup {None}
    BY <1>1 DEF RevokeAll, TokensOf
  <2>2. QED
    BY <2>1
<1>3. DOMAIN tokens' = DOMAIN tokens /\ tokens' \in Seq(Token \cup {None})
      /\ Len(tokens') = Len(tokens)
  <2>1. tokens' = [i \in 1 .. Len(tokens) |-> tokens'[i]]
    BY <1>1 DEF RevokeAll
  <2>2. ASSUME NEW i \in 1 .. Len(tokens)
        PROVE  tokens'[i] \in Token \cup {None}
    <3>1. \A token \in Token : [token EXCEPT !.revoked = TRUE] \in Token
      BY DEF Token
    <3>2. i \in DOMAIN tokens
      BY <1>1
    <3>3. CASE i \in TokensOf(u)
      <4>1. tokens'[i] = [tokens[i] EXCEPT !.revoked = TRUE] /\ tokens[i] \in Token
        BY <1>2, <3>2, <3>3
      <4>2. QED
        BY <3>1, <4>1
    <3>4. CASE i \notin TokensOf(u)
      <4>1. tokens'[i] = tokens[i] /\ tokens[i] \in Token \cup {None}
        BY <1>2, <3>2, <3>4
      <4>2. QED
        BY <4>1
    <3>5. QED
      BY <3>3, <3>4
  <2>3. QED
    BY <1>1, <2>1, <2>2
<1>4. Falls
  <2>1. ASSUME NEW i \in DOMAIN tokens, tokens'[i] # None
        PROVE  /\ tokens[i] # None
               /\ tokens'[i].user = tokens[i].user /\ tokens'[i].session = tokens[i].session
               /\ tokens'[i].password = tokens[i].password
               /\ tokens[i].revoked => tokens'[i].revoked
               /\ tokens[i].expired => tokens'[i].expired
    <3>1. CASE i \in TokensOf(u)
      BY <1>2, <3>1 DEF Token, TokensOf
    <3>2. CASE i \notin TokensOf(u)
      BY <1>2, <2>1, <3>2
    <3>3. QED
      BY <3>1, <3>2
  <2>2. QED
    BY <1>3, <2>1 DEF Falls
<1>5. Live(u)' = {}
  BY <1>2, <1>3, <1>4 DEF Live, TokensOf, Falls, Token
<1>6. \A v : v # u => Live(v)' = Live(v)
  BY <1>2, <1>3, <1>4 DEF Live, TokensOf, Falls
<1>7. QED
  BY <1>4, <1>5, <1>6

LEMMA DeleteFalls ==
    ASSUME SessionsInv, NEW u, DeleteAll(u)
    PROVE  Falls /\ TokensOf(u)' = {} /\ Live(u)' = {} /\ \A v : v # u => Live(v)' = Live(v)
<1>1. tokens \in Seq(Token \cup {None})
  BY DEF SessionsInv, AccountsType
<1>2. \A i \in DOMAIN tokens :
        /\ tokens'[i] = IF i \in TokensOf(u) THEN None ELSE tokens[i]
        /\ tokens'[i] \in Token \cup {None}
  BY <1>1 DEF DeleteAll
<1>3. DOMAIN tokens' = DOMAIN tokens /\ tokens' \in Seq(Token \cup {None})
      /\ Len(tokens') = Len(tokens)
  <2>1. tokens' = [i \in 1 .. Len(tokens) |-> tokens'[i]]
    BY <1>1 DEF DeleteAll
  <2>2. QED
    BY <1>1, <1>2, <2>1
<1>4. Falls
  BY <1>2, <1>3 DEF Falls
<1>5. TokensOf(u)' = {} /\ Live(u)' = {}
  BY <1>2, <1>3 DEF Live, TokensOf
<1>6. \A v : v # u => Live(v)' = Live(v)
  BY <1>2, <1>3 DEF Live, TokensOf
<1>7. QED
  BY <1>4, <1>5, <1>6

\* Once tokens fall, what is left was right, or its exception is over.
LEMMA SessionsFall ==
    ASSUME SessionsInv, Common', scene' = scene, NEW r \in Requests,
           req[r] # Idle \/ r \in scene.requests,
           \A q \in Requests \ {r} : req'[q] = req[q],
           Falls, users' \in [Users -> UserRow \cup {None}],
           \A u \in Users : Exists(u) => Exists(u)' \/ TokensOf(u)' = {},
           \A u \in Users : Live(u)' # {} => users'[u].password = users[u].password,
           AccountWork(r)', Calm => StoresInPlace(r)',
           \A u \in Users : \A i \in Live(u)' : Revoking(r, i) => Revoking(r, i)',
           \A u \in Users : Live(u)' # {} /\ Closing(r, u) => Closing(r, u)'
    PROVE  SessionsInv'
<1>1. /\ TokensSound'
      /\ \A u : Live(u)' \subseteq Live(u)
      /\ \A u : \A i \in Live(u)' : /\ tokens'[i].session = tokens[i].session
                                    /\ tokens'[i].password = tokens[i].password
  BY FallsKeep
<1>2. AccountsType' /\ Len(tokens') >= Len(tokens)
  BY DEF Falls, AccountsType, SessionsInv
<1>3. ASSUME Calm
      PROVE  SessionsAt(r)'
  <2>1. SessionsAt(r)
    BY <1>3, SessionsNow
  <2>2. ASSUME NEW u \in Users, NEW i \in Live(u)', NEW j \in Live(u)',
               tokens'[i].session = tokens'[j].session, i # j
        PROVE  Revoking(r, i)' \/ Revoking(r, j)'
    <3>1. i \in Live(u) /\ j \in Live(u) /\ tokens[i].session = tokens[j].session
      BY <1>1, <2>2
    <3>2. Revoking(r, i) \/ Revoking(r, j)
      BY <2>1, <2>2, <3>1 DEF SessionsAt
    <3>3. QED
      BY <2>2, <3>2
  <2>3. ASSUME NEW u \in Users, NEW i \in Live(u)', tokens'[i].password # users'[u].password
        PROVE  Closing(r, u)'
    <3>1. i \in Live(u) /\ tokens[i].password # users[u].password
      BY <1>1, <2>3
    <3>2. Closing(r, u)
      BY <2>1, <3>1 DEF SessionsAt
    <3>3. QED
      BY <2>3, <3>2
  <2>4. StoresInPlace(r)'
    BY <1>3
  <2>5. QED
    BY <2>2, <2>3, <2>4 DEF SessionsAt
<1>4. QED
  BY <1>1, <1>2, <1>3, SessionsLater

LEMMA StoreTokenKeeps ==
    ASSUME SessionsInv, Common', scene' = scene, NEW r \in Requests, StoreToken(r)
    PROVE  SessionsInv'
<1>1. PICK u, pw, k, s :
        /\ u = req[r].user /\ pw = req[r].password /\ k = req[r].replaces
        /\ s = IF k = 0 THEN Len(tokens) + 1 ELSE req[r].session
  OBVIOUS
<1>2. /\ req[r].do = "storeToken" /\ UNCHANGED users
      /\ IF Exists(u)
         THEN /\ tokens' = Append(tokens, [user |-> u, session |-> s, password |-> pw,
                                           revoked |-> FALSE, expired |-> FALSE])
              /\ IF k = 0 THEN Done(r) ELSE Await(r, [do |-> "revokeToken", token |-> k])
         ELSE Done(r) /\ UNCHANGED tokens
  BY <1>1 DEF StoreToken
<1>3. /\ u \in Users /\ k \in Nat /\ pw \in Nat \ {0}
      /\ k # 0 => k \in DOMAIN tokens /\ s \in Nat \ {0} /\ s <= Len(tokens)
  BY <1>1, <1>2 DEF SessionsInv, AccountWork, AccountWords
<1>4. tokens \in Seq(Token \cup {None}) /\ Len(tokens) \in Nat /\ users \in [Users -> UserRow \cup {None}]
  BY DEF SessionsInv, AccountsType
<1>5. req[r] # Idle
  BY <1>2 DEF Idle
<1>6. CASE ~Exists(u)
  <2>1. Done(r) /\ UNCHANGED tokens
    BY <1>2, <1>6
  <2>2. req'[r] = Idle /\ \A q \in Requests \ {r} : req'[q] = req[q]
    BY <2>1, DoneFrees DEF SessionsInv, Common
  <2>3. AccountWork(r)' /\ StoresInPlace(r)'
    BY <2>2 DEF AccountWork, AccountWords, StoresInPlace, Idle
  <2>4. \A v : ~Revoking(r, v) /\ ~Closing(r, v)
    BY <1>2 DEF Revoking, Closing
  <2>5. Falls
    BY <1>4, <2>1 DEF Falls
  <2>6. \A v : Exists(v)' = Exists(v)
    BY <1>2 DEF Exists
  <2>7. QED
    BY <1>2, <1>4, <1>5, <2>2, <2>3, <2>4, <2>5, <2>6, SessionsFall
<1>7. CASE Exists(u)
  <2>1. PICK n, new : /\ n = Len(tokens) + 1
                      /\ new = [user |-> u, session |-> s, password |-> pw,
                                revoked |-> FALSE, expired |-> FALSE]
    OBVIOUS
  <2>2. s \in Nat \ {0} /\ s <= n /\ new \in Token
    BY <1>1, <1>3, <1>4, <2>1 DEF Token
  <2>3. /\ tokens' \in Seq(Token \cup {None}) /\ Len(tokens') = n
        /\ DOMAIN tokens' = DOMAIN tokens \cup {n} /\ n \notin DOMAIN tokens
        /\ tokens'[n] = new /\ \A i \in DOMAIN tokens : tokens'[i] = tokens[i]
    <3>1. tokens' = Append(tokens, new)
      BY <1>2, <1>7, <2>1
    <3>2. new \in Token \cup {None}
      BY <2>2
    <3>3. QED
      BY <1>4, <2>1, <3>1, <3>2
  <2>4. new # None
    BY <2>2, NoTokenAssumption
  <2>5. /\ \A v : v # u => Live(v)' = Live(v)
        /\ Live(u)' = Live(u) \cup {n}
    BY <2>1, <2>3, <2>4 DEF Live, TokensOf
  <2>6. TokensSound'
    <3>1. ASSUME NEW i \in DOMAIN tokens, tokens[i] # None
          PROVE  users'[tokens[i].user] # None /\ tokens[i].session <= n
      <4>1. users[tokens[i].user] # None /\ tokens[i].session <= Len(tokens)
        BY <3>1 DEF SessionsInv, TokensSound, Exists
      <4>2. tokens[i].session \in Nat
        BY <1>4, <3>1 DEF Token
      <4>3. QED
        BY <1>2, <1>4, <2>1, <4>1, <4>2
    <3>2. new.session = s /\ users'[new.user] # None
      BY <1>2, <1>7, <2>1 DEF Exists
    <3>3. \A i \in DOMAIN tokens' : tokens'[i] # None =>
                users'[tokens'[i].user] # None /\ tokens'[i].session <= Len(tokens')
      BY <2>2, <2>3, <3>1, <3>2
    <3>4. QED
      BY <3>3 DEF TokensSound, Exists
  <2>7. AccountsType' /\ Len(tokens') >= Len(tokens)
    BY <1>2, <1>4, <2>1, <2>3 DEF AccountsType
  <2>8. /\ req'[r] = IF k = 0 THEN Idle ELSE [do |-> "revokeToken", token |-> k]
        /\ \A q \in Requests \ {r} : req'[q] = req[q]
    BY <1>2, <1>7 DEF Done, Await, SessionsInv, Common, KnownWork
  <2>9. AccountWork(r)'
    BY <1>3, <2>3, <2>8 DEF AccountWork, AccountWords, Idle
  <2>10. ASSUME Calm
         PROVE  SessionsAt(r)'
    <3>1. SessionsAt(r)
      BY <1>5, <2>10, SessionsNow
    <3>2. \A v : ~Revoking(r, v) /\ ~Closing(r, v)
      BY <1>2 DEF Revoking, Closing
    <3>3. /\ pw = users[u].password
          /\ k # 0 => \A j \in Live(u) : tokens[j].session = s => j = k
      BY <1>1, <1>2, <1>7, <3>1 DEF SessionsAt, StoresInPlace
    <3>4. ASSUME NEW j \in Live(u), tokens[j].session = s
          PROVE  k # 0 /\ j = k
      <4>1. tokens[j] \in Token /\ tokens[j].session <= Len(tokens)
        BY <1>4 DEF Live, TokensOf, SessionsInv, TokensSound
      <4>2. QED
        BY <1>1, <1>4, <3>3, <3>4, <4>1
    <3>5. \A v : \A i \in Live(v) : i \in DOMAIN tokens /\ i # n
      BY <2>3 DEF Live, TokensOf
    <3>6. k # 0 => Revoking(r, k)'
      BY <2>8 DEF Revoking
    <3>7. ASSUME NEW v \in Users, NEW i \in Live(v)', NEW j \in Live(v)',
                 tokens'[i].session = tokens'[j].session, i # j
          PROVE  Revoking(r, i)' \/ Revoking(r, j)'
      <4>1. CASE i \in Live(v) /\ j \in Live(v)
        BY <2>3, <3>1, <3>2, <3>5, <3>7, <4>1 DEF SessionsAt
      <4>2. CASE i = n
        BY <2>1, <2>3, <2>5, <3>4, <3>5, <3>6, <3>7, <4>2
      <4>3. CASE j = n
        BY <2>1, <2>3, <2>5, <3>4, <3>5, <3>6, <3>7, <4>3
      <4>4. QED
        BY <2>5, <4>1, <4>2, <4>3
    <3>8. \A v \in Users : \A i \in Live(v)' : tokens'[i].password = users'[v].password
      BY <1>2, <2>1, <2>3, <2>5, <3>1, <3>2, <3>3, <3>5 DEF SessionsAt
    <3>9. StoresInPlace(r)'
      BY <2>8 DEF StoresInPlace, Idle
    <3>10. QED
      BY <3>7, <3>8, <3>9 DEF SessionsAt
  <2>11. QED
    BY <1>5, <2>6, <2>7, <2>8, <2>9, <2>10, SessionsLater
<1>8. QED
  BY <1>6, <1>7

\* A deletion or revocation of one user's tokens, for which the request had
\* no other work on tokens than this.
LEMMA TokensGo ==
    ASSUME SessionsInv, Common', scene' = scene, NEW r \in Requests, NEW u \in Users,
           \/ req[r] = Idle /\ r \in scene.requests
           \/ req[r].do \in {"revokeTokens", "deleteTokens"} /\ req[r].user = u
           \/ req[r].do \in {"deleteTokensOf", "deleteUserRow"},
           RevokeAll(u) \/ DeleteAll(u), UNCHANGED users,
           \/ req' = req /\ req[r] = Idle
           \/ Done(r)
           \/ Await(r, [do |-> "deleteUserRow", user |-> u])
    PROVE  SessionsInv'
<1>1. Falls /\ Live(u)' = {}
  BY RevokeFalls, DeleteFalls
<1>2. /\ req'[r] = Idle \/ req'[r] = [do |-> "deleteUserRow", user |-> u]
      /\ \A q \in Requests \ {r} : req'[q] = req[q]
  BY DEF Done, Await, SessionsInv, Common, KnownWork
<1>3. AccountWork(r)' /\ StoresInPlace(r)'
  BY <1>2 DEF AccountWork, AccountWords, StoresInPlace, Idle
<1>4. \A i : ~Revoking(r, i)
  BY DEF Revoking, Idle
<1>5. \A v : Closing(r, v) => v = u
  BY DEF Closing, Idle
<1>6. req[r] # Idle \/ r \in scene.requests
  BY DEF Idle
<1>7. users' \in [Users -> UserRow \cup {None}] /\ \A v : Exists(v) => Exists(v)'
  BY DEF SessionsInv, AccountsType, Exists
<1>8. QED
  BY <1>1, <1>2, <1>3, <1>4, <1>5, <1>6, <1>7, SessionsFall

LEMMA UsersWriteKeeps ==
    ASSUME SessionsInv, Common', scene' = scene, NEW r \in Requests,
           InsertUser(r) \/ WriteActive(r) \/ WritePassword(r)
    PROVE  SessionsInv'
<1>1. PICK u : u = req[r].user
  OBVIOUS
<1>2. users \in [Users -> UserRow \cup {None}] /\ tokens \in Seq(Token \cup {None})
  BY DEF SessionsInv, AccountsType
<1>3. /\ u \in Users /\ UNCHANGED tokens /\ req[r] # Idle
      /\ \A v : ~Revoking(r, v) /\ ~Closing(r, v)
  BY <1>1 DEF InsertUser, WriteActive, WritePassword, SessionsInv, AccountWork, AccountWords,
              Idle, Revoking, Closing
<1>4. Falls /\ \A v : Live(v)' = Live(v)
  BY <1>2, <1>3 DEF Falls, Live, TokensOf
<1>5. CASE Done(r) /\ users' = users
  <2>1. req'[r] = Idle /\ \A q \in Requests \ {r} : req'[q] = req[q]
    BY <1>5, DoneFrees DEF SessionsInv, Common
  <2>2. AccountWork(r)' /\ StoresInPlace(r)'
    BY <2>1 DEF AccountWork, AccountWords, StoresInPlace, Idle
  <2>3. users' \in [Users -> UserRow \cup {None}] /\ \A v : Exists(v) => Exists(v)'
    BY <1>2, <1>5 DEF Exists
  <2>4. QED
    BY <1>3, <1>4, <1>5, <2>1, <2>2, <2>3, SessionsFall
<1>6. CASE InsertUser(r) /\ users' # users
  <2>1. ~Exists(u) /\ Done(r) /\ users' = [users EXCEPT ![u] = [password |-> 1, isActive |-> TRUE]]
    BY <1>1, <1>6 DEF InsertUser
  <2>2. req'[r] = Idle /\ \A q \in Requests \ {r} : req'[q] = req[q]
    BY <2>1, DoneFrees DEF SessionsInv, Common
  <2>3. AccountWork(r)' /\ StoresInPlace(r)'
    BY <2>2 DEF AccountWork, AccountWords, StoresInPlace, Idle
  <2>4. [password |-> 1, isActive |-> TRUE] \in UserRow
    BY DEF UserRow
  <2>5. users' \in [Users -> UserRow \cup {None}]
    BY <1>2, <2>1, <2>4
  <2>6. \A v \in Users : Exists(v) => Exists(v)' /\ users'[v] = users[v]
    BY <1>2, <2>1 DEF Exists
  <2>7. \A v \in Users : Live(v)' # {} => Exists(v)
    BY <1>4 DEF Live, TokensOf, SessionsInv, TokensSound
  <2>8. \A v \in Users : Live(v)' # {} => users'[v].password = users[v].password
    BY <2>6, <2>7
  <2>9. QED
    BY <1>3, <1>4, <2>2, <2>3, <2>5, <2>6, <2>8, SessionsFall
<1>7. CASE WriteActive(r) /\ users' # users
  <2>1. /\ Exists(u) /\ Done(r) /\ req[r].isActive \in BOOLEAN
        /\ users' = [users EXCEPT ![u].isActive = req[r].isActive]
    BY <1>1, <1>7 DEF WriteActive, SessionsInv, AccountWork
  <2>2. req'[r] = Idle /\ \A q \in Requests \ {r} : req'[q] = req[q]
    BY <2>1, DoneFrees DEF SessionsInv, Common
  <2>3. AccountWork(r)' /\ StoresInPlace(r)'
    BY <2>2 DEF AccountWork, AccountWords, StoresInPlace, Idle
  <2>4. users[u] \in UserRow
    BY <1>2, <1>3, <2>1 DEF Exists
  <2>5. users'[u] \in UserRow /\ users'[u].password = users[u].password
    BY <1>2, <1>3, <2>1, <2>4 DEF UserRow
  <2>6. \A v \in Users \ {u} : users'[v] = users[v]
    BY <1>2, <1>3, <2>1
  <2>7. users' \in [Users -> UserRow \cup {None}]
    BY <1>2, <1>3, <2>1, <2>5, <2>6
  <2>8. \A v \in Users : Exists(v) => Exists(v)'
    BY <2>5, <2>6, NoTokenAssumption DEF Exists
  <2>9. QED
    BY <1>3, <1>4, <2>2, <2>3, <2>5, <2>6, <2>7, <2>8, SessionsFall
<1>8. CASE WritePassword(r) /\ Exists(u)
  <2>1. PICK after \in {"revokeTokens", "deleteTokens"} : after = req[r].after
    BY <1>8 DEF WritePassword, SessionsInv, Common, KnownWork
  <2>2. /\ users' = [users EXCEPT ![u].password = @ + 1]
        /\ Await(r, [do |-> after, user |-> u])
    BY <1>1, <1>8, <2>1 DEF WritePassword
  <2>3. req'[r] = [do |-> after, user |-> u] /\ \A q \in Requests \ {r} : req'[q] = req[q]
    BY <2>2 DEF Await, SessionsInv, Common, KnownWork
  <2>4. AccountWork(r)' /\ StoresInPlace(r)' /\ Closing(r, u)'
    BY <1>3, <2>3 DEF AccountWork, AccountWords, StoresInPlace, Closing
  <2>5. users[u] \in UserRow
    BY <1>2, <1>3, <1>8 DEF Exists
  <2>6. users'[u] \in UserRow
    BY <1>2, <1>3, <2>2, <2>5 DEF UserRow
  <2>7. \A v \in Users \ {u} : users'[v] = users[v]
    BY <1>2, <1>3, <2>2
  <2>8. AccountsType'
    BY <1>2, <1>3, <2>2, <2>6, <2>7 DEF AccountsType
  <2>9. \A v \in Users : Exists(v) => Exists(v)'
    BY <2>6, <2>7, NoTokenAssumption DEF Exists
  <2>10. TokensSound' /\ Len(tokens') >= Len(tokens)
    BY <1>2, <1>3, <1>4, <2>9, FallsKeep
  <2>11. ASSUME Calm
         PROVE  SessionsAt(r)'
    <3>1. SessionsAt(r)
      BY <1>3, <2>11, SessionsNow
    <3>2. QED
      BY <1>3, <1>4, <2>4, <2>7, <3>1 DEF SessionsAt
  <2>12. QED
    BY <1>3, <2>3, <2>4, <2>8, <2>10, <2>11, SessionsLater
<1>9. QED
  BY <1>1, <1>5, <1>6, <1>7, <1>8 DEF InsertUser, WriteActive, WritePassword

\* One token is revoked or expires.
LEMMA TokenFalls ==
    ASSUME SessionsInv, NEW i \in DOMAIN tokens, tokens[i] # None, NEW new \in Token,
           new.user = tokens[i].user, new.session = tokens[i].session,
           new.password = tokens[i].password, tokens[i].revoked => new.revoked,
           tokens[i].expired => new.expired, tokens' = [tokens EXCEPT ![i] = new]
    PROVE  Falls /\ tokens'[i] = new
<1>1. tokens \in Seq(Token \cup {None})
  BY DEF SessionsInv, AccountsType
<1>2. /\ tokens' \in Seq(Token \cup {None}) /\ DOMAIN tokens' = DOMAIN tokens
      /\ Len(tokens') = Len(tokens)
  BY <1>1
<1>3. tokens'[i] = new /\ \A j \in DOMAIN tokens \ {i} : tokens'[j] = tokens[j]
  BY <1>1
<1>4. QED
  BY <1>2, <1>3 DEF Falls

LEMMA RevokeTokenKeeps ==
    ASSUME SessionsInv, Common', scene' = scene, NEW r \in Requests, RevokeToken(r)
    PROVE  SessionsInv'
<1>1. PICK i : i = req[r].token
  OBVIOUS
<1>2. /\ req[r].do = "revokeToken" /\ Done(r) /\ UNCHANGED users
      /\ tokens' = IF tokens[i] = None THEN tokens ELSE [tokens EXCEPT ![i].revoked = TRUE]
  BY <1>1 DEF RevokeToken
<1>3. i \in DOMAIN tokens /\ req[r] # Idle
  BY <1>1, <1>2 DEF SessionsInv, AccountWork, Idle
<1>4. tokens \in Seq(Token \cup {None}) /\ users' \in [Users -> UserRow \cup {None}]
  BY <1>2 DEF SessionsInv, AccountsType
<1>5. Falls /\ \A u : i \notin Live(u)'
  <2>1. CASE tokens[i] = None
    BY <1>2, <1>4, <2>1 DEF Falls, Live, TokensOf
  <2>2. CASE tokens[i] # None
    <3>1. PICK new : new = [tokens[i] EXCEPT !.revoked = TRUE]
      OBVIOUS
    <3>2. tokens[i] \in Token
      BY <1>3, <1>4, <2>2
    <3>3. /\ new \in Token /\ new.user = tokens[i].user /\ new.session = tokens[i].session
          /\ new.password = tokens[i].password /\ new.revoked
          /\ tokens[i].expired => new.expired
      BY <3>1, <3>2 DEF Token
    <3>4. tokens' = [tokens EXCEPT ![i] = new]
      BY <1>2, <2>2, <3>1
    <3>5. Falls /\ tokens'[i] = new
      BY <1>3, <2>2, <3>3, <3>4, TokenFalls
    <3>6. QED
      BY <3>3, <3>5 DEF Live
  <2>3. QED
    BY <2>1, <2>2
<1>6. req'[r] = Idle /\ \A q \in Requests \ {r} : req'[q] = req[q]
  BY <1>2, DoneFrees DEF SessionsInv, Common
<1>7. AccountWork(r)' /\ StoresInPlace(r)'
  BY <1>6 DEF AccountWork, AccountWords, StoresInPlace, Idle
<1>8. \A j : Revoking(r, j) => j = i
  BY <1>1 DEF Revoking
<1>9. \A u : ~Closing(r, u)
  BY <1>2 DEF Closing
<1>10. \A u : Exists(u) => Exists(u)'
  BY <1>2 DEF Exists
<1>11. QED
  BY <1>2, <1>3, <1>4, <1>5, <1>6, <1>7, <1>8, <1>9, <1>10, SessionsFall

\* Time may pass at any moment of a request.
LEMMA ExpireKeeps ==
    ASSUME SessionsInv, Common', scene' = scene, Expire
    PROVE  SessionsInv'
<1>0. PICK u \in Users : \E i \in TokensOf(u) : tokens' = [tokens EXCEPT ![i].expired = TRUE]
  BY DEF Expire
<1>1. PICK i \in TokensOf(u) : tokens' = [tokens EXCEPT ![i].expired = TRUE]
  BY <1>0
<1>2. req' = req /\ users' = users
  BY DEF Expire
<1>3. tokens \in Seq(Token \cup {None}) /\ users' \in [Users -> UserRow \cup {None}]
  BY <1>2 DEF SessionsInv, AccountsType
<1>4. i \in DOMAIN tokens /\ tokens[i] # None /\ tokens[i] \in Token
  BY <1>3 DEF TokensOf
<1>5. PICK new : new = [tokens[i] EXCEPT !.expired = TRUE]
  OBVIOUS
<1>6. /\ new \in Token /\ new.user = tokens[i].user /\ new.session = tokens[i].session
      /\ new.password = tokens[i].password /\ new.expired
      /\ tokens[i].revoked => new.revoked
  BY <1>4, <1>5 DEF Token
<1>7. tokens' = [tokens EXCEPT ![i] = new]
  BY <1>1, <1>5
<1>8. Falls
  BY <1>4, <1>6, <1>7, TokenFalls
<1>9. /\ TokensSound'
      /\ \A v : Live(v)' \subseteq Live(v)
      /\ \A v : \A j \in Live(v)' : /\ tokens'[j].session = tokens[j].session
                                    /\ tokens'[j].password = tokens[j].password
  <2>1. \A v \in Users : Exists(v) => Exists(v)' \/ TokensOf(v)' = {}
    BY <1>2 DEF Exists
  <2>2. QED
    BY <1>8, <2>1, FallsKeep
<1>10. AccountsType' /\ DOMAIN tokens' = DOMAIN tokens /\ Len(tokens') = Len(tokens)
  BY <1>3, <1>8 DEF Falls, AccountsType
<1>11. \A r \in Requests : AccountWork(r)'
  BY <1>2, <1>10 DEF SessionsInv, AccountWork
<1>12. Calm' <=> Calm
  BY DEF Calm, Serial
<1>13. ASSUME Calm
       PROVE  SessionsCalm'
  <2>1. SessionsCalm
    BY <1>13 DEF SessionsInv
  <2>2. ASSUME NEW v \in Users, NEW j \in Live(v)', NEW k \in Live(v)',
               tokens'[j].session = tokens'[k].session, j # k
        PROVE  \E r \in Requests : Revoking(r, j)' \/ Revoking(r, k)'
    <3>1. j \in Live(v) /\ k \in Live(v) /\ tokens[j].session = tokens[k].session
      BY <1>9, <2>2
    <3>2. PICK r \in Requests : Revoking(r, j) \/ Revoking(r, k)
      BY <2>1, <2>2, <3>1 DEF SessionsCalm, OnePerSession
    <3>3. QED
      BY <1>2, <3>2 DEF Revoking
  <2>3. ASSUME NEW v \in Users, NEW j \in Live(v)', tokens'[j].password # users'[v].password
        PROVE  \E r \in Requests : Closing(r, v)'
    <3>1. j \in Live(v) /\ tokens[j].password # users[v].password
      BY <1>2, <1>9, <2>3
    <3>2. PICK r \in Requests : Closing(r, v)
      BY <2>1, <3>1 DEF SessionsCalm, PasswordCurrent
    <3>3. QED
      BY <1>2, <3>2 DEF Closing
  <2>4. ASSUME NEW r \in Requests
        PROVE  StoresInPlace(r)'
    <3>1. StoresInPlace(r)
      BY <2>1 DEF SessionsCalm
    <3>2. PICK v : v = req[r].user
      OBVIOUS
    <3>3. \A j \in Live(v)' : j \in Live(v) /\ tokens'[j].session = tokens[j].session
      BY <1>9
    <3>4. Live(req[r].user)' = Live(v)'
      BY <1>2, <3>2 DEF Live, TokensOf
    <3>5. QED
      BY <1>2, <3>1, <3>2, <3>3, <3>4 DEF StoresInPlace, Exists
  <2>5. OnePerSession'
    BY <2>2 DEF OnePerSession
  <2>6. PasswordCurrent'
    BY <2>3 DEF PasswordCurrent
  <2>7. QED
    BY <2>4, <2>5, <2>6 DEF SessionsCalm
<1>14. QED
  BY <1>9, <1>10, <1>11, <1>12, <1>13 DEF SessionsInv

LEMMA AccountsKeep ==
    ASSUME SessionsInv, Common', scene' = scene, NEW r \in Requests,
           AccountsNext(r) \/ DeleteUserRow(r)
    PROVE  SessionsInv'
<1>1. CASE \E u \in Users : LogoutAll(r, u)
  <2>1. PICK u \in Users : LogoutAll(r, u)
    BY <1>1
  <2>2. QED
    BY <2>1, TokensGo DEF LogoutAll, Free
<1>2. CASE RevokeTokens(r) \/ DeleteTokens(r)
  <2>1. PICK u \in Users : u = req[r].user
    BY <1>2 DEF RevokeTokens, DeleteTokens, SessionsInv, AccountWork, AccountWords
  <2>2. QED
    BY <1>2, <2>1, TokensGo DEF RevokeTokens, DeleteTokens
<1>3. CASE DeleteTokensOf(r)
  <2>1. PICK u \in Users : u = req[r].user
    BY <1>3 DEF DeleteTokensOf, SessionsInv, AccountWork, AccountWords
  <2>2. QED
    BY <1>3, <2>1, TokensGo DEF DeleteTokensOf
<1>4. CASE DeleteUserRow(r)
  <2>1. PICK u \in Users : u = req[r].user
    BY <1>4 DEF DeleteUserRow, SessionsInv, AccountWork, AccountWords
  <2>2. /\ req[r].do = "deleteUserRow" /\ Done(r) /\ req[r] # Idle
        /\ \/ UNCHANGED << users, tokens >>
           \/ users' = [users EXCEPT ![u] = None] /\ DeleteAll(u)
    BY <1>4, <2>1 DEF DeleteUserRow, Idle
  <2>3. req'[r] = Idle /\ \A q \in Requests \ {r} : req'[q] = req[q]
    BY <2>2, DoneFrees DEF SessionsInv, Common
  <2>4. AccountWork(r)' /\ StoresInPlace(r)'
    BY <2>3 DEF AccountWork, AccountWords, StoresInPlace, Idle
  <2>5. \A v : ~Revoking(r, v) /\ ~Closing(r, v)
    BY <2>2 DEF Revoking, Closing
  <2>6. users \in [Users -> UserRow \cup {None}] /\ tokens \in Seq(Token \cup {None})
    BY DEF SessionsInv, AccountsType
  <2>7. CASE UNCHANGED << users, tokens >>
    <3>1. Falls /\ \A v : Exists(v) => Exists(v)'
      BY <2>6, <2>7 DEF Falls, Exists
    <3>2. QED
      BY <2>2, <2>3, <2>4, <2>5, <2>6, <2>7, <3>1, SessionsFall
  <2>8. CASE users' = [users EXCEPT ![u] = None] /\ DeleteAll(u)
    <3>1. Falls /\ TokensOf(u)' = {} /\ Live(u)' = {}
      BY <2>8, DeleteFalls
    <3>2. \A v \in Users \ {u} : users'[v] = users[v]
      BY <2>6, <2>8
    <3>3. users' \in [Users -> UserRow \cup {None}]
      BY <2>6, <2>8
    <3>4. \A v \in Users : Exists(v) => Exists(v)' \/ TokensOf(v)' = {}
      <4>1. ASSUME NEW v \in Users, Exists(v)
            PROVE  Exists(v)' \/ TokensOf(v)' = {}
        <5>1. CASE v = u
          BY <3>1, <5>1
        <5>2. CASE v # u
          BY <3>2, <4>1, <5>2 DEF Exists
        <5>3. QED
          BY <5>1, <5>2
      <4>2. QED
        BY <4>1
    <3>5. \A v \in Users : Live(v)' # {} => users'[v].password = users[v].password
      BY <3>1, <3>2
    <3>6. QED
      BY <2>2, <2>3, <2>4, <2>5, <3>1, <3>3, <3>4, <3>5, SessionsFall
  <2>9. QED
    BY <2>2, <2>7, <2>8
<1>5. QED
  BY <1>1, <1>2, <1>3, <1>4, LoginKeeps, RefreshKeeps, OtherCallsKeep, UsersWriteKeeps,
     StoreTokenKeeps, RevokeTokenKeeps, ExpireKeeps DEF AccountsNext

LEMMA SessionsKept ==
    ASSUME SessionsInv, [Next]_vars
    PROVE  SessionsInv'
<1>1. Common' /\ scene' = scene
  BY StepsKeepCommon DEF SessionsInv
<1>2. CASE /\ UNCHANGED accountVars /\ Elsewhere(AccountWords)
           /\ Calm => \A q \in Requests : req'[q] = req[q] \/ req[q].do \notin AccountWords
  <2>1. users' = users /\ tokens' = tokens
    BY <1>2 DEF accountVars
  <2>2. AccountsType' /\ TokensSound' /\ \A u : Live(u)' = Live(u)
    BY <2>1 DEF SessionsInv, AccountsType, TokensSound, Exists, Live, TokensOf
  <2>3. ASSUME NEW r \in Requests
        PROVE  AccountWork(r)' /\ (StoresInPlace(r) => StoresInPlace(r)')
    <3>1. CASE req'[r] = req[r]
      BY <2>1, <3>1 DEF SessionsInv, AccountWork, StoresInPlace, Exists, Live, TokensOf
    <3>2. CASE req'[r].do \notin AccountWords
      BY <3>2 DEF AccountWork, StoresInPlace, AccountWords
    <3>3. QED
      BY <1>2, <3>1, <3>2 DEF Elsewhere
  <2>4. Calm' <=> Calm
    BY <1>1 DEF Calm, Serial
  <2>5. ASSUME Calm
        PROVE  SessionsCalm'
    <3>1. SessionsCalm
      BY <2>5 DEF SessionsInv
    <3>2. \A r \in Requests : \A x : (Revoking(r, x) => Revoking(r, x)') /\ (Closing(r, x) => Closing(r, x)')
      BY <1>2, <2>5 DEF Revoking, Closing, AccountWords
    <3>3. OnePerSession' /\ PasswordCurrent'
      BY <2>1, <2>2, <3>1, <3>2 DEF SessionsCalm, OnePerSession, PasswordCurrent
    <3>4. QED
      BY <2>3, <3>1, <3>3 DEF SessionsCalm
  <2>6. QED
    BY <1>1, <2>2, <2>3, <2>4, <2>5 DEF SessionsInv
<1>3. QED
  BY <1>1, <1>2, AccountsKeep, SessionsElsewhere DEF SessionsInv

LEMMA SessionsAlways == Spec => []SessionsInv
<1>1. Init => SessionsInv
  BY SessionsStart
<1>2. SessionsInv /\ [Next]_vars => SessionsInv'
  BY SessionsKept
<1>3. QED
  BY <1>1, <1>2, PTL DEF Spec

\* Whatever requests run at once and wherever they fail, no token outlives
\* its user; and between requests that come one after the other a session has
\* one token to exchange, rotated by refresh, and a change of the password
\* has ended those opened under the former one.
THEOREM SessionsAlwaysSound == Spec => []SessionsSound
<1>1. ASSUME SessionsInv
      PROVE  SessionsSound
  <2>1. \A i \in DOMAIN tokens : tokens[i] # None => Exists(tokens[i].user)
    BY <1>1 DEF SessionsInv, TokensSound
  <2>2. ASSUME Quiet, NEW u \in Users, NEW i \in Live(u), NEW j \in Live(u)
        PROVE  /\ tokens[i].session = tokens[j].session => i = j
               /\ tokens[i].password = users[u].password
    <3>1. Calm /\ \A r \in Requests : req[r] = Idle
      BY <2>2 DEF Quiet, Calm
    <3>2. \A r \in Requests : \A x : ~Revoking(r, x) /\ ~Closing(r, x)
      BY <3>1 DEF Revoking, Closing, Idle
    <3>3. QED
      BY <1>1, <3>1, <3>2 DEF SessionsInv, SessionsCalm, OnePerSession, PasswordCurrent
  <2>3. QED
    BY <2>1, <2>2 DEF SessionsSound
<1>2. QED
  BY <1>1, SessionsAlways, PTL

-----------------------------------------------------------------------------
(* The selection of a PV.                                                  *)

EditWords == PvWords \ {"lifecycle"}

\* What a request of the lifecycle may have still to write.
Todos ==
    {<< "requirePv", "createPV", "PENDING_APPROVAL" >>, << "createPV", "PENDING_APPROVAL" >>,
     << "PENDING_APPROVAL" >>, << "PUBLISHED" >>, << "REJECTED" >>, << "CHANGE_REQUESTED" >>,
     << "PUBLISHED", "moveOn" >>, << "moveOn" >>,
     << "dropAll", "createDA", "PUBLISHED" >>, << "createDA", "PUBLISHED" >>,
     << "DRAFT", "dropAll" >>, << "dropAll" >>,
     << "closeDerogation", "PUBLISHED" >>, << "closeDerogation", "REJECTED" >>,
     << "dropBC", "createBC", "PENDING_APPROVAL" >>, << "createBC", "PENDING_APPROVAL" >>}
Moves == {<< "PUBLISHED", "moveOn" >>, << "moveOn" >>}

PvWork(r) ==
    LET w == req[r]
    IN  /\ w.do \in {"createPv", "deleteSuppliers", "createSuppliers"} =>
            {"do", "suppliers"} \subseteq DOMAIN w /\ w.suppliers \in Seq(Seq(Articles))
        /\ w.do \in {"deleteItems", "createItems"} =>
            /\ {"do", "articles", "left"} \subseteq DOMAIN w
            /\ w.articles \in Seq(Articles) /\ w.left \subseteq DOMAIN w.articles
        /\ w.do = "lifecycle" =>
            /\ {"do", "step", "todo"} \subseteq DOMAIN w
            /\ w.step \in Steps /\ w.todo \in Todos
            /\ w.todo \in Moves => w.step \in {"PV", "BC"}

\* One after the other, requests that none cuts short leave the purchase open
\* to changes of the PV only while the PV has no workflow, and the writes that
\* are left lead there.
Orderly == Serial /\ {"validateDerogation", "die", "optimize"} \cap scene.endpoints = {}

Settled(d) == "PV" \in d.flows => d.status \notin {"PUBLISHED", "DRAFT"}

Leads(d, todo) ==
    /\ todo \in {<< "PUBLISHED" >>, << "createDA", "PUBLISHED" >>} => "PV" \notin d.flows
    /\ Head(todo) \in {"requirePv", "createPV", "dropBC", "createBC"} => Settled(d)
    /\ Head(todo) # "closeDerogation"

PvOrderly ==
    /\ SubmissionStands
    /\ (\A r \in Requests : req[r].do \notin PvWords) => Settled(dossier)
    /\ \A r \in Requests :
        /\ req[r].do \in EditWords => "PV" \notin dossier.flows
        /\ req[r].do = "lifecycle" => Leads(dossier, req[r].todo)

PvInv ==
    /\ Common /\ PvType
    /\ \A r \in Requests : PvWork(r)
    /\ Orderly => PvOrderly

LEMMA AccountsTake ==
    ASSUME NEW r \in Requests, AccountsNext(r) \/ DeleteUserRow(r)
    PROVE  Takes(r, AccountWords)
<1>1. ASSUME NEW u, \/ CreateUser(r, u) \/ Login(r, u) \/ Refresh(r, u) \/ Logout(r, u)
                    \/ ChangePassword(r, u) \/ ToggleActive(r, u) \/ RemoveUser(r, u)
                    \/ LogoutAll(r, u)
      PROVE  Takes(r, AccountWords)
  BY <1>1 DEF CreateUser, Login, Refresh, Logout, ChangePassword, ToggleActive, RemoveUser,
              LogoutAll, AccountCalled, Free, Takes
<1>2. CASE \/ Expire \/ InsertUser(r) \/ StoreToken(r) \/ RevokeToken(r) \/ WritePassword(r)
           \/ RevokeTokens(r) \/ DeleteTokens(r) \/ WriteActive(r) \/ DeleteTokensOf(r)
           \/ DeleteUserRow(r)
  BY <1>2 DEF Expire, InsertUser, StoreToken, RevokeToken, WritePassword, RevokeTokens,
              DeleteTokens, WriteActive, DeleteTokensOf, DeleteUserRow, Takes, AccountWords
<1>3. QED
  BY <1>1, <1>2 DEF AccountsNext

\* The steps of the other parts leave the PV alone, and as long as none is cut
\* short, so they do the work on it.
LEMMA PvElsewhere ==
    ASSUME Common, [Next]_vars
    PROVE  \/ \E r \in Requests : PvNext(r)
           \/ /\ UNCHANGED pvVars /\ Elsewhere(PvWords)
              /\ Calm => \A q \in Requests : req'[q] = req[q] \/ req[q].do \notin PvWords
<1> DEFINE Untouched == \A q \in Requests : req'[q] = req[q] \/ req[q].do \notin PvWords
<1>0. KnownWork
  BY DEF Common
<1>1. CASE UNCHANGED vars
  BY <1>1 DEF vars, Elsewhere
<1>2. ASSUME NEW words \in {BudgetWords, NumbersWords, TicketWords, StockWords, AccountWords,
                            FileWords, SigningWords, LeaseWords, ReportWords}
      PROVE  /\ Leaves(words) => Elsewhere(PvWords)
             /\ \A r \in Requests :
                    Takes(r, words) /\ (\A q \in Requests \ {r} : req'[q] = req[q]) => Untouched
  <2>1. words \cap PvWords = {} /\ "idle" \notin PvWords
    BY DEF BudgetWords, NumbersWords, TicketWords, StockWords, AccountWords, FileWords,
           SigningWords, LeaseWords, PvWords, ReportWords
  <2>2. QED
    BY <2>1, LeavesElsewhere DEF Takes, Idle
<1>3. CASE SigningStep
  <2>1. UNCHANGED pvVars /\ Elsewhere(PvWords)
    BY <1>0, <1>2, <1>3, SigningLeaves DEF SigningStep
  <2>2. Calm => Untouched
    BY <1>2, <1>3, SigningTakes DEF SigningStep, Calm, Die
  <2>3. QED
    BY <2>1, <2>2
<1>4. ASSUME NEW r \in Requests, BudgetStep(r) \/ TicketsStep(r) \/ StockStep(r)
      PROVE  UNCHANGED pvVars /\ Elsewhere(PvWords) /\ Untouched
  <2>1. UNCHANGED pvVars /\ Elsewhere(PvWords)
    BY <1>0, <1>2, <1>4, BudgetLeaves, TicketsLeave, StockLeaves, NumbersLeave
       DEF BudgetStep, TicketsStep, StockStep
  <2>2. ByOne(r)
    BY <1>0, <1>4, BudgetByOne, TicketsByOne, StockByOne DEF BudgetStep, TicketsStep, StockStep
  <2>3. Untouched
    BY <1>2, <1>4, <2>2, BudgetTakes, TicketsTake, StockTakes
       DEF BudgetStep, TicketsStep, StockStep, ByOne
  <2>4. QED
    BY <2>1, <2>3
<1>5. ASSUME NEW r \in Requests, AccountsStep(r)
      PROVE  UNCHANGED pvVars /\ Elsewhere(PvWords) /\ (Calm => Untouched)
  <2>1. UNCHANGED pvVars /\ Elsewhere(PvWords)
    BY <1>0, <1>2, <1>5, AccountsLeave, FilesLeave DEF AccountsStep, DeleteUserAndFiles
  <2>2. CASE AccountsNext(r) \/ DeleteUserRow(r)
    <3>1. ByOne(r) /\ Takes(r, AccountWords)
      BY <1>0, <2>2, AccountsByOne, AccountsTake
    <3>2. Untouched
      BY <1>2, <3>1 DEF ByOne
    <3>3. QED
      BY <2>1, <3>2
  <2>3. CASE FilesNext(r)
    <3>1. ASSUME Calm
          PROVE  Untouched
      <4>1. ~\E f \in optimizing : UnhandledRejection(f)
        BY <3>1 DEF Calm, UnhandledRejection
      <4>2. ByOne(r) /\ Takes(r, FileWords)
        BY <1>0, <2>3, <4>1, FilesTake, FilesByOne
      <4>3. QED
        BY <1>2, <4>2 DEF ByOne
    <3>2. QED
      BY <2>1, <3>1
  <2>4. QED
    BY <1>5, <2>2, <2>3 DEF AccountsStep, DeleteUserAndFiles
<1>6. ASSUME NEW r \in Requests, LeasesStep(r) \/ OtherStep(r)
      PROVE  UNCHANGED pvVars /\ Elsewhere(PvWords) /\ (Calm => Untouched)
  <2>1. UNCHANGED pvVars /\ Elsewhere(PvWords)
    BY <1>0, <1>2, <1>6, LeasesLeave, OtherLeaves DEF LeasesStep, OtherStep
  <2>2. ByOne(r)
    BY <1>0, <1>6, LeasesByOne, OtherByOne DEF LeasesStep, OtherStep
  <2>3. Calm => Untouched
    BY <1>2, <1>6, <2>2, LeasesTake, ReportsTake DEF LeasesStep, OtherStep, ByOne, Calm, Serial
  <2>4. QED
    BY <2>1, <2>3
<1>7. QED
  BY <1>1, <1>3, <1>4, <1>5, <1>6 DEF Next, PvStep

LEMMA PvStart ==
    ASSUME Init
    PROVE  PvInv
<1>1. Common /\ \A r \in Requests : req[r] = Idle
  BY StartCommon, StartKnown
<1>2. /\ offers = << >> /\ dossier.flows = {"DA"}
      /\ dossier = [pv |-> FALSE, step |-> "PV", status |-> "PUBLISHED", flows |-> {"DA"},
                    derogation |-> "validateDerogation" \in scene.endpoints]
  BY DEF Init, PvInit
<1>3. dossier \in Dossier
  <2>1. CASE "validateDerogation" \in scene.endpoints
    BY <1>2, <2>1 DEF Dossier, Steps, Statuses
  <2>2. CASE "validateDerogation" \notin scene.endpoints
    BY <1>2, <2>2 DEF Dossier, Steps, Statuses
  <2>3. QED
    BY <2>1, <2>2
<1>4. PvType
  BY <1>2, <1>3 DEF PvType
<1>5. \A r \in Requests : PvWork(r)
  BY <1>1 DEF PvWork, Idle
<1>6. PvOrderly
  BY <1>1, <1>2 DEF PvOrderly, SubmissionStands, Settled, Idle, EditWords, PvWords
<1>7. QED
  BY <1>1, <1>4, <1>5, <1>6 DEF PvInv

\* A step of r, who is alone if requests come one after the other.
LEMMA PvLater ==
    ASSUME PvInv, Common', scene' = scene, NEW r \in Requests,
           req[r] # Idle \/ r \in scene.requests,
           \A q \in Requests \ {r} : req'[q] = req[q],
           PvType', PvWork(r)',
           Orderly => /\ SubmissionStands'
                      /\ req'[r].do \notin PvWords => Settled(dossier')
                      /\ req'[r].do \in EditWords => "PV" \notin dossier'.flows
                      /\ req'[r].do = "lifecycle" => Leads(dossier', req'[r].todo)
    PROVE  PvInv'
<1>1. Orderly' <=> Orderly
  BY DEF Orderly, Serial
<1>2. \A q \in Requests \ {r} : PvWork(q)'
  BY DEF PvInv, PvWork
<1>3. ASSUME Orderly
      PROVE  PvOrderly'
  <2>1. \A q \in Requests \ {r} : req'[q] = Idle
    BY <1>3, SerialAlone DEF PvInv, Orderly
  <2>2. \A q \in Requests \ {r} : req'[q].do \notin PvWords
    BY <2>1 DEF Idle, PvWords
  <2>3. \A q \in Requests \ {r} : req'[q].do \notin EditWords /\ req'[q].do # "lifecycle"
    BY <2>1 DEF Idle, EditWords, PvWords
  <2>4. QED
    BY <1>3, <2>2, <2>3 DEF PvOrderly
<1>4. QED
  BY <1>1, <1>2, <1>3 DEF PvInv

\* Between requests the purchase is open to changes while the PV has no
\* workflow.
LEMMA PvOpen ==
    ASSUME PvInv, Orderly, NEW r \in Requests, req[r] = Idle, r \in scene.requests
    PROVE  Settled(dossier) /\ SubmissionStands
<1>1. \A q \in Requests : req[q] = Idle
  BY SerialAlone DEF PvInv, Orderly
<1>2. QED
  BY <1>1 DEF PvInv, PvOrderly, Idle, PvWords

\* A step of an edit changes neither status nor workflow.
LEMMA PvEdited ==
    ASSUME PvInv, Common', scene' = scene, NEW r \in Requests,
           req[r] # Idle \/ r \in scene.requests,
           \A q \in Requests \ {r} : req'[q] = req[q],
           PvType', PvWork(r)', req'[r].do # "lifecycle",
           dossier'.flows = dossier.flows, dossier'.status = dossier.status,
           Orderly => "PV" \notin dossier.flows
    PROVE  PvInv'
BY PvLater DEF SubmissionStands, Settled

LEMMA PvEditing ==
    ASSUME PvInv, Orderly, NEW r \in Requests, req[r].do \in EditWords
    PROVE  "PV" \notin dossier.flows
BY DEF PvInv, PvOrderly

LEMMA PvCallsKeep ==
    ASSUME PvInv, Common', scene' = scene, NEW r \in Requests,
           CreatePv(r) \/ UpdatePv(r) \/ AddSupplierItems(r) \/ SelectSupplierItems(r)
    PROVE  PvInv'
<1>1. /\ r \in scene.requests /\ req[r] = Idle /\ UNCHANGED pvVars
      /\ dossier.status = "PUBLISHED"
  BY DEF CreatePv, UpdatePv, AddSupplierItems, SelectSupplierItems, PvCalled, Editable, Free
<1>2. Orderly => "PV" \notin dossier.flows
  BY <1>1, PvOpen DEF Settled
<1>3. PvType' /\ dossier' = dossier
  BY <1>1 DEF PvInv, PvType, pvVars
<1>4. ASSUME NEW w, Await(r, w)
      PROVE  req'[r] = w /\ \A q \in Requests \ {r} : req'[q] = req[q]
  BY <1>4 DEF Await, PvInv, Common, KnownWork
<1>5. scene \in Scenes
  BY DEF PvInv, Common
<1>6. CASE CreatePv(r) \/ UpdatePv(r)
  <2>1. PICK word \in {"createPv", "deleteSuppliers"}, suppliers \in scene.suppliers :
            Await(r, [do |-> word, suppliers |-> suppliers])
    BY <1>6 DEF CreatePv, UpdatePv, SomeSuppliers
  <2>2. suppliers \in Seq(Seq(Articles))
    BY <1>5, <2>1, ScenesAssumption
  <2>3. PvWork(r)' /\ req'[r].do # "lifecycle"
    BY <1>4, <2>1, <2>2 DEF PvWork
  <2>4. QED
    BY <1>1, <1>2, <1>3, <1>4, <2>1, <2>3, PvEdited
<1>7. CASE AddSupplierItems(r)
  <2>1. PICK o \in Offers, articles \in scene.items :
            Await(r, [do |-> "deleteItems", offer |-> o, articles |-> articles,
                      left |-> DOMAIN articles])
    BY <1>7 DEF AddSupplierItems
  <2>2. articles \in Seq(Articles)
    BY <1>5, <2>1, ScenesAssumption
  <2>3. PvWork(r)' /\ req'[r].do # "lifecycle"
    BY <1>4, <2>1, <2>2 DEF PvWork
  <2>4. QED
    BY <1>1, <1>2, <1>3, <1>4, <2>1, <2>3, PvEdited
<1>8. CASE SelectSupplierItems(r)
  <2>1. PICK o, chosen : Await(r, [do |-> "deselect", offer |-> o, chosen |-> chosen])
    BY <1>8 DEF SelectSupplierItems
  <2>2. PvWork(r)' /\ req'[r].do # "lifecycle"
    BY <1>4, <2>1 DEF PvWork
  <2>3. QED
    BY <1>1, <1>2, <1>3, <1>4, <2>1, <2>2, PvEdited
<1>9. QED
  BY <1>6, <1>7, <1>8

LEMMA NewOffersType ==
    ASSUME NEW suppliers \in Seq(Seq(Articles))
    PROVE  NewOffers(suppliers) \in Seq(Seq(Item \cup {None}) \cup {None})
<1>1. ASSUME NEW articles \in Seq(Articles)
      PROVE  [i \in DOMAIN articles |-> NewItem(articles[i])] \in Seq(Item \cup {None})
  <2>1. DOMAIN articles = 1 .. Len(articles) /\ Len(articles) \in Nat
    OBVIOUS
  <2>2. \A i \in DOMAIN articles : NewItem(articles[i]) \in Item \cup {None}
    BY DEF NewItem, Item
  <2>3. QED
    BY <2>1, <2>2
<1>2. /\ DOMAIN suppliers = 1 .. Len(suppliers) /\ Len(suppliers) \in Nat
      /\ \A k \in DOMAIN suppliers : suppliers[k] \in Seq(Articles)
  OBVIOUS
<1> DEFINE list(k) == [i \in DOMAIN suppliers[k] |-> NewItem(suppliers[k][i])]
           Lists == Seq(Item \cup {None}) \cup {None}
<1>3. \A k \in DOMAIN suppliers : list(k) \in Lists
  BY <1>1, <1>2
<1>4. NewOffers(suppliers) = [k \in DOMAIN suppliers |-> list(k)]
  BY DEF NewOffers
<1> HIDE DEF list, Lists
<1>5. NewOffers(suppliers) \in Seq(Lists)
  BY <1>2, <1>3, <1>4
<1>6. QED
  BY <1>5 DEF Lists

LEMMA SuppliersKeep ==
    ASSUME PvInv, Common', scene' = scene, NEW r \in Requests,
           InsertPv(r) \/ DeleteSuppliers(r) \/ CreateSuppliers(r)
    PROVE  PvInv'
<1>1. PICK suppliers \in Seq(Seq(Articles)) :
        suppliers = req[r].suppliers /\ {"do", "suppliers"} \subseteq DOMAIN req[r]
  BY DEF InsertPv, DeleteSuppliers, CreateSuppliers, PvInv, PvWork
<1>2. NewOffers(suppliers) \in Seq(Seq(Item \cup {None}) \cup {None})
  BY NewOffersType
<1>3. offers \in Seq(Seq(Item \cup {None}) \cup {None}) /\ dossier \in Dossier
  BY DEF PvInv, PvType
<1>4. /\ offers \o NewOffers(suppliers) \in Seq(Seq(Item \cup {None}) \cup {None})
      /\ [o \in DOMAIN offers |-> None] \in Seq(Seq(Item \cup {None}) \cup {None})
  <2>1. DOMAIN offers = 1 .. Len(offers) /\ Len(offers) \in Nat
    BY <1>3
  <2>2. QED
    BY <1>2, <1>3, <2>1
<1>5. /\ [dossier EXCEPT !.pv = TRUE] \in Dossier
      /\ [dossier EXCEPT !.pv = TRUE].flows = dossier.flows
      /\ [dossier EXCEPT !.pv = TRUE].status = dossier.status
  BY <1>3 DEF Dossier
<1>6. req[r].do \in EditWords /\ req[r] # Idle
  BY DEF InsertPv, DeleteSuppliers, CreateSuppliers, EditWords, PvWords, Idle
<1>7. dossier' \in {dossier, [dossier EXCEPT !.pv = TRUE]}
  BY DEF InsertPv, DeleteSuppliers, CreateSuppliers
<1>8. offers' \in {offers, offers \o NewOffers(suppliers), [o \in DOMAIN offers |-> None]}
  BY <1>1 DEF InsertPv, DeleteSuppliers, CreateSuppliers
<1>9. PvType'
  BY <1>3, <1>4, <1>5, <1>7, <1>8 DEF PvType
<1>10. dossier'.flows = dossier.flows /\ dossier'.status = dossier.status
  BY <1>5, <1>7
<1>11. PvWork(r)' /\ req'[r].do # "lifecycle" /\ \A q \in Requests \ {r} : req'[q] = req[q]
  <2>1. CASE Done(r)
    <3>1. req'[r] = Idle /\ \A q \in Requests \ {r} : req'[q] = req[q]
      BY <2>1, DoneFrees DEF PvInv, Common
    <3>2. QED
      BY <3>1 DEF PvWork, Idle
  <2>2. CASE DeleteSuppliers(r)
    <3>1. /\ req'[r] = [req[r] EXCEPT !.do = "createSuppliers"]
          /\ \A q \in Requests \ {r} : req'[q] = req[q]
      BY <2>2 DEF DeleteSuppliers, Await, PvInv, Common, KnownWork
    <3>2. /\ req'[r].do = "createSuppliers" /\ req'[r].suppliers = suppliers
          /\ {"do", "suppliers"} \subseteq DOMAIN req'[r]
      BY <1>1, <3>1
    <3>3. QED
      BY <3>1, <3>2 DEF PvWork
  <2>3. QED
    BY <2>1, <2>2 DEF InsertPv, CreateSuppliers
<1>12. QED
  BY <1>6, <1>9, <1>10, <1>11, PvEditing, PvEdited

LEMMA SetItemsType ==
    ASSUME PvInv, NEW o, NEW items, SetItems(o, items),
           o \in Offers => items \in Seq(Item \cup {None})
    PROVE  PvType' /\ dossier' = dossier
<1> DEFINE Lists == Seq(Item \cup {None})
<1>1. /\ offers \in Seq(Lists \cup {None}) /\ dossier \in Dossier /\ dossier' = dossier
      /\ offers' = IF o \in Offers THEN [offers EXCEPT ![o] = items] ELSE offers
      /\ o \in Offers => items \in Lists
  BY DEF PvInv, PvType, SetItems
<1> HIDE DEF Lists
<1>2. offers' \in Seq(Lists \cup {None})
  BY <1>1
<1>3. QED
  BY <1>1, <1>2 DEF PvType, Lists

\* The items of a supplier that is there.
LEMMA OfferedType ==
    ASSUME PvInv, NEW o \in Offers
    PROVE  /\ offers[o] \in Seq(Item \cup {None})
           /\ DOMAIN offers[o] = 1 .. Len(offers[o]) /\ Len(offers[o]) \in Nat
<1>1. offers[o] \in Seq(Item \cup {None})
  BY DEF PvInv, PvType, Offers
<1>2. QED
  BY <1>1

LEMMA DeleteItemsKeeps ==
    ASSUME PvInv, Common', scene' = scene, NEW r \in Requests, DeleteItems(r)
    PROVE  PvInv'
<1>1. PICK o, items : /\ o = req[r].offer /\ items = [i \in DOMAIN offers[o] |-> None]
  OBVIOUS
<1>2. /\ req[r].do = "deleteItems" /\ SetItems(o, items)
      /\ Await(r, [req[r] EXCEPT !.do = "createItems"])
  BY <1>1 DEF DeleteItems
<1>3. o \in Offers => items \in Seq(Item \cup {None})
  BY <1>1, OfferedType
<1>4. PvType' /\ dossier' = dossier
  BY <1>2, <1>3, SetItemsType
<1>5. /\ req'[r] = [req[r] EXCEPT !.do = "createItems"]
      /\ \A q \in Requests \ {r} : req'[q] = req[q]
  BY <1>2 DEF Await, PvInv, Common, KnownWork
<1>6. PvWork(r)' /\ req'[r].do # "lifecycle"
  BY <1>2, <1>5 DEF PvInv, PvWork
<1>7. req[r].do \in EditWords /\ req[r] # Idle
  BY <1>2 DEF EditWords, PvWords, Idle
<1>8. QED
  BY <1>4, <1>5, <1>6, <1>7, PvEditing, PvEdited

LEMMA CreateItemKeeps ==
    ASSUME PvInv, Common', scene' = scene, NEW r \in Requests, CreateItem(r)
    PROVE  PvInv'
<1>1. PICK o : o = req[r].offer
  OBVIOUS
<1>2. PICK k \in req[r].left :
        /\ SetItems(o, Append(offers[o], NewItem(req[r].articles[k])))
        /\ Await(r, [req[r] EXCEPT !.left = @ \ {k}])
  BY <1>1 DEF CreateItem
<1>3. req[r].do = "createItems" /\ o \in Offers
  BY <1>1 DEF CreateItem
<1>4. /\ {"do", "articles", "left"} \subseteq DOMAIN req[r]
      /\ req[r].articles \in Seq(Articles) /\ req[r].left \subseteq DOMAIN req[r].articles
  BY <1>3 DEF PvInv, PvWork
<1>5. PICK new : new = NewItem(req[r].articles[k])
  OBVIOUS
<1>6. new \in Item \cup {None}
  BY <1>2, <1>4, <1>5 DEF NewItem, Item
<1>7. PICK items : items = Append(offers[o], new)
  OBVIOUS
<1>8. items \in Seq(Item \cup {None})
  BY <1>3, <1>6, <1>7, OfferedType
<1>9. PvType' /\ dossier' = dossier
  BY <1>2, <1>5, <1>7, <1>8, SetItemsType
<1>10. /\ req'[r] = [req[r] EXCEPT !.left = @ \ {k}]
       /\ \A q \in Requests \ {r} : req'[q] = req[q]
  BY <1>2 DEF Await, PvInv, Common, KnownWork
<1>11. PvWork(r)' /\ req'[r].do # "lifecycle"
  BY <1>3, <1>4, <1>10 DEF PvWork
<1>12. req[r].do \in EditWords /\ req[r] # Idle
  BY <1>3 DEF EditWords, PvWords, Idle
<1>13. QED
  BY <1>9, <1>10, <1>11, <1>12, PvEditing, PvEdited

LEMMA ItemsEndKeeps ==
    ASSUME PvInv, Common', scene' = scene, NEW r \in Requests, ItemsEnd(r)
    PROVE  PvInv'
<1>1. req[r].do = "createItems" /\ Done(r) /\ UNCHANGED pvVars
  BY DEF ItemsEnd
<1>2. PvType' /\ dossier' = dossier
  BY <1>1 DEF PvInv, PvType, pvVars
<1>3. req'[r] = Idle /\ \A q \in Requests \ {r} : req'[q] = req[q]
  BY <1>1, DoneFrees DEF PvInv, Common
<1>4. PvWork(r)' /\ req'[r].do # "lifecycle"
  BY <1>3 DEF PvWork, Idle
<1>5. req[r].do \in EditWords /\ req[r] # Idle
  BY <1>1 DEF EditWords, PvWords, Idle
<1>6. QED
  BY <1>2, <1>3, <1>4, <1>5, PvEditing, PvEdited

LEMMA MarkedType ==
    ASSUME PvInv, NEW o \in Offers, NEW ids, NEW mark \in BOOLEAN
    PROVE  Marked(o, ids, mark) \in Seq(Item \cup {None})
<1>1. /\ offers[o] \in Seq(Item \cup {None})
      /\ DOMAIN offers[o] = 1 .. Len(offers[o]) /\ Len(offers[o]) \in Nat
  BY OfferedType
<1>2. ASSUME NEW i \in DOMAIN offers[o]
      PROVE  (IF i \in ids \cap ItemsOf(o) THEN [offers[o][i] EXCEPT !.isSelected = mark]
              ELSE offers[o][i]) \in Item \cup {None}
  <2>1. offers[o][i] \in Item \cup {None}
    BY <1>1
  <2>2. CASE i \in ItemsOf(o)
    <3>1. offers[o][i] \in Item
      BY <2>1, <2>2 DEF ItemsOf
    <3>2. [offers[o][i] EXCEPT !.isSelected = mark] \in Item
      BY <3>1 DEF Item
    <3>3. QED
      BY <2>1, <3>2
  <2>3. QED
    BY <2>1, <2>2
<1>3. QED
  BY <1>1, <1>2 DEF Marked

LEMMA MarkKeeps ==
    ASSUME PvInv, Common', scene' = scene, NEW r \in Requests, Deselect(r) \/ Select(r)
    PROVE  PvInv'
<1>1. PICK o, ids, mark : mark \in BOOLEAN /\ SetItems(o, Marked(o, ids, mark))
  BY DEF Deselect, Select
<1>2. PvType' /\ dossier' = dossier
  BY <1>1, MarkedType, SetItemsType
<1>3. \/ Done(r)
      \/ Await(r, [req[r] EXCEPT !.do = "select"])
  BY DEF Deselect, Select
<1>4. req'[r].do \in {"select", "idle"} /\ \A q \in Requests \ {r} : req'[q] = req[q]
  BY <1>3 DEF Done, Await, Idle, PvInv, Common, KnownWork
<1>5. PvWork(r)' /\ req'[r].do # "lifecycle"
  <2>1. req'[r].do \notin {"createPv", "deleteSuppliers", "createSuppliers", "deleteItems",
                           "createItems", "lifecycle"}
    BY <1>4
  <2>2. QED
    BY <2>1 DEF PvWork
<1>6. req[r].do \in EditWords /\ req[r] # Idle
  <2>1. req[r].do \in {"deselect", "select"}
    BY DEF Deselect, Select
  <2>2. QED
    BY <2>1 DEF EditWords, PvWords, Idle
<1>7. QED
  BY <1>2, <1>4, <1>5, <1>6, PvEditing, PvEdited

\* The lists of writes, one write after the other.
LEMMA TodoHeads ==
    /\ Head(<< "requirePv", "createPV", "PENDING_APPROVAL" >>) = "requirePv"
    /\ Head(<< "createPV", "PENDING_APPROVAL" >>) = "createPV"
    /\ Head(<< "PENDING_APPROVAL" >>) = "PENDING_APPROVAL"
    /\ Head(<< "PUBLISHED" >>) = "PUBLISHED" /\ Head(<< "REJECTED" >>) = "REJECTED"
    /\ Head(<< "CHANGE_REQUESTED" >>) = "CHANGE_REQUESTED"
    /\ Head(<< "PUBLISHED", "moveOn" >>) = "PUBLISHED" /\ Head(<< "moveOn" >>) = "moveOn"
    /\ Head(<< "dropAll", "createDA", "PUBLISHED" >>) = "dropAll"
    /\ Head(<< "createDA", "PUBLISHED" >>) = "createDA"
    /\ Head(<< "DRAFT", "dropAll" >>) = "DRAFT" /\ Head(<< "dropAll" >>) = "dropAll"
    /\ Head(<< "closeDerogation", "PUBLISHED" >>) = "closeDerogation"
    /\ Head(<< "closeDerogation", "REJECTED" >>) = "closeDerogation"
    /\ Head(<< "dropBC", "createBC", "PENDING_APPROVAL" >>) = "dropBC"
    /\ Head(<< "createBC", "PENDING_APPROVAL" >>) = "createBC"
OBVIOUS

LEMMA TodoTails ==
    /\ Tail(<< "requirePv", "createPV", "PENDING_APPROVAL" >>) = << "createPV", "PENDING_APPROVAL" >>
    /\ Tail(<< "createPV", "PENDING_APPROVAL" >>) = << "PENDING_APPROVAL" >>
    /\ Tail(<< "PUBLISHED", "moveOn" >>) = << "moveOn" >>
    /\ Tail(<< "dropAll", "createDA", "PUBLISHED" >>) = << "createDA", "PUBLISHED" >>
    /\ Tail(<< "createDA", "PUBLISHED" >>) = << "PUBLISHED" >>
    /\ Tail(<< "DRAFT", "dropAll" >>) = << "dropAll" >>
    /\ Tail(<< "closeDerogation", "PUBLISHED" >>) = << "PUBLISHED" >>
    /\ Tail(<< "closeDerogation", "REJECTED" >>) = << "REJECTED" >>
    /\ Tail(<< "dropBC", "createBC", "PENDING_APPROVAL" >>) = << "createBC", "PENDING_APPROVAL" >>
    /\ Tail(<< "createBC", "PENDING_APPROVAL" >>) = << "PENDING_APPROVAL" >>
OBVIOUS

Singles ==
    {<< "PENDING_APPROVAL" >>, << "PUBLISHED" >>, << "REJECTED" >>, << "CHANGE_REQUESTED" >>,
     << "moveOn" >>, << "dropAll" >>}

LEMMA TodoLengths == \A todo \in Todos : Len(todo) = 1 <=> todo \in Singles
BY DEF Todos, Singles

\* What is left after the first write.
LEMMA TodoRest ==
    ASSUME NEW todo \in Todos
    PROVE  \/ Len(todo) = 1
           \/ Tail(todo) \in Todos /\ (Tail(todo) \in Moves => todo \in Moves)
<1>1. CASE todo \in Singles
  BY <1>1, TodoLengths
<1>2. CASE todo = << "PUBLISHED", "moveOn" >>
  BY <1>2, TodoTails DEF Todos, Moves
<1>3. CASE todo \in Todos \ (Singles \cup Moves)
  <2> DEFINE rests == {<< "createPV", "PENDING_APPROVAL" >>, << "PENDING_APPROVAL" >>,
                       << "createDA", "PUBLISHED" >>, << "PUBLISHED" >>, << "dropAll" >>,
                       << "REJECTED" >>, << "createBC", "PENDING_APPROVAL" >>}
  <2>1. Tail(todo) \in rests
    BY <1>3, TodoTails DEF Todos, Singles, Moves
  <2>2. rests \subseteq Todos \ Moves
    BY DEF Todos, Moves
  <2>3. QED
    BY <2>1, <2>2
<1>4. QED
  BY <1>1, <1>2, <1>3 DEF Singles, Moves

LEMMA LeadsTo ==
    ASSUME NEW d
    PROVE  /\ Leads(d, << "PENDING_APPROVAL" >>) /\ Leads(d, << "moveOn" >>)
           /\ Leads(d, << "dropAll" >>)
           /\ "PV" \notin d.flows =>
                Leads(d, << "PUBLISHED" >>) /\ Leads(d, << "createDA", "PUBLISHED" >>)
           /\ Settled(d) => /\ Leads(d, << "createPV", "PENDING_APPROVAL" >>)
                            /\ Leads(d, << "createBC", "PENDING_APPROVAL" >>)
BY TodoHeads DEF Leads

\* A write that goes on with the list.
LEMMA ListGoesOn ==
    ASSUME PvInv, NEW r \in Requests, req[r].do = "lifecycle", Done(r) \/ GoesOn(r)
    PROVE  /\ PvWork(r)' /\ \A q \in Requests \ {r} : req'[q] = req[q]
           /\ \/ req'[r] = Idle /\ (Done(r) \/ Len(req[r].todo) = 1)
              \/ /\ req'[r].do = "lifecycle" /\ Len(req[r].todo) # 1 /\ GoesOn(r)
                 /\ req'[r].todo = Tail(req[r].todo)
<1>1. /\ {"do", "step", "todo"} \subseteq DOMAIN req[r]
      /\ req[r].step \in Steps /\ req[r].todo \in Todos
      /\ req[r].todo \in Moves => req[r].step \in {"PV", "BC"}
  BY DEF PvInv, PvWork
<1>2. CASE Done(r)
  <2>1. req'[r] = Idle /\ \A q \in Requests \ {r} : req'[q] = req[q]
    BY <1>2, DoneFrees DEF PvInv, Common
  <2>2. PvWork(r)'
    BY <2>1 DEF PvWork, Idle
  <2>3. QED
    BY <1>2, <2>1, <2>2
<1>3. CASE ~Done(r)
  <2>1. Len(req[r].todo) # 1 /\ Await(r, [req[r] EXCEPT !.todo = Tail(@)])
    BY <1>3 DEF GoesOn
  <2>2. /\ req'[r] = [req[r] EXCEPT !.todo = Tail(@)]
        /\ \A q \in Requests \ {r} : req'[q] = req[q]
    BY <2>1 DEF Await, PvInv, Common, KnownWork
  <2>3. /\ req'[r].do = "lifecycle" /\ req'[r].step = req[r].step
        /\ req'[r].todo = Tail(req[r].todo) /\ DOMAIN req'[r] = DOMAIN req[r]
    BY <1>1, <2>2
  <2>4. Tail(req[r].todo) \in Todos /\ (Tail(req[r].todo) \in Moves => req[r].todo \in Moves)
    BY <1>1, <2>1, TodoRest
  <2>5. PvWork(r)'
    BY <1>1, <2>3, <2>4 DEF PvWork
  <2>6. QED
    BY <1>3, <2>1, <2>2, <2>3, <2>5
<1>4. QED
  BY <1>2, <1>3

\* The calls leave lists that lead where they should.
LEMMA WritesKeep ==
    ASSUME PvInv, Common', scene' = scene, NEW r \in Requests, NEW endpoint, NEW todo \in Todos,
           Writes(r, endpoint, todo), todo \in Moves => dossier.step \in {"PV", "BC"},
           Orderly /\ Settled(dossier) => Leads(dossier, todo)
    PROVE  PvInv'
<1>1. /\ r \in scene.requests /\ req[r] = Idle /\ UNCHANGED pvVars
      /\ Await(r, [do |-> "lifecycle", step |-> dossier.step, todo |-> todo])
  BY DEF Writes, Free
<1>2. PvType' /\ dossier' = dossier /\ SelectedItems' = SelectedItems /\ submission' = submission
  BY <1>1 DEF PvInv, PvType, pvVars, SelectedItems, Offers, ItemsOf
<1>3. /\ req'[r] = [do |-> "lifecycle", step |-> dossier.step, todo |-> todo]
      /\ \A q \in Requests \ {r} : req'[q] = req[q]
  BY <1>1 DEF Await, PvInv, Common, KnownWork
<1>4. dossier.step \in Steps
  BY DEF PvInv, PvType, Dossier
<1>5. PvWork(r)'
  BY <1>3, <1>4 DEF PvWork
<1>6. Orderly => SubmissionStands' /\ Leads(dossier', todo)
  BY <1>1, <1>2, PvOpen DEF SubmissionStands
<1>7. req'[r].do = "lifecycle" /\ req'[r].todo = todo
  BY <1>3
<1>8. req'[r].do \in PvWords /\ req'[r].do \notin EditWords
  BY <1>7 DEF EditWords, PvWords
<1>9. QED
  BY <1>1, <1>2, <1>3, <1>5, <1>6, <1>7, <1>8, PvLater

LEMMA LifecycleCallsKeep ==
    ASSUME PvInv, Common', scene' = scene, NEW r \in Requests,
           \/ SubmitPv(r) \/ Validate(r) \/ Reject(r) \/ RequestChanges(r)
           \/ Publish(r) \/ UpdateAndRepublish(r) \/ ValidateDerogation(r) \/ UploadBC(r)
    PROVE  PvInv'
<1>1. Decidable => dossier.step \in {"PV", "BC"} /\ dossier.status \in OpenStatuses
  BY DEF Decidable, PvInv, PvType, Dossier, Steps
<1>2. CASE SubmitPv(r)
  <2> DEFINE todo == << "requirePv", "createPV", "PENDING_APPROVAL" >>
  <2>1. todo \in Todos /\ todo \notin Moves /\ (Settled(dossier) => Leads(dossier, todo))
    BY TodoHeads DEF Todos, Moves, Leads
  <2>2. QED
    BY <1>2, <2>1, WritesKeep DEF SubmitPv
<1>3. CASE Validate(r)
  <2>1. CASE Decidable /\ Writes(r, "validate", << "PUBLISHED", "moveOn" >>)
    <3>1. << "PUBLISHED", "moveOn" >> \in Todos /\ Leads(dossier, << "PUBLISHED", "moveOn" >>)
      BY TodoHeads DEF Todos, Leads
    <3>2. QED
      BY <1>1, <2>1, <3>1, WritesKeep
  <2>2. CASE Decidable /\ Writes(r, "validate", << dossier.status >>)
    <3>1. PICK todo : todo = << dossier.status >>
      OBVIOUS
    <3>2. \/ dossier.status = "PUBLISHED" /\ todo = << "PUBLISHED" >>
          \/ todo = << "PENDING_APPROVAL" >>
      BY <1>1, <2>2, <3>1 DEF OpenStatuses
    <3>3. todo \in Todos /\ todo \notin Moves
      BY <3>2 DEF Todos, Moves
    <3>4. Settled(dossier) => Leads(dossier, todo)
      BY <3>2, LeadsTo DEF Settled
    <3>5. QED
      BY <2>2, <3>1, <3>3, <3>4, WritesKeep
  <2>3. QED
    BY <1>3, <2>1, <2>2 DEF Validate
<1>4. CASE Reject(r) \/ RequestChanges(r)
  <2>1. PICK todo \in {<< "REJECTED" >>, << "CHANGE_REQUESTED" >>} :
            \E endpoint : Writes(r, endpoint, todo)
    BY <1>4 DEF Reject, RequestChanges
  <2>2. todo \in Todos /\ todo \notin Moves /\ Leads(dossier, todo)
    BY <2>1, TodoHeads DEF Todos, Moves, Leads
  <2>3. QED
    BY <2>1, <2>2, WritesKeep
<1>5. CASE Publish(r)
  <2>1. CASE Writes(r, "publish", << "dropAll", "createDA", "PUBLISHED" >>)
    <3> DEFINE todo == << "dropAll", "createDA", "PUBLISHED" >>
    <3>1. todo \in Todos /\ todo \notin Moves /\ Leads(dossier, todo)
      BY TodoHeads DEF Todos, Moves, Leads
    <3>2. QED
      BY <2>1, <3>1, WritesKeep
  <2>2. CASE dossier.status = "DRAFT" /\ Writes(r, "publish", << "createDA", "PUBLISHED" >>)
    <3> DEFINE todo == << "createDA", "PUBLISHED" >>
    <3>1. todo \in Todos /\ todo \notin Moves /\ (Settled(dossier) => Leads(dossier, todo))
      BY <2>2, LeadsTo DEF Todos, Moves, Settled
    <3>2. QED
      BY <2>2, <3>1, WritesKeep
  <2>3. QED
    BY <1>5, <2>1, <2>2 DEF Publish
<1>6. CASE UpdateAndRepublish(r)
  <2> DEFINE todo == << "DRAFT", "dropAll" >>
  <2>1. todo \in Todos /\ todo \notin Moves /\ Leads(dossier, todo)
    BY TodoHeads DEF Todos, Moves, Leads
  <2>2. QED
    BY <1>6, <2>1, WritesKeep DEF UpdateAndRepublish
<1>7. CASE ValidateDerogation(r)
  <2>1. PICK status \in {"PUBLISHED", "REJECTED"} :
            Writes(r, "validateDerogation", << "closeDerogation", status >>)
    BY <1>7 DEF ValidateDerogation
  <2>2. PICK todo : todo = << "closeDerogation", status >>
    OBVIOUS
  <2>3. todo \in Todos /\ todo \notin Moves
    BY <2>1, <2>2 DEF Todos, Moves
  <2>4. ~Orderly
    BY <2>1 DEF Writes, Free, Orderly
  <2>5. QED
    BY <2>1, <2>2, <2>3, <2>4, WritesKeep
<1>8. CASE UploadBC(r)
  <2> DEFINE todo == << "dropBC", "createBC", "PENDING_APPROVAL" >>
  <2>1. todo \in Todos /\ todo \notin Moves /\ (Settled(dossier) => Leads(dossier, todo))
    BY TodoHeads DEF Todos, Moves, Leads
  <2>2. QED
    BY <1>8, <2>1, WritesKeep DEF UploadBC
<1>9. QED
  BY <1>2, <1>3, <1>4, <1>5, <1>6, <1>7, <1>8

LEMMA RequirePvKeeps ==
    ASSUME PvInv, Common', scene' = scene, NEW r \in Requests, RequirePv(r)
    PROVE  PvInv'
<1>1. /\ req[r].do = "lifecycle" /\ Head(req[r].todo) = "requirePv"
      /\ Done(r) \/ GoesOn(r)
  BY DEF RequirePv, Writing
<1>2. req[r].todo = << "requirePv", "createPV", "PENDING_APPROVAL" >>
  <2>1. req[r].todo \in Todos
    BY <1>1 DEF PvInv, PvWork
  <2>2. QED
    BY <1>1, <2>1, TodoHeads DEF Todos
<1>3. PvType' /\ dossier' = dossier /\ SelectedItems' = SelectedItems /\ submission' = submission
  BY DEF RequirePv, PvInv, PvType, pvVars, SelectedItems, Offers, ItemsOf
<1>4. PvWork(r)' /\ \A q \in Requests \ {r} : req'[q] = req[q]
  BY <1>1, ListGoesOn
<1>5. \/ req'[r] = Idle
      \/ req'[r].do = "lifecycle" /\ req'[r].todo = << "createPV", "PENDING_APPROVAL" >>
  BY <1>1, <1>2, ListGoesOn, TodoTails
<1>6. Orderly => Settled(dossier) /\ SubmissionStands
  BY <1>1 DEF PvInv, PvOrderly, Leads
<1>7. Orderly => Settled(dossier') /\ SubmissionStands'
  BY <1>3, <1>6 DEF SubmissionStands
<1>8. req'[r].do \notin EditWords /\ req[r] # Idle
  BY <1>1, <1>5 DEF EditWords, PvWords, Idle
<1>9. Orderly => (req'[r].do = "lifecycle" => Leads(dossier', req'[r].todo))
  BY <1>5, <1>7, LeadsTo DEF Idle
<1>10. QED
  BY <1>3, <1>4, <1>7, <1>8, <1>9, PvLater

LEMMA CreateFlowKeeps ==
    ASSUME PvInv, Common', scene' = scene, NEW r \in Requests, CreateFlow(r)
    PROVE  PvInv'
<1>1. PICK write \in {"createDA", "createPV", "createBC"} :
        /\ Writing(r, write)
        /\ IF FlowOf[write] \in dossier.flows THEN Done(r) /\ UNCHANGED << dossier, submission >>
           ELSE /\ dossier' = [dossier EXCEPT !.flows = @ \cup {FlowOf[write]}]
                /\ submission' = IF write = "createPV" THEN SelectedItems ELSE submission
                /\ GoesOn(r)
  BY DEF CreateFlow, FlowOf
<1>2. req[r].do = "lifecycle" /\ Head(req[r].todo) = write /\ offers' = offers
  BY <1>1 DEF Writing, CreateFlow
<1>3. req[r].todo = IF write = "createDA" THEN << "createDA", "PUBLISHED" >>
                    ELSE << write, "PENDING_APPROVAL" >>
  <2>1. req[r].todo \in Todos
    BY <1>2 DEF PvInv, PvWork
  <2>2. QED
    BY <1>1, <1>2, <2>1, TodoHeads DEF Todos
<1>4. FlowOf[write] = IF write = "createDA" THEN "DA" ELSE IF write = "createPV" THEN "PV" ELSE "BC"
  BY <1>1 DEF FlowOf
<1>5. /\ dossier \in Dossier /\ dossier' \in Dossier /\ PvType'
      /\ dossier'.status = dossier.status
      /\ \/ dossier'.flows = dossier.flows
         \/ dossier'.flows = dossier.flows \cup {FlowOf[write]}
  BY <1>1, <1>2, <1>4 DEF PvInv, PvType, Dossier
<1>6. SelectedItems' = SelectedItems
  BY <1>2 DEF SelectedItems, Offers, ItemsOf
<1>7. PvWork(r)' /\ \A q \in Requests \ {r} : req'[q] = req[q]
  BY <1>1, <1>2, ListGoesOn
<1>8. Orderly => /\ SubmissionStands
                 /\ write = "createDA" => "PV" \notin dossier.flows
                 /\ Settled(dossier)
  BY <1>1, <1>2, <1>3 DEF PvInv, PvOrderly, Leads, Settled
<1>9. CASE FlowOf[write] \in dossier.flows
  <2>1. req'[r] = Idle /\ dossier' = dossier /\ submission' = submission
    BY <1>1, <1>9, DoneFrees DEF PvInv, Common
  <2>2. Orderly => SubmissionStands' /\ Settled(dossier')
    BY <1>6, <1>8, <2>1 DEF SubmissionStands
  <2>3. req'[r].do \notin EditWords /\ req'[r].do # "lifecycle" /\ req[r] # Idle
    BY <1>2, <2>1 DEF EditWords, PvWords, Idle
  <2>4. QED
    BY <1>5, <1>7, <2>2, <2>3, PvLater
<1>10. CASE FlowOf[write] \notin dossier.flows
  <2>1. Len(req[r].todo) # 1
    <3>1. req[r].todo \in Todos /\ req[r].todo \notin Singles
      BY <1>1, <1>2, TodoHeads DEF PvInv, PvWork, Singles
    <3>2. QED
      BY <3>1, TodoLengths
  <2>2. Await(r, [req[r] EXCEPT !.todo = Tail(@)])
    BY <1>1, <1>10, <2>1 DEF GoesOn
  <2>3. {"do", "todo"} \subseteq DOMAIN req[r]
    BY <1>2 DEF PvInv, PvWork
  <2>4. req'[r].do = "lifecycle" /\ req'[r].todo = Tail(req[r].todo)
    BY <1>2, <2>2, <2>3 DEF Await, PvInv, Common, KnownWork
  <2>5. /\ dossier'.flows = dossier.flows \cup {FlowOf[write]}
        /\ submission' = IF write = "createPV" THEN SelectedItems ELSE submission
    <3>1. /\ dossier' = [dossier EXCEPT !.flows = @ \cup {FlowOf[write]}]
          /\ submission' = IF write = "createPV" THEN SelectedItems ELSE submission
      BY <1>1, <1>10
    <3>2. QED
      BY <1>5, <3>1 DEF Dossier
  <2>6. Orderly => SubmissionStands'
    BY <1>1, <1>4, <1>6, <1>8, <2>5 DEF SubmissionStands
  <2>7. Orderly => Leads(dossier', req'[r].todo)
    <3>1. CASE write = "createDA"
      <4>1. req'[r].todo = << "PUBLISHED" >>
        BY <1>3, <2>4, <3>1, TodoTails
      <4>2. Orderly => "PV" \notin dossier'.flows
        BY <1>4, <1>8, <2>5, <3>1
      <4>3. QED
        BY <4>1, <4>2, LeadsTo
    <3>2. CASE write # "createDA"
      <4>1. req'[r].todo = << "PENDING_APPROVAL" >>
        BY <1>1, <1>3, <2>4, <3>2, TodoTails
      <4>2. QED
        BY <4>1, LeadsTo
    <3>3. QED
      BY <3>1, <3>2
  <2>8. req'[r].do \notin EditWords /\ req'[r].do \in PvWords /\ req[r] # Idle
    BY <1>2, <2>4 DEF EditWords, PvWords, Idle
  <2>9. QED
    BY <1>5, <1>7, <2>6, <2>7, <2>8, PvLater
<1>11. QED
  BY <1>9, <1>10

LEMMA UpdatePurchaseKeeps ==
    ASSUME PvInv, Common', scene' = scene, NEW r \in Requests, UpdatePurchase(r)
    PROVE  PvInv'
<1>1. PICK write \in Statuses \cup {"moveOn", "closeDerogation", "dropAll", "dropBC"} :
        Writing(r, write) /\ dossier' = Written(dossier, write, req[r].step)
  BY DEF UpdatePurchase
<1>2. /\ req[r].do = "lifecycle" /\ Head(req[r].todo) = write /\ GoesOn(r)
      /\ UNCHANGED << offers, submission >>
  BY <1>1 DEF UpdatePurchase, Writing
<1>3. PICK todo \in Todos, step \in Steps :
        /\ todo = req[r].todo /\ step = req[r].step
        /\ todo \in Moves => step \in {"PV", "BC"}
  BY <1>2 DEF PvInv, PvWork
<1>4. write = "moveOn" => NextStep[step] \in Steps
  <2>1. write = "moveOn" => todo = << "moveOn" >>
    BY <1>2, <1>3, TodoHeads DEF Todos
  <2>2. NextStep["PV"] = "BC" /\ NextStep["BC"] = "BR"
    BY DEF NextStep
  <2>3. write = "moveOn" => step \in {"PV", "BC"}
    BY <1>3, <2>1 DEF Moves
  <2>4. QED
    BY <2>2, <2>3 DEF Steps
<1>5. /\ dossier \in Dossier /\ dossier' \in Dossier
      /\ dossier'.flows = IF write = "dropAll" THEN {}
                          ELSE IF write = "dropBC" THEN dossier.flows \ {"BC"} ELSE dossier.flows
      /\ dossier'.status = IF write \in Statuses THEN write
                           ELSE IF write = "moveOn" THEN "AWAITING_DOCUMENTS" ELSE dossier.status
  <2>1. dossier \in Dossier
    BY DEF PvInv, PvType
  <2>2. CASE write \in Statuses
    <3>1. dossier' = [dossier EXCEPT !.status = write]
      BY <1>1, <2>2 DEF Written, Statuses
    <3>2. write \notin {"moveOn", "dropAll", "dropBC"}
      BY <2>2 DEF Statuses
    <3>3. QED
      BY <2>1, <2>2, <3>1, <3>2 DEF Dossier
  <2>3. CASE write = "moveOn"
    <3>1. dossier' = [dossier EXCEPT !.step = NextStep[step], !.status = "AWAITING_DOCUMENTS"]
      BY <1>1, <1>3, <2>3 DEF Written, Statuses
    <3>2. QED
      BY <1>4, <2>1, <2>3, <3>1 DEF Dossier, Statuses
  <2>4. CASE write \in {"closeDerogation", "dropAll", "dropBC"}
    <3>1. dossier' = IF write = "closeDerogation" THEN [dossier EXCEPT !.derogation = FALSE]
                     ELSE IF write = "dropAll" THEN [dossier EXCEPT !.flows = {}]
                     ELSE [dossier EXCEPT !.flows = @ \ {"BC"}]
      BY <1>1, <2>4 DEF Written, Statuses
    <3>2. write \notin Statuses /\ write # "moveOn"
      BY <2>4 DEF Statuses
    <3>3. QED
      BY <2>1, <2>4, <3>1, <3>2 DEF Dossier
  <2>5. QED
    BY <1>1, <2>2, <2>3, <2>4
<1>6. PvType'
  BY <1>2, <1>5 DEF PvInv, PvType
<1>7. /\ PvWork(r)' /\ \A q \in Requests \ {r} : req'[q] = req[q]
      /\ \/ req'[r] = Idle /\ (Done(r) \/ Len(todo) = 1)
         \/ req'[r].do = "lifecycle" /\ Len(todo) # 1 /\ req'[r].todo = Tail(todo)
  BY <1>2, <1>3, ListGoesOn
<1>8. Len(todo) = 1 => req'[r] = Idle
  <2>1. Len(todo) = 1 => Done(r)
    BY <1>2, <1>3 DEF GoesOn
  <2>2. QED
    BY <2>1, DoneFrees DEF PvInv, Common
<1>9. Len(todo) # 1 => req'[r].do = "lifecycle" /\ req'[r].todo = Tail(todo)
  <2>1. Len(todo) # 1 => Await(r, [req[r] EXCEPT !.todo = Tail(@)])
    BY <1>2, <1>3 DEF GoesOn
  <2>2. {"do", "todo"} \subseteq DOMAIN req[r]
    BY <1>2 DEF PvInv, PvWork
  <2>3. QED
    BY <1>2, <1>3, <2>1, <2>2 DEF Await, PvInv, Common, KnownWork
<1>10. SelectedItems' = SelectedItems
  BY <1>2 DEF SelectedItems, Offers, ItemsOf
<1>11. Orderly => SubmissionStands /\ Leads(dossier, todo)
  BY <1>2, <1>3 DEF PvInv, PvOrderly
<1>12. Orderly => SubmissionStands'
  BY <1>2, <1>5, <1>10, <1>11 DEF SubmissionStands
<1>13. ASSUME Orderly, Len(todo) = 1
       PROVE  Settled(dossier')
  <2>1. todo \in Singles
    BY <1>13, TodoLengths
  <2>2. CASE todo = << "PUBLISHED" >>
    <3>1. "PV" \notin dossier.flows /\ write = "PUBLISHED"
      BY <1>2, <1>3, <1>11, <1>13, <2>2, TodoHeads DEF Leads
    <3>2. QED
      BY <1>5, <3>1 DEF Settled
  <2>3. CASE todo # << "PUBLISHED" >>
    <3>1. write \in {"PENDING_APPROVAL", "REJECTED", "CHANGE_REQUESTED", "moveOn", "dropAll"}
      BY <1>2, <1>3, <2>1, <2>3, TodoHeads DEF Singles
    <3>2. QED
      BY <1>5, <3>1 DEF Settled, Statuses
  <2>4. QED
    BY <2>2, <2>3
<1>14. ASSUME Orderly, Len(todo) # 1
       PROVE  Leads(dossier', Tail(todo))
  <2>1. todo \notin Singles
    BY <1>14, TodoLengths
  <2>2. write \notin {"requirePv", "createPV", "createDA", "createBC", "closeDerogation"}
    BY <1>1, <1>2, <1>3, <1>11, <1>14 DEF Leads, Statuses
  <2>3. todo \in {<< "PUBLISHED", "moveOn" >>, << "dropAll", "createDA", "PUBLISHED" >>,
                  << "DRAFT", "dropAll" >>, << "dropBC", "createBC", "PENDING_APPROVAL" >>}
    BY <1>2, <1>3, <2>1, <2>2, TodoHeads DEF Todos, Singles
  <2>4. CASE todo \in {<< "PUBLISHED", "moveOn" >>, << "DRAFT", "dropAll" >>}
    BY <2>4, TodoTails, LeadsTo
  <2>5. CASE todo = << "dropAll", "createDA", "PUBLISHED" >>
    <3>1. "PV" \notin dossier'.flows
      BY <1>2, <1>3, <1>5, <2>5, TodoHeads
    <3>2. QED
      BY <2>5, <3>1, TodoTails, LeadsTo
  <2>6. CASE todo = << "dropBC", "createBC", "PENDING_APPROVAL" >>
    <3>1. write = "dropBC" /\ Settled(dossier)
      BY <1>2, <1>3, <1>11, <1>14, <2>6, TodoHeads DEF Leads
    <3>2. Settled(dossier')
      BY <1>5, <3>1 DEF Settled, Statuses
    <3>3. QED
      BY <2>6, <3>2, TodoTails, LeadsTo
  <2>7. QED
    BY <2>3, <2>4, <2>5, <2>6
<1>15. req'[r].do \notin EditWords /\ req[r] # Idle /\ (req'[r] = Idle => req'[r].do # "lifecycle")
  BY <1>2, <1>7 DEF EditWords, PvWords, Idle
<1>16. "lifecycle" \in PvWords
  BY DEF PvWords
<1>17. QED
  BY <1>6, <1>7, <1>8, <1>9, <1>12, <1>13, <1>14, <1>15, <1>16, PvLater

LEMMA PvKept ==
    ASSUME PvInv, [Next]_vars
    PROVE  PvInv'
<1>1. Common' /\ scene' = scene
  BY StepsKeepCommon DEF PvInv
<1>2. ASSUME NEW r \in Requests, PvNext(r)
      PROVE  PvInv'
  BY <1>1, <1>2, PvCallsKeep, SuppliersKeep, DeleteItemsKeeps, CreateItemKeeps, ItemsEndKeeps,
     MarkKeeps, LifecycleCallsKeep, RequirePvKeeps, CreateFlowKeeps, UpdatePurchaseKeeps
     DEF PvNext, PvEdits, PvLifecycle
<1>3. CASE /\ UNCHANGED pvVars /\ Elsewhere(PvWords)
           /\ Calm => \A q \in Requests : req'[q] = req[q] \/ req[q].do \notin PvWords
  <2>1. UNCHANGED << offers, dossier, submission >>
    BY <1>3 DEF pvVars
  <2>2. PvType' /\ SelectedItems' = SelectedItems
    BY <2>1 DEF PvInv, PvType, SelectedItems, Offers, ItemsOf
  <2>3. ASSUME NEW r \in Requests
        PROVE  PvWork(r)'
    <3>1. CASE req'[r] = req[r]
      BY <3>1 DEF PvInv, PvWork
    <3>2. CASE req'[r].do \notin PvWords
      BY <3>2 DEF PvWork, PvWords
    <3>3. QED
      BY <1>3, <3>1, <3>2 DEF Elsewhere
  <2>4. ASSUME Orderly'
        PROVE  PvOrderly'
    <3>1. Calm /\ PvOrderly
      BY <1>1, <2>4 DEF Orderly, Serial, Calm, PvInv
    <3>2. \A q \in Requests :
            req'[q] = req[q] \/ (req[q].do \notin PvWords /\ req'[q].do \notin PvWords)
      BY <1>3, <3>1 DEF Elsewhere
    <3>3. \A q \in Requests : req[q].do \in PvWords <=> req'[q].do \in PvWords
      BY <3>2
    <3>4. \A q \in Requests : req'[q].do \in PvWords => req'[q] = req[q]
      BY <3>2
    <3>5. EditWords \subseteq PvWords /\ "lifecycle" \in PvWords
      BY DEF EditWords, PvWords
    <3>6. QED
      BY <2>1, <2>2, <3>1, <3>3, <3>4, <3>5 DEF PvOrderly, SubmissionStands
  <2>5. QED
    BY <1>1, <2>2, <2>3, <2>4 DEF PvInv
<1>4. QED
  BY <1>2, <1>3, PvElsewhere DEF PvInv

LEMMA PvAlways == Spec => []PvInv
<1>1. Init => PvInv
  BY PvStart
<1>2. PvInv /\ [Next]_vars => PvInv'
  BY PvKept
<1>3. QED
  BY <1>1, <1>2, PTL DEF Spec

\* When requests come one after the other and none is cut short, a PV that
\* waits for its signatures, or has been signed, shows what was submitted as
\* long as it has its workflow: the status that opens it to changes comes back
\* only with the end of the workflow, through any decisions, change requests,
\* revisions and new submissions.
THEOREM PvAlwaysSettled == Spec => []PvSettled
<1>1. PvInv => PvSettled
  BY DEF PvInv, PvOrderly, Orderly, PvSettled
<1>2. QED
  BY <1>1, PvAlways, PTL

-----------------------------------------------------------------------------
(* The stock of the IT park.                                               *)

\* An asset that does not exist has no attribution, and no counter exceeds
\* what is attributed; when requests come one after the other it is that, and
\* what is archived has no active attribution.
Counted ==
    \A a \in Assets :
        IF assets[a] = None THEN ActiveOf(a) = {}
        ELSE /\ assets[a].quantiteAttribuee <= Attributed(a)
             /\ Serial => /\ assets[a].quantiteAttribuee = Attributed(a)
                          /\ assets[a].archived => ActiveOf(a) = {}

\* A handler works on an asset that exists, and on one of its attributions;
\* alone, it finds them as it read them.
StockWork(r) ==
    LET w == req[r]
    IN  /\ w.do \in StockWords => w.asset \in Assets /\ assets[w.asset] # None
        /\ w.do = "updateAsset" => w.total \in Quantities
        /\ w.do = "attribute" => w.quantity \in Quantities
        /\ w.do = "return" =>
            /\ w.attribution \in DOMAIN attributions
            /\ attributions[w.attribution].asset = w.asset
        /\ Serial =>
            /\ w.do = "attribute" => ~assets[w.asset].archived
            /\ w.do = "archiveAsset" => ActiveOf(w.asset) = {}
            /\ w.do = "return" => attributions[w.attribution].active

StockInv ==
    /\ Common /\ StockType /\ Counted
    /\ \A r \in Requests : StockWork(r)

LEMMA StockElsewhere ==
    ASSUME KnownWork, [Next]_vars
    PROVE  \/ \E r \in Requests : StockNext(r)
           \/ UNCHANGED stockVars /\ Elsewhere(StockWords)
<1>1. CASE UNCHANGED vars
  BY <1>1 DEF vars, Elsewhere
<1>2. ASSUME NEW words \in {BudgetWords, NumbersWords, TicketWords, PvWords, AccountWords,
                            FileWords, SigningWords, LeaseWords, ReportWords}, Leaves(words)
      PROVE  Elsewhere(StockWords)
  <2>1. words \cap StockWords = {} /\ "idle" \notin StockWords
    BY DEF BudgetWords, NumbersWords, TicketWords, StockWords, AccountWords, FileWords,
           SigningWords, LeaseWords, PvWords, ReportWords
  <2>2. QED
    BY <1>2, <2>1, LeavesElsewhere
<1>3. CASE SigningStep
  BY <1>2, <1>3, SigningLeaves DEF SigningStep
<1>4. ASSUME NEW r \in Requests, BudgetStep(r) \/ TicketsStep(r)
      PROVE  UNCHANGED stockVars /\ Elsewhere(StockWords)
  BY <1>2, <1>4, BudgetLeaves, TicketsLeave, NumbersLeave DEF BudgetStep, TicketsStep
<1>5. ASSUME NEW r \in Requests, AccountsStep(r)
      PROVE  UNCHANGED stockVars /\ Elsewhere(StockWords)
  BY <1>2, <1>5, AccountsLeave, FilesLeave DEF AccountsStep, DeleteUserAndFiles
<1>6. ASSUME NEW r \in Requests, LeasesStep(r) \/ PvStep(r) \/ OtherStep(r)
      PROVE  UNCHANGED stockVars /\ Elsewhere(StockWords)
  BY <1>2, <1>6, LeasesLeave, PvLeaves, OtherLeaves DEF LeasesStep, PvStep, OtherStep
<1>7. QED
  BY <1>1, <1>3, <1>4, <1>5, <1>6 DEF Next, StockStep

LEMMA StockStart ==
    ASSUME Init
    PROVE  StockInv
<1>1. Common /\ \A r \in Requests : req[r] = Idle
  BY StartCommon, StartKnown
<1>2. assets = [a \in Assets |-> None] /\ attributions = << >>
  BY DEF Init, StockInit
<1>3. StockType /\ Counted
  BY <1>2 DEF StockType, Counted, ActiveOf
<1>4. \A r \in Requests : StockWork(r)
  BY <1>1 DEF StockWork, Idle, StockWords
<1>5. QED
  BY <1>1, <1>3, <1>4 DEF StockInv

\* What is attributed is a number, and a sum over finitely many attributions.
LEMMA AttributedIs ==
    ASSUME StockType, NEW a
    PROVE  /\ IsFiniteSet(ActiveOf(a)) /\ Attributed(a) \in Int
           /\ \A i \in DOMAIN attributions : attributions[i].quantity \in Int
<1>0. \A q \in Quantities : q \in Int
  BY ItStockAssumption
<1>1. /\ attributions \in Seq(Attribution)
      /\ DOMAIN attributions = 1 .. Len(attributions) /\ Len(attributions) \in Nat
  BY DEF StockType
<1>2. IsFiniteSet(ActiveOf(a))
  <2>1. IsFiniteSet(DOMAIN attributions)
    BY <1>1, FS_Interval
  <2>2. ActiveOf(a) \in SUBSET DOMAIN attributions
    BY DEF ActiveOf
  <2>3. QED
    BY <2>1, <2>2, FS_Subset
<1>3. ASSUME NEW i \in DOMAIN attributions
      PROVE  attributions[i].quantity \in Int
  <2>1. attributions[i] \in Attribution
    BY <1>1
  <2>2. attributions[i].quantity \in Quantities
    BY <2>1 DEF Attribution
  <2>3. QED
    BY <1>0, <2>2
<1>4. QED
  BY <1>2, <1>3, SumIsInt DEF Attributed, ActiveOf

\* The attributions of an asset stay as they are.
LEMMA AttributedStays ==
    ASSUME StockType, NEW a, ActiveOf(a)' = ActiveOf(a),
           \A i \in ActiveOf(a) : attributions'[i].quantity = attributions[i].quantity
    PROVE  Attributed(a)' = Attributed(a)
<1> DEFINE f == [i \in DOMAIN attributions |-> attributions[i].quantity]
<1>1. \A i \in ActiveOf(a) : f[i] = f'[i]
  BY DEF ActiveOf
<1>2. IsFiniteSet(ActiveOf(a))
  BY AttributedIs
<1> HIDE DEF f
<1>3. SumFunctionOnSet(f, ActiveOf(a)) = SumFunctionOnSet(f', ActiveOf(a))
  BY <1>1, <1>2, SumSame
<1>4. QED
  BY <1>3 DEF Attributed, f

LEMMA AttributedGrows ==
    ASSUME StockType, NEW a \in Assets, NEW q \in Quantities,
           attributions' = Append(attributions, [asset |-> a, quantity |-> q, active |-> TRUE])
    PROVE  /\ attributions' \in Seq(Attribution) /\ DOMAIN attributions \subseteq DOMAIN attributions'
           /\ \A i \in DOMAIN attributions : attributions'[i] = attributions[i]
           /\ Attributed(a)' = q + Attributed(a)
           /\ \A b \in Assets \ {a} : ActiveOf(b)' = ActiveOf(b) /\ Attributed(b)' = Attributed(b)
<1>1. PICK n, new : n = Len(attributions) + 1 /\ new = [asset |-> a, quantity |-> q, active |-> TRUE]
  OBVIOUS
<1>2. new \in Attribution /\ attributions \in Seq(Attribution)
  BY <1>1 DEF Attribution, StockType
<1>3. /\ attributions' \in Seq(Attribution) /\ DOMAIN attributions' = DOMAIN attributions \cup {n}
      /\ n \notin DOMAIN attributions /\ attributions'[n] = new
      /\ \A i \in DOMAIN attributions : attributions'[i] = attributions[i]
  BY <1>1, <1>2
<1>4. ActiveOf(a)' = ActiveOf(a) \cup {n} /\ n \notin ActiveOf(a)
  BY <1>1, <1>3 DEF ActiveOf
<1>5. \A b \in Assets \ {a} : ActiveOf(b)' = ActiveOf(b)
  BY <1>1, <1>3 DEF ActiveOf
<1>6. \A b \in Assets \ {a} : Attributed(b)' = Attributed(b)
  BY <1>3, <1>5, AttributedStays DEF ActiveOf
<1>7. Attributed(a)' = q + Attributed(a)
  <2> DEFINE f == [i \in DOMAIN attributions |-> attributions[i].quantity]
             h == [i \in DOMAIN attributions' |-> attributions'[i].quantity]
  <2>1. /\ \A i \in ActiveOf(a) : f[i] = h[i] /\ h[i] \in Int
        /\ h[n] = q /\ q \in Int
    <3>1. q \in Int /\ n \in DOMAIN attributions'
      BY <1>3, ItStockAssumption
    <3>2. h[n] = q
      BY <1>1, <1>3, <3>1
    <3>3. \A i \in ActiveOf(a) : f[i] = h[i] /\ f[i] = attributions[i].quantity
      BY <1>3 DEF ActiveOf
    <3>4. \A i \in ActiveOf(a) : attributions[i].quantity \in Int
      BY AttributedIs DEF ActiveOf
    <3>5. QED
      BY <3>1, <3>2, <3>3, <3>4
  <2>2. IsFiniteSet(ActiveOf(a))
    BY AttributedIs
  <2>3. Attributed(a) = SumFunctionOnSet(f, ActiveOf(a))
        /\ Attributed(a)' = SumFunctionOnSet(h, ActiveOf(a) \cup {n})
    BY <1>4 DEF Attributed
  <2> HIDE DEF f, h
  <2>4. SumFunctionOnSet(h, ActiveOf(a) \cup {n}) = h[n] + SumFunctionOnSet(h, ActiveOf(a))
    BY <1>4, <2>1, <2>2, SumAdds
  <2>5. SumFunctionOnSet(f, ActiveOf(a)) = SumFunctionOnSet(h, ActiveOf(a))
    BY <2>1, <2>2, SumSame
  <2>6. QED
    BY <2>1, <2>3, <2>4, <2>5
<1>8. QED
  BY <1>3, <1>5, <1>6, <1>7

LEMMA IsSequence ==
    ASSUME NEW n \in Nat, NEW T, NEW s \in [1 .. n -> T]
    PROVE  s \in Seq(T)
OBVIOUS

LEMMA AttributedFalls ==
    ASSUME StockType, NEW i \in DOMAIN attributions, NEW a \in Assets, attributions[i].asset = a,
           attributions' = [attributions EXCEPT ![i].active = FALSE]
    PROVE  /\ attributions' \in Seq(Attribution) /\ DOMAIN attributions' = DOMAIN attributions
           /\ \A j \in DOMAIN attributions \ {i} : attributions'[j] = attributions[j]
           /\ attributions'[i].asset = a
           /\ Attributed(a)' = IF attributions[i].active
                               THEN Attributed(a) - attributions[i].quantity ELSE Attributed(a)
           /\ ActiveOf(a)' = ActiveOf(a) \ {i}
           /\ \A b \in Assets \ {a} : ActiveOf(b)' = ActiveOf(b) /\ Attributed(b)' = Attributed(b)
<1>1. /\ attributions \in Seq(Attribution) /\ attributions[i] \in Attribution
      /\ DOMAIN attributions = 1 .. Len(attributions) /\ Len(attributions) \in Nat
  BY DEF StockType
<1>2. PICK new : new = [attributions[i] EXCEPT !.active = FALSE]
  OBVIOUS
<1>3. new \in Attribution /\ ~new.active /\ new.asset = a /\ new.quantity = attributions[i].quantity
  BY <1>1, <1>2 DEF Attribution
<1>4. /\ attributions' \in Seq(Attribution) /\ DOMAIN attributions' = DOMAIN attributions
      /\ attributions'[i] = new
      /\ \A j \in DOMAIN attributions \ {i} : attributions'[j] = attributions[j]
  <2>1. attributions' = [attributions EXCEPT ![i] = new]
    BY <1>2
  <2>2. DOMAIN attributions' = DOMAIN attributions /\ attributions'[i] = new
        /\ \A j \in DOMAIN attributions \ {i} : attributions'[j] = attributions[j]
    BY <1>1, <2>1
  <2>3. attributions' \in Seq(Attribution)
    <3>1. \A j \in 1 .. Len(attributions) : attributions[j] \in Attribution
      BY <1>1
    <3>2. \A j \in 1 .. Len(attributions) : attributions'[j] \in Attribution
      BY <1>1, <1>3, <2>2, <3>1
    <3>3. PICK n \in Nat : n = Len(attributions)
      BY <1>1
    <3>4. attributions' = [j \in 1 .. n |-> attributions'[j]]
      BY <1>1, <2>1, <3>3
    <3>5. attributions' \in [1 .. n -> Attribution]
      BY <3>2, <3>3, <3>4
    <3>6. QED
      BY <3>3, <3>5, IsSequence
  <2>4. QED
    BY <2>2, <2>3
<1>5. ActiveOf(a)' = ActiveOf(a) \ {i} /\ \A b \in Assets \ {a} : ActiveOf(b)' = ActiveOf(b)
  BY <1>3, <1>4 DEF ActiveOf
<1>6. \A j \in DOMAIN attributions : attributions'[j].quantity = attributions[j].quantity
  BY <1>3, <1>4
<1>7. \A b \in Assets \ {a} : Attributed(b)' = Attributed(b)
  BY <1>5, <1>6, AttributedStays DEF ActiveOf
<1>8. CASE ~attributions[i].active
  <2>1. ActiveOf(a)' = ActiveOf(a)
    BY <1>5, <1>8 DEF ActiveOf
  <2>2. Attributed(a)' = Attributed(a)
    BY <1>6, <2>1, AttributedStays DEF ActiveOf
  <2>3. QED
    BY <1>3, <1>4, <1>5, <1>7, <1>8, <2>2
<1>9. CASE attributions[i].active
  <2> DEFINE f == [j \in DOMAIN attributions |-> attributions[j].quantity]
             h == [j \in DOMAIN attributions' |-> attributions'[j].quantity]
  <2>1. f = h /\ f[i] = attributions[i].quantity /\ \A j \in ActiveOf(a) : f[j] \in Int
    BY <1>4, <1>6, AttributedIs DEF ActiveOf
  <2>2. IsFiniteSet(ActiveOf(a)) /\ i \in ActiveOf(a)
    BY <1>9, AttributedIs DEF ActiveOf
  <2>3. Attributed(a) = SumFunctionOnSet(f, ActiveOf(a))
        /\ Attributed(a)' = SumFunctionOnSet(h, ActiveOf(a) \ {i})
    BY <1>5 DEF Attributed
  <2> HIDE DEF f, h
  <2>4. /\ SumFunctionOnSet(f, ActiveOf(a)) = f[i] + SumFunctionOnSet(f, ActiveOf(a) \ {i})
        /\ SumFunctionOnSet(f, ActiveOf(a) \ {i}) \in Int
    <3>1. PICK S : S = ActiveOf(a)
      OBVIOUS
    <3>2. IsFiniteSet(S) /\ i \in S /\ \A j \in S : f[j] \in Int
      BY <2>1, <2>2, <3>1
    <3>3. SumFunctionOnSet(f, S) = f[i] + SumFunctionOnSet(f, S \ {i})
          /\ SumFunctionOnSet(f, S \ {i}) \in Int
      BY <3>2, SumSplit
    <3>4. QED
      BY <3>1, <3>3
  <2>5. attributions[i].quantity \in Int
    BY AttributedIs
  <2>6. Attributed(a)' = Attributed(a) - attributions[i].quantity
    BY <2>1, <2>3, <2>4, <2>5
  <2>7. QED
    BY <1>3, <1>4, <1>5, <1>7, <1>9, <2>6
<1>10. QED
  BY <1>8, <1>9

\* A step of r, who is alone if requests come one after the other.
LEMMA StockLater ==
    ASSUME StockInv, Common', scene' = scene, NEW r \in Requests,
           req[r] # Idle \/ r \in scene.requests,
           \A q \in Requests \ {r} : req'[q] = req[q],
           StockType', Counted', StockWork(r)',
           \A a \in Assets : assets[a] # None => assets'[a] # None,
           \A i \in DOMAIN attributions :
                i \in DOMAIN attributions' /\ attributions'[i].asset = attributions[i].asset
    PROVE  StockInv'
<1>1. Serial' <=> Serial
  BY DEF Serial
<1>2. ASSUME NEW q \in Requests \ {r}
      PROVE  StockWork(q)'
  <2>1. CASE Serial
    <3>1. req'[q] = Idle
      BY <2>1, SerialAlone DEF StockInv
    <3>2. QED
      BY <3>1 DEF StockWork, Idle, StockWords
  <2>2. CASE ~Serial
    BY <1>1, <2>2 DEF StockInv, StockWork
  <2>3. QED
    BY <2>1, <2>2
<1>3. QED
  BY <1>2 DEF StockInv

LEMMA StockReads ==
    ASSUME StockInv, Common', scene' = scene, NEW r \in Requests, NEW w, Await(r, w),
           r \in scene.requests, UNCHANGED stockVars, w.asset \in Assets, assets[w.asset] # None,
           w.do \in StockWords,
           w.do = "updateAsset" => w.total \in Quantities,
           w.do = "attribute" => w.quantity \in Quantities /\ ~assets[w.asset].archived,
           w.do = "archiveAsset" => ActiveOf(w.asset) = {},
           w.do = "return" => w.attribution \in ActiveOf(w.asset)
    PROVE  StockInv'
<1>1. req'[r] = w /\ \A q \in Requests \ {r} : req'[q] = req[q]
  BY DEF Await, StockInv, Common, KnownWork
<1>2. assets' = assets /\ attributions' = attributions
  BY DEF stockVars
<1>3. /\ Serial' <=> Serial
      /\ \A a : ActiveOf(a)' = ActiveOf(a) /\ Attributed(a)' = Attributed(a)
  BY <1>2 DEF Serial, ActiveOf, Attributed
<1>4. StockType' /\ Counted'
  BY <1>2, <1>3 DEF StockInv, StockType, Counted
<1>5. StockWork(r)'
  BY <1>1, <1>2, <1>3 DEF StockWork, ActiveOf
<1>6. QED
  BY <1>1, <1>2, <1>4, <1>5, StockLater

LEMMA StockCallsKeep ==
    ASSUME StockInv, Common', scene' = scene, NEW r \in Requests, NEW a \in Assets,
           UpdateAsset(r, a) \/ ArchiveAsset(r, a) \/ Attribute(r, a) \/ Return(r, a)
    PROVE  StockInv'
<1>1. r \in scene.requests /\ UNCHANGED stockVars
  BY DEF UpdateAsset, ArchiveAsset, Attribute, Return, StockCalled, Free, stockVars
<1>2. CASE UpdateAsset(r, a)
  <2>1. PICK n \in Quantities : Await(r, [do |-> "updateAsset", asset |-> a, total |-> n])
    BY <1>2 DEF UpdateAsset
  <2>2. QED
    BY <1>1, <1>2, <2>1, StockReads DEF UpdateAsset, InStock, StockWords
<1>3. CASE ArchiveAsset(r, a)
  BY <1>1, <1>3, StockReads DEF ArchiveAsset, InStock, StockWords
<1>4. CASE Attribute(r, a)
  <2>1. PICK q \in Quantities : Await(r, [do |-> "attribute", asset |-> a, quantity |-> q])
    BY <1>4 DEF Attribute
  <2>2. QED
    BY <1>1, <1>4, <2>1, StockReads DEF Attribute, InStock, StockWords
<1>5. CASE Return(r, a)
  <2>1. PICK i \in ActiveOf(a) : Await(r, [do |-> "return", asset |-> a, attribution |-> i])
    BY <1>5 DEF Return
  <2>2. i \in DOMAIN attributions /\ attributions[i].asset = a
    BY <2>1 DEF ActiveOf
  <2>3. assets[a] # None
    BY <2>1 DEF StockInv, Counted
  <2>4. QED
    BY <1>1, <2>1, <2>3, StockReads DEF StockWords
<1>6. QED
  BY <1>2, <1>3, <1>4, <1>5

LEMMA CreateAssetKeeps ==
    ASSUME StockInv, Common', scene' = scene, NEW r \in Requests, NEW a \in Assets, CreateAsset(r, a)
    PROVE  StockInv'
<1>1. PICK new \in AssetRow :
            /\ assets' = [assets EXCEPT ![a] = new]
            /\ new.quantiteAttribuee = 0 /\ ~new.archived
  <2>1. PICK n \in Quantities : assets' = [assets EXCEPT ![a] =
            [quantiteTotal |-> n, quantiteAttribuee |-> 0, archived |-> FALSE]]
    BY DEF CreateAsset
  <2>2. [quantiteTotal |-> n, quantiteAttribuee |-> 0, archived |-> FALSE] \in AssetRow
    BY DEF AssetRow
  <2>3. QED
    BY <2>1, <2>2
<1>2. /\ req' = req /\ attributions' = attributions /\ assets[a] = None
      /\ r \in scene.requests /\ req[r] = Idle
  BY DEF CreateAsset, Free
<1>3. assets \in [Assets -> AssetRow \cup {None}]
  BY DEF StockInv, StockType
<1>4. assets'[a] = new /\ \A b \in Assets \ {a} : assets'[b] = assets[b]
  BY <1>1, <1>3
<1>5. StockType'
  BY <1>1, <1>2, <1>3 DEF StockInv, StockType
<1>6. /\ Serial' <=> Serial
      /\ \A b : ActiveOf(b)' = ActiveOf(b) /\ Attributed(b)' = Attributed(b)
  BY <1>2 DEF Serial, ActiveOf, Attributed
<1>7. ActiveOf(a) = {} /\ Attributed(a) = 0
  <2>1. ActiveOf(a) = {}
    BY <1>2 DEF StockInv, Counted
  <2>2. QED
    BY <2>1, SumOfNone DEF Attributed
<1>8. Counted'
  <2>1. ASSUME NEW b \in Assets \ {a}
        PROVE  IF assets'[b] = None THEN ActiveOf(b)' = {}
               ELSE /\ assets'[b].quantiteAttribuee <= Attributed(b)'
                    /\ Serial => /\ assets'[b].quantiteAttribuee = Attributed(b)'
                                 /\ assets'[b].archived => ActiveOf(b)' = {}
    BY <1>4, <1>6, <2>1 DEF StockInv, Counted
  <2>2. new.quantiteAttribuee <= Attributed(a)' /\ Attributed(a)' = 0
    BY <1>1, <1>6, <1>7
  <2>3. QED
    BY <1>1, <1>4, <1>6, <1>7, <2>1, <2>2 DEF Counted
<1>9. \A b \in Assets : assets[b] # None => assets'[b] = assets[b] /\ assets'[b] # None
  BY <1>2, <1>4
<1>10. StockWork(r)'
  BY <1>2 DEF StockWork, StockWords, Idle
<1>11. QED
  BY <1>2, <1>5, <1>8, <1>9, <1>10, StockLater

\* A write that gives an asset another row.
LEMMA AssetWritten ==
    ASSUME StockInv, NEW a \in Assets, assets[a] # None, NEW new \in AssetRow,
           assets' = [assets EXCEPT ![a] = new]
    PROVE  /\ assets' \in [Assets -> AssetRow \cup {None}]
           /\ assets'[a] = new /\ new # None
           /\ \A b \in Assets \ {a} : assets'[b] = assets[b]
           /\ \A b \in Assets : assets[b] # None => assets'[b] # None
<1>1. assets \in [Assets -> AssetRow \cup {None}] /\ new # None
  BY NoAssetAssumption DEF StockInv, StockType
<1>2. QED
  BY <1>1

\* The totals and the archive mark.
LEMMA EditAssetKeeps ==
    ASSUME StockInv, Common', scene' = scene, NEW r \in Requests, WriteStock(r),
           req[r].do \in {"updateAsset", "archiveAsset"}
    PROVE  StockInv'
<1>1. PICK a \in Assets : a = req[r].asset /\ assets[a] # None
  BY DEF StockInv, StockWork, StockWords
<1>2. assets[a] \in AssetRow
  BY <1>1 DEF StockInv, StockType
<1>3. PICK new \in AssetRow :
        /\ assets' = [assets EXCEPT ![a] = new]
        /\ new.quantiteAttribuee = assets[a].quantiteAttribuee
        /\ Serial /\ new.archived => ActiveOf(a) = {}
  <2>1. CASE req[r].do = "updateAsset"
    <3>1. PICK new : new = [assets[a] EXCEPT !.quantiteTotal = req[r].total]
      OBVIOUS
    <3>2. req[r].total \in Quantities
      BY <2>1 DEF StockInv, StockWork
    <3>3. /\ new \in AssetRow /\ new.quantiteAttribuee = assets[a].quantiteAttribuee
          /\ new.archived = assets[a].archived
      BY <1>2, <3>1, <3>2 DEF AssetRow
    <3>4. assets' = [assets EXCEPT ![a] = new]
      BY <1>1, <2>1, <3>1 DEF WriteStock
    <3>5. Serial /\ assets[a].archived => ActiveOf(a) = {}
      BY <1>1 DEF StockInv, Counted
    <3>6. QED
      BY <3>3, <3>4, <3>5
  <2>2. CASE req[r].do = "archiveAsset"
    <3>1. PICK new : new = [assets[a] EXCEPT !.archived = TRUE]
      OBVIOUS
    <3>2. new \in AssetRow /\ new.quantiteAttribuee = assets[a].quantiteAttribuee
      BY <1>2, <3>1 DEF AssetRow
    <3>3. assets' = [assets EXCEPT ![a] = new]
      BY <1>1, <2>2, <3>1 DEF WriteStock
    <3>4. Serial => ActiveOf(a) = {}
      BY <1>1, <2>2 DEF StockInv, StockWork
    <3>5. QED
      BY <3>2, <3>3, <3>4
  <2>3. QED
    BY <2>1, <2>2
<1>4. attributions' = attributions /\ Done(r)
  BY DEF WriteStock
<1>5. /\ assets' \in [Assets -> AssetRow \cup {None}]
      /\ assets'[a] = new /\ new # None
      /\ \A b \in Assets \ {a} : assets'[b] = assets[b]
      /\ \A b \in Assets : assets[b] # None => assets'[b] # None
  BY <1>1, <1>3, AssetWritten
<1>6. /\ Serial' <=> Serial
      /\ \A b : ActiveOf(b)' = ActiveOf(b) /\ Attributed(b)' = Attributed(b)
  BY <1>4 DEF Serial, ActiveOf, Attributed
<1>7. StockType'
  BY <1>4, <1>5 DEF StockInv, StockType
<1>8. Counted'
  BY <1>1, <1>3, <1>5, <1>6 DEF StockInv, Counted
<1>9. req'[r] = Idle /\ req[r] # Idle /\ \A q \in Requests \ {r} : req'[q] = req[q]
  BY <1>4, DoneFrees DEF StockInv, Common
<1>10. StockWork(r)'
  BY <1>9 DEF StockWork, StockWords, Idle
<1>11. QED
  BY <1>4, <1>5, <1>7, <1>8, <1>9, <1>10, StockLater

LEMMA AttributeKeeps ==
    ASSUME StockInv, Common', scene' = scene, NEW r \in Requests, WriteStock(r),
           req[r].do = "attribute"
    PROVE  StockInv'
<1>1. PICK a \in Assets : a = req[r].asset /\ assets[a] # None
  BY DEF StockInv, StockWork, StockWords
<1>2. PICK q \in Quantities : q = req[r].quantity
  BY DEF StockInv, StockWork
<1>3. assets[a] \in AssetRow /\ q \in Int /\ assets[a].quantiteAttribuee \in Int
  BY <1>1, ItStockAssumption DEF StockInv, StockType, AssetRow
<1>4. PICK new : new = [assets[a] EXCEPT !.quantiteAttribuee = @ + q]
  OBVIOUS
<1>5. /\ new \in AssetRow /\ new.quantiteAttribuee = assets[a].quantiteAttribuee + q
      /\ new.archived = assets[a].archived
  BY <1>3, <1>4 DEF AssetRow
<1>6. /\ assets' = [assets EXCEPT ![a] = new] /\ Done(r)
      /\ attributions' = Append(attributions, [asset |-> a, quantity |-> q, active |-> TRUE])
  BY <1>1, <1>2, <1>4 DEF WriteStock
<1>7. /\ assets' \in [Assets -> AssetRow \cup {None}]
      /\ assets'[a] = new /\ new # None
      /\ \A b \in Assets \ {a} : assets'[b] = assets[b]
      /\ \A b \in Assets : assets[b] # None => assets'[b] # None
  BY <1>1, <1>5, <1>6, AssetWritten
<1>8. /\ attributions' \in Seq(Attribution) /\ DOMAIN attributions \subseteq DOMAIN attributions'
      /\ \A i \in DOMAIN attributions : attributions'[i] = attributions[i]
      /\ Attributed(a)' = q + Attributed(a)
      /\ \A b \in Assets \ {a} : ActiveOf(b)' = ActiveOf(b) /\ Attributed(b)' = Attributed(b)
  BY <1>6, AttributedGrows DEF StockInv
<1>9. StockType'
  BY <1>7, <1>8 DEF StockType
<1>10. Counted'
  <2>1. assets[a].quantiteAttribuee <= Attributed(a) /\ Attributed(a) \in Int
    BY <1>1, AttributedIs DEF StockInv, Counted
  <2>2. new.quantiteAttribuee <= Attributed(a)'
    BY <1>3, <1>5, <1>8, <2>1
  <2>3. Serial => assets[a].quantiteAttribuee = Attributed(a) /\ ~assets[a].archived
    BY <1>1 DEF StockInv, Counted, StockWork
  <2>4. Serial => new.quantiteAttribuee = Attributed(a)' /\ ~new.archived
    BY <1>3, <1>5, <1>8, <2>1, <2>3
  <2>5. Serial' <=> Serial
    BY DEF Serial
  <2>6. ASSUME NEW b \in Assets \ {a}
        PROVE  IF assets'[b] = None THEN ActiveOf(b)' = {}
               ELSE /\ assets'[b].quantiteAttribuee <= Attributed(b)'
                    /\ Serial => /\ assets'[b].quantiteAttribuee = Attributed(b)'
                                 /\ assets'[b].archived => ActiveOf(b)' = {}
    BY <1>7, <1>8, <2>6 DEF StockInv, Counted
  <2>7. QED
    BY <1>7, <2>2, <2>4, <2>5, <2>6 DEF Counted
<1>11. req'[r] = Idle /\ req[r] # Idle /\ \A p \in Requests \ {r} : req'[p] = req[p]
  BY <1>6, DoneFrees DEF StockInv, Common
<1>12. StockWork(r)'
  BY <1>11 DEF StockWork, StockWords, Idle
<1>13. QED
  BY <1>7, <1>8, <1>9, <1>10, <1>11, <1>12, StockLater

\* The counter goes down once per call, what is attributed once per
\* attribution.
LEMMA ReturnKeeps ==
    ASSUME StockInv, Common', scene' = scene, NEW r \in Requests, WriteStock(r),
           req[r].do = "return"
    PROVE  StockInv'
<1>1. PICK a \in Assets : a = req[r].asset /\ assets[a] # None
  BY DEF StockInv, StockWork, StockWords
<1>2. PICK i \in DOMAIN attributions :
        i = req[r].attribution /\ attributions[i].asset = a
  BY <1>1 DEF StockInv, StockWork
<1>3. PICK q : q = attributions[i].quantity
  OBVIOUS
<1>4. q \in Int /\ q > 0 /\ Attributed(a) \in Int
  <2>1. attributions[i] \in Attribution
    BY DEF StockInv, StockType
  <2>2. q \in Quantities
    BY <1>3, <2>1 DEF Attribution
  <2>3. q \in Nat \ {0}
    BY <2>2, ItStockAssumption
  <2>4. Attributed(a) \in Int
    BY AttributedIs DEF StockInv
  <2>5. QED
    BY <2>3, <2>4
<1>5. assets[a] \in AssetRow /\ assets[a].quantiteAttribuee \in Int
  BY <1>1 DEF StockInv, StockType, AssetRow
<1>6. PICK new : new = [assets[a] EXCEPT !.quantiteAttribuee = @ - q]
  OBVIOUS
<1>7. /\ new \in AssetRow /\ new.quantiteAttribuee = assets[a].quantiteAttribuee - q
      /\ new.archived = assets[a].archived
  BY <1>4, <1>5, <1>6 DEF AssetRow
<1>8. /\ assets' = [assets EXCEPT ![a] = new] /\ Done(r)
      /\ attributions' = [attributions EXCEPT ![i].active = FALSE]
  BY <1>1, <1>2, <1>3, <1>6 DEF WriteStock
<1>9. /\ assets' \in [Assets -> AssetRow \cup {None}]
      /\ assets'[a] = new /\ new # None
      /\ \A b \in Assets \ {a} : assets'[b] = assets[b]
      /\ \A b \in Assets : assets[b] # None => assets'[b] # None
  BY <1>1, <1>7, <1>8, AssetWritten
<1>10. /\ attributions' \in Seq(Attribution) /\ DOMAIN attributions' = DOMAIN attributions
       /\ \A j \in DOMAIN attributions \ {i} : attributions'[j] = attributions[j]
       /\ attributions'[i].asset = a
       /\ Attributed(a)' = IF attributions[i].active THEN Attributed(a) - q ELSE Attributed(a)
       /\ ActiveOf(a)' = ActiveOf(a) \ {i}
       /\ \A b \in Assets \ {a} : ActiveOf(b)' = ActiveOf(b) /\ Attributed(b)' = Attributed(b)
  BY <1>2, <1>3, <1>8, AttributedFalls DEF StockInv
<1>11. StockType'
  BY <1>9, <1>10 DEF StockType
<1>12. Counted'
  <2>1. assets[a].quantiteAttribuee <= Attributed(a)
    BY <1>1 DEF StockInv, Counted
  <2>2. new.quantiteAttribuee <= Attributed(a)'
    BY <1>4, <1>5, <1>7, <1>10, <2>1
  <2>3. Serial => assets[a].quantiteAttribuee = Attributed(a) /\ attributions[i].active
                  /\ (assets[a].archived => ActiveOf(a) = {})
    BY <1>1, <1>2 DEF StockInv, Counted, StockWork
  <2>4. Serial => new.quantiteAttribuee = Attributed(a)' /\ (new.archived => ActiveOf(a)' = {})
    BY <1>4, <1>5, <1>7, <1>10, <2>3
  <2>5. Serial' <=> Serial
    BY DEF Serial
  <2>6. ASSUME NEW b \in Assets \ {a}
        PROVE  IF assets'[b] = None THEN ActiveOf(b)' = {}
               ELSE /\ assets'[b].quantiteAttribuee <= Attributed(b)'
                    /\ Serial => /\ assets'[b].quantiteAttribuee = Attributed(b)'
                                 /\ assets'[b].archived => ActiveOf(b)' = {}
    BY <1>9, <1>10, <2>6 DEF StockInv, Counted
  <2>7. QED
    BY <1>9, <2>2, <2>4, <2>5, <2>6 DEF Counted
<1>13. req'[r] = Idle /\ req[r] # Idle /\ \A p \in Requests \ {r} : req'[p] = req[p]
  BY <1>8, DoneFrees DEF StockInv, Common
<1>14. StockWork(r)'
  BY <1>13 DEF StockWork, StockWords, Idle
<1>15. \A j \in DOMAIN attributions :
            j \in DOMAIN attributions' /\ attributions'[j].asset = attributions[j].asset
  BY <1>2, <1>10
<1>16. QED
  BY <1>9, <1>11, <1>12, <1>13, <1>14, <1>15, StockLater

LEMMA StockKept ==
    ASSUME StockInv, [Next]_vars
    PROVE  StockInv'
<1>1. Common' /\ scene' = scene
  BY StepsKeepCommon DEF StockInv
<1>2. CASE UNCHANGED stockVars /\ Elsewhere(StockWords)
  <2>1. assets' = assets /\ attributions' = attributions
    BY <1>2 DEF stockVars
  <2>2. /\ Serial' <=> Serial
        /\ \A a : ActiveOf(a)' = ActiveOf(a) /\ Attributed(a)' = Attributed(a)
    BY <1>1, <2>1 DEF Serial, ActiveOf, Attributed
  <2>3. StockType' /\ Counted'
    BY <2>1, <2>2 DEF StockInv, StockType, Counted
  <2>4. ASSUME NEW r \in Requests
        PROVE  StockWork(r)'
    <3>1. CASE req'[r] = req[r]
      BY <2>1, <2>2, <3>1 DEF StockInv, StockWork
    <3>2. CASE req'[r].do \notin StockWords
      BY <3>2 DEF StockWork, StockWords
    <3>3. QED
      BY <1>2, <3>1, <3>2 DEF Elsewhere
  <2>5. QED
    BY <1>1, <2>3, <2>4 DEF StockInv
<1>3. ASSUME NEW r \in Requests, WriteStock(r)
      PROVE  StockInv'
  BY <1>1, <1>3, EditAssetKeeps, AttributeKeeps, ReturnKeeps DEF WriteStock
<1>4. ASSUME NEW r \in Requests, NEW a \in Assets, TriggerForAsset(r, a)
      PROVE  StockInv'
  <2>1. UNCHANGED stockVars /\ PurchaseMove(r)
    BY <1>4, ItStockAssumption DEF TriggerForAsset, stockVars, PurchaseMove, Free
  <2>2. Elsewhere(StockWords)
    <3>1. NumbersWords \cap StockWords = {} /\ "idle" \notin StockWords
      BY DEF NumbersWords, StockWords
    <3>2. QED
      BY <2>1, <3>1, NumbersLeave, LeavesElsewhere DEF StockInv, Common
  <2>3. QED
    BY <1>2, <2>1, <2>2
<1>5. ASSUME NEW r \in Requests, StockNext(r)
      PROVE  StockInv'
  BY <1>1, <1>3, <1>4, <1>5, CreateAssetKeeps, StockCallsKeep DEF StockNext
<1>6. QED
  BY <1>2, <1>5, StockElsewhere DEF StockInv, Common

LEMMA StockAlways == Spec => []StockInv
<1>1. Init => StockInv
  BY StockStart
<1>2. StockInv /\ [Next]_vars => StockInv'
  BY StockKept
<1>3. QED
  BY <1>1, <1>2, PTL DEF Spec

\* The counter of an asset never exceeds what its active attributions add up
\* to, however often an attribution is returned at once; when requests come
\* one after the other it is that sum, and what is archived is not attributed.
THEOREM StockAlwaysSound == Spec => []StockSound
<1>1. StockInv => StockSound
  BY DEF StockInv, Counted, StockSound
<1>2. QED
  BY <1>1, StockAlways, PTL

=============================================================================
