------------------------------- MODULE Leases -------------------------------
(***************************************************************************)
(* Leases: their terms, the amendments that change the rent, the payments, *)
(* and the cron that indexes the rents of the leases of the month, for     *)
(* which it writes an amendment too.  Amounts are in cents; dates are days *)
(* of the server's calendar.                                               *)
(***************************************************************************)
EXTENDS Server

CONSTANTS
    LeaseIds,
    MaxAmendments    \* bound: none is asked for beyond this number

VARIABLES
    leases,          \* None until created
    amendments,      \* in the order of creation
    payments,        \* unique on lease, period and type
    month            \* months since a January

Statut == {"EN_NEGOCIATION", "ACTIF", "SUSPENDU", "ARCHIVE"}
PaymentTypes == {"LOYER", "CHARGE", "DEPOT_GARANTIE", "AUTRE"}

\* What a lease is created with, and what PATCH may change.
Terms == {"dateDebut", "dateFin", "montantMensuel", "indexationRate", "indexationMois"}
Columns == Terms \cup {"number", "statut", "dureeInitialeMois"}

\* The months of a Date are counted from 0.
Date == [year : Nat, month : 0 .. 11, day : 1 .. 31]

After(d, e) ==
    \/ d.year > e.year
    \/ d.year = e.year /\ d.month > e.month
    \/ d.year = e.year /\ d.month = e.month /\ d.day > e.day

\* The days do not count, so that a lease may run for 0 months.
MonthsBetween(debut, fin) == (fin.year - debut.year) * 12 + fin.month - debut.month

LeaseTerms ==
    [dateDebut : Date, dateFin : Date, montantMensuel : Nat, indexationRate : Nat,
     indexationMois : 1 .. 12]
LeaseRow ==
    [dateDebut : Date, dateFin : Date, montantMensuel : Nat, indexationRate : Nat,
     indexationMois : 1 .. 12, number : Nat \ {0}, statut : Statut, dureeInitialeMois : Nat]
Amendment ==
    [lease : LeaseIds, kind : {"signed", "indexation"}, month : Nat, base : Nat,
     nouveauMontant : Nat]

TypeOf(column) ==
    CASE column \in {"dateDebut", "dateFin"} -> Date
      [] column = "indexationMois" -> 1 .. 12
      [] column = "statut" -> Statut
      [] column \in {"montantMensuel", "indexationRate"} -> Nat
IsPatch(patch) ==
    /\ DOMAIN patch \subseteq Terms \cup {"statut"}
    /\ \A c \in DOMAIN patch : patch[c] \in TypeOf(c)

ASSUME NoLeaseAssumption == None \notin LeaseRow

LeasesType ==
    /\ leases \in [LeaseIds -> LeaseRow \cup {None}]
    /\ amendments \in Seq(Amendment)
    /\ payments \subseteq [lease : LeaseIds, periode : Nat, type : PaymentTypes]
    /\ month \in Nat

\* The name and the description of an indexation give its year.
Year(m) == m \div 12
MonthOf(m) == (m % 12) + 1

Signed == {l \in LeaseIds : leases[l] # None}
LeaseCalled(r, endpoint) == Free(r, endpoint) /\ UNCHANGED << leases, amendments, payments, month >>

-----------------------------------------------------------------------------
\* The number of the leases plus one, which is unique.
NextLeaseNumber == Cardinality(Signed) + 1

CreateLease(r, l) ==
    /\ LeaseCalled(r, "createLease")
    /\ l \notin Signed
    /\ \E terms \in scene.terms :
        /\ After(terms.dateFin, terms.dateDebut)
        /\ Await(r, [do |-> "insertLease", lease |-> l, terms |-> terms,
                     number |-> NextLeaseNumber])

InsertLease(r) ==
    LET w == req[r]
        duration == MonthsBetween(w.terms.dateDebut, w.terms.dateFin)
    IN  /\ w.do = "insertLease"
        /\ leases' = IF w.lease \in Signed \/ \E l \in Signed : leases[l].number = w.number
                     THEN leases
                     ELSE [leases EXCEPT ![w.lease] = [c \in Columns |->
                        CASE c \in Terms -> w.terms[c]
                          [] c = "number" -> w.number
                          [] c = "statut" -> "EN_NEGOCIATION"
                          [] c = "dureeInitialeMois" -> duration]]
        /\ Done(r)
        /\ UNCHANGED << amendments, payments, month >>

\* A patch gives any of the columns; the dates are compared, and the duration
\* computed again, only when it gives both.
BothDates(patch) == {"dateDebut", "dateFin"} \subseteq DOMAIN patch

\* Mutant of Patched: the duration is left as it is.
PatchedOnly(lease, patch) ==
    [c \in Columns |-> IF c \in DOMAIN patch THEN patch[c] ELSE lease[c]]

Patched(lease, patch) ==
    [c \in Columns |->
        IF c \in DOMAIN patch THEN patch[c]
        ELSE IF c = "dureeInitialeMois" /\ BothDates(patch)
             THEN MonthsBetween(patch.dateDebut, patch.dateFin)
        ELSE lease[c]]

UpdateLease(r, l) ==
    /\ LeaseCalled(r, "updateLease")
    /\ l \in Signed
    /\ \E patch \in scene.patches :
        /\ BothDates(patch) => After(patch.dateFin, patch.dateDebut)
        /\ Await(r, [do |-> "writeLease", lease |-> l, patch |-> patch])

ArchiveLease(r, l) ==
    /\ LeaseCalled(r, "archiveLease")
    /\ l \in Signed
    /\ Await(r, [do |-> "writeLease", lease |-> l, patch |-> [statut |-> "ARCHIVE"]])

WriteLease(r) ==
    LET w == req[r]
    IN  /\ w.do = "writeLease"
        /\ leases' = [leases EXCEPT ![w.lease] = Patched(@, w.patch)]
        /\ Done(r)
        /\ UNCHANGED << amendments, payments, month >>

-----------------------------------------------------------------------------
\* An amendment and the rent it sets are written together; 0 sets none.
Amend(l, amendment) ==
    /\ amendments' = Append(amendments, amendment)
    /\ leases' = IF amendment.nouveauMontant = 0 THEN leases
                 ELSE [leases EXCEPT ![l].montantMensuel = amendment.nouveauMontant]

AddAmendment(r, l) ==
    /\ LeaseCalled(r, "addAmendment")
    /\ l \in Signed /\ Len(amendments) < MaxAmendments
    /\ \E amount \in scene.amounts :
        Await(r, [do |-> "writeAmendment", lease |-> l, nouveauMontant |-> amount])

WriteAmendment(r) ==
    LET w == req[r]
    IN  /\ w.do = "writeAmendment"
        /\ Amend(w.lease, [lease |-> w.lease, kind |-> "signed", month |-> month,
                           base |-> leases[w.lease].montantMensuel,
                           nouveauMontant |-> w.nouveauMontant])
        /\ Done(r)
        /\ UNCHANGED << payments, month >>

AddPayment(r, l) ==
    /\ LeaseCalled(r, "addPayment")
    /\ l \in Signed
    /\ \E type \in {"LOYER", "CHARGE"} :
        LET payment == [lease |-> l, periode |-> month, type |-> type]
        IN  payment \notin payments
            /\ Await(r, [do |-> "insertPayment", payment |-> payment])

InsertPayment(r) ==
    /\ req[r].do = "insertPayment"
    /\ payments' = payments \cup {req[r].payment}
    /\ Done(r)
    /\ UNCHANGED << leases, amendments, month >>

-----------------------------------------------------------------------------
\* Time goes on, whatever the requests do.
NextMonth ==
    /\ \E m \in scene.months : m > month /\ month' = m
    /\ UNCHANGED << req, leases, amendments, payments >>

\* The job is meant for the first day of a month; nothing records that it has
\* run, and it may run again.  The leases it is to index are read at once,
ToIndex(m) ==
    {l \in Signed :
        /\ leases[l].statut = "ACTIF"
        /\ leases[l].indexationMois = MonthOf(m)
        /\ leases[l].indexationRate > 0}

RunIndexation(r) ==
    /\ LeaseCalled(r, "indexationCron")
    /\ Len(amendments) < MaxAmendments
    /\ Await(r, [do |-> "index", left |-> ToIndex(month), read |-> leases, month |-> month])

\* and indexed one after the other, from what was read.
Indexed(amount, rate) == (amount * (100 + rate) + 50) \div 100

IndexLease(r) ==
    LET w == req[r]
    IN  /\ w.do = "index"
        /\ \E l \in w.left :
            LET amount == Indexed(w.read[l].montantMensuel, w.read[l].indexationRate)
            IN  /\ Amend(l, [lease |-> l, kind |-> "indexation", month |-> w.month,
                             base |-> w.read[l].montantMensuel, nouveauMontant |-> amount])
                /\ Await(r, [w EXCEPT !.left = @ \ {l}])
        /\ UNCHANGED << payments, month >>

\* A lease whose update fails is logged and left out.
IndexFails(r) ==
    /\ req[r].do = "index" /\ "failure" \in scene.endpoints
    /\ \E l \in req[r].left : Await(r, [req[r] EXCEPT !.left = @ \ {l}])
    /\ UNCHANGED << leases, amendments, payments, month >>

IndexationEnds(r) ==
    /\ req[r].do = "index" /\ req[r].left = {}
    /\ Done(r)
    /\ UNCHANGED << leases, amendments, payments, month >>

-----------------------------------------------------------------------------
LeasesInit ==
    /\ leases = [l \in LeaseIds |-> None]
    /\ amendments = << >> /\ payments = {} /\ month = 0

LeasesNext(r) ==
    \/ \E l \in LeaseIds \cap scene.rows :
        \/ CreateLease(r, l) \/ UpdateLease(r, l) \/ ArchiveLease(r, l)
        \/ AddAmendment(r, l) \/ AddPayment(r, l)
    \/ InsertLease(r) \/ WriteLease(r) \/ WriteAmendment(r) \/ InsertPayment(r)
    \/ NextMonth
    \/ RunIndexation(r) \/ IndexLease(r) \/ IndexFails(r) \/ IndexationEnds(r)

=============================================================================
