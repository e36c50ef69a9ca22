---------------------------- MODULE BudgetTable ----------------------------
(***************************************************************************)
(* The budget tables: versions uploaded from a CSV file, one of which an   *)
(* administrator activates.  Purchases and the triggers of the other parts *)
(* look their activity code up in the active table.                        *)
(***************************************************************************)
EXTENDS Server

CONSTANTS
    Codes,         \* activity codes
    Details,       \* what else a row of the table says
    MaxTables      \* bound: no upload beyond this number of tables

VARIABLE tables    \* the tables in the order of their ids

\* A table maps its activity codes to the rest of the row.
RowsOf(codes) == [codes -> Details]
Table ==
    [version : Nat \ {0}, rows : UNION {RowsOf(c) : c \in SUBSET Codes},
     pending : BOOLEAN, active : BOOLEAN]

BudgetType == tables \in Seq(Table)

\* A line of the file that has a code; blank lines are skipped, and a valid
\* line has its project's code and name and a threshold that is a number >= 0.
Line == [blank : BOOLEAN, valid : BOOLEAN, code : Codes, detail : Details]

Kept(file) == {i \in DOMAIN file : ~file[i].blank}

\* The parsed rows, or None if the file is refused.
ParseBudgetCsv(file) ==
    IF \/ Kept(file) = {}
       \/ \E i \in Kept(file) : ~file[i].valid
       \/ \E i, j \in Kept(file) : i # j /\ file[i].code = file[j].code
    THEN None
    ELSE [c \in {file[i].code : i \in Kept(file)} |->
            file[CHOOSE i \in Kept(file) : file[i].code = c].detail]

\* What the preview shows: the codes of two tables compared.
ComputeDiff(current, incoming) ==
    LET old == DOMAIN current
        new == DOMAIN incoming
    IN  [added |-> new \ old, removed |-> old \ new,
         modified |-> {c \in new \cap old : current[c] # incoming[c]},
         unchanged |-> {c \in new \cap old : current[c] = incoming[c]}]

-----------------------------------------------------------------------------
Active == {i \in DOMAIN tables : tables[i].active}

\* findFirst: any of the active tables.
Current(rows) ==
    IF Active = {} THEN DOMAIN rows = {} ELSE \E i \in Active : rows = tables[i].rows

\* Some trigger finds the code it is called with.
HasProject(code) == \E i \in Active : code \in DOMAIN tables[i].rows

\* The version that the next table gets: the greatest in use plus one.
Versions == {tables[i].version : i \in DOMAIN tables}
NextVersion ==
    IF tables = << >> THEN 1
    ELSE 1 + CHOOSE v \in Versions : \A w \in Versions : w <= v

\* The file is parsed, no code of the active table may be missing from it, and
\* the file is stored; then the version is computed; then the table inserted.
Upload(r) ==
    /\ Free(r, "uploadBudget")
    /\ Len(tables) < MaxTables
    /\ \E file \in scene.csv, current \in UNION {RowsOf(c) : c \in SUBSET Codes} :
        LET rows == ParseBudgetCsv(file)
        IN  /\ rows # None
            /\ Current(current)
            /\ ComputeDiff(current, rows).removed = {}
            /\ Await(r, [do |-> "numberTable", rows |-> rows])
    /\ UNCHANGED tables

NumberTable(r) ==
    /\ req[r].do = "numberTable"
    /\ Await(r, [do |-> "insertTable", rows |-> req[r].rows, version |-> NextVersion])
    /\ UNCHANGED tables

InsertTable(r) ==
    /\ req[r].do = "insertTable"
    /\ tables' = Append(tables, [version |-> req[r].version, rows |-> req[r].rows,
                                 pending |-> TRUE, active |-> FALSE])
    /\ Done(r)

\* Any table that is not active may be activated, a former one too.
Activate(r) ==
    /\ Free(r, "activateBudget")
    /\ \E i \in DOMAIN tables \ Active :
        Await(r, [do |-> "deactivate", table |-> i])
    /\ UNCHANGED tables

\* In a transaction: the update of the active tables touches those that are
\* active when it begins,
Deactivate(r) ==
    /\ req[r].do = "deactivate"
    /\ Await(r, [do |-> "activate", table |-> req[r].table, seen |-> Active])
    /\ UNCHANGED tables

\* Mutant of ActivateInTransaction: the tables are deactivated last.
ActivateThenDeactivate(r) ==
    /\ req[r].do = "activate"
    /\ tables' = [i \in DOMAIN tables |-> [tables[i] EXCEPT !.active = FALSE,
                    !.pending = @ /\ i # req[r].table]]
    /\ Done(r)

\* and what it wrote appears when the transaction ends.
ActivateInTransaction(r) ==
    LET target == req[r].table
    IN  /\ req[r].do = "activate"
        /\ tables' = [i \in DOMAIN tables |->
                IF i = target THEN [tables[i] EXCEPT !.active = TRUE, !.pending = FALSE]
                ELSE IF i \in req[r].seen THEN [tables[i] EXCEPT !.active = FALSE]
                ELSE tables[i]]
        /\ Done(r)

-----------------------------------------------------------------------------
\* The tables a scene starts with: one of them is in force, unless all are
\* pending, and their versions are in use once each.
StartInForce(start) ==
    /\ start \in Seq(Table)
    /\ \A i, j \in DOMAIN start : start[i].active /\ start[j].active => i = j
    /\ (\E i \in DOMAIN start : ~start[i].pending) => \E i \in DOMAIN start : start[i].active
    /\ {start[i].version : i \in DOMAIN start} = 1 .. Len(start)

BudgetInit == tables = scene.tables

BudgetNext(r) ==
    \/ Upload(r) \/ NumberTable(r) \/ InsertTable(r)
    \/ Activate(r) \/ Deactivate(r) \/ ActivateInTransaction(r)

=============================================================================
