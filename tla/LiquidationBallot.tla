-------------------------- MODULE LiquidationBallot --------------------------
(***************************************************************************)
(* What the validation of expense reports promises, with no database, no   *)
(* requests and no statuses of missions: each role votes once in a round,  *)
(* a refusal decides the round, unanimity accepts, and only a refused      *)
(* round can be opened again, for everybody.                               *)
(***************************************************************************)
CONSTANTS Reports, Voters

VARIABLES
    votes,     \* per report and voter "none", "yes" or "no"
    verdict    \* per report "closed" before it is handed in, then "open",
               \* "accepted" or "refused"

vars == << votes, verdict >>

Blank == [v \in Voters |-> "none"]
Refused(b) == \E v \in Voters : b[v] = "no"
Unanimous(b) == \A v \in Voters : b[v] = "yes"

Init ==
    /\ votes = [p \in Reports |-> Blank]
    /\ verdict = [p \in Reports |-> "closed"]

Become(p, ballot, outcome) ==
    /\ votes' = [votes EXCEPT ![p] = ballot]
    /\ verdict' = [verdict EXCEPT ![p] = outcome]

Open(p) == verdict[p] = "closed" /\ Become(p, Blank, "open")

Vote(p, v, choice) ==
    LET ballot == [votes[p] EXCEPT ![v] = choice]
    IN  /\ verdict[p] # "closed" /\ votes[p][v] = "none"
        /\ Become(p, ballot, IF Refused(ballot) THEN "refused"
                             ELSE IF Unanimous(ballot) THEN "accepted" ELSE verdict[p])

Reopen(p) == Refused(votes[p]) /\ Become(p, Blank, "open")

\* The verdict is taken back from outside: the mission is cancelled, or
\* given a vehicle again.  The votes stand.
Override(p) == verdict[p] # "closed" /\ Become(p, votes[p], "open")

Next ==
    \E p \in Reports :
        \/ Open(p) \/ Reopen(p) \/ Override(p)
        \/ \E v \in Voters, choice \in {"yes", "no"} : Vote(p, v, choice)

Spec == Init /\ [][Next]_vars

=============================================================================
