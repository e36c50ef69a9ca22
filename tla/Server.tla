------------------------------- MODULE Server -------------------------------
(***************************************************************************)
(* The HTTP requests that work on the rows of one part of the system.      *)
(* A handler that is not a single database call is split at its awaits:    *)
(* a first action reads, checks the guards and leaves in req what the      *)
(* handler has still to do; later actions do it.  A Prisma $transaction    *)
(* runs at the database's default level, READ COMMITTED: its reads see     *)
(* what is committed and lock nothing, its writes appear together.         *)
(*                                                                         *)
(* A handler that throws changes nothing and is no step.                   *)
(***************************************************************************)
EXTENDS Naturals, FiniteSets, Sequences

CONSTANTS
    Requests,    \* identities of the requests that may run at once
    None         \* null in a column

VARIABLES
    scene,       \* what this behaviour is about, chosen once: see Scene
    req          \* per request, what its handler has still to do

\* A scene is a record: the requests that run, the endpoints the users call
\* and the rows they call them on; some parts add inputs of their own.
IsScene(s) == s.requests \subseteq Requests

Idle == [do |-> "idle"]

Free(r, endpoint) ==
    /\ r \in scene.requests
    /\ endpoint \in scene.endpoints
    /\ req[r] = Idle

Await(r, work) == req' = [req EXCEPT ![r] = work]
Done(r) == Await(r, Idle)

\* The process dies or a call fails between two awaits: nothing of what the
\* handler had still to do happens.
Abandon(r) == req[r] # Idle /\ Done(r)

=============================================================================
