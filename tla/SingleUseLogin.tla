--------------------------- MODULE SingleUseLogin ---------------------------
(***************************************************************************)
(* What the broker promises of a login session, without requests, cookies, *)
(* clocks or stores: a session moves forward through its phases, ends in   *)
(* one of them, and hands out its artifact once.  Two writers that do not  *)
(* see each other, or a write that is lost, may set a session back; each   *)
(* such collision is counted, and is worth one more artifact at most.      *)
(***************************************************************************)
EXTENDS Naturals

CONSTANTS Sessions, MaxCollisions

VARIABLES
    phase,       \* session id -> where the login is
    uses,        \* session id -> artifacts handed out
    collisions   \* session id -> collisions, counted up to MaxCollisions

avars == <<phase, uses, collisions>>

\* The states of store.go, and: "new" before /auth/start, "consumed" for an
\* approved session whose artifact is out, "gone" once the store forgot it.
Phases ==
    {"new", "pending", "awaiting_approval", "approved", "consumed",
     "denied", "expired", "gone"}

Move(s, from, to) ==
    /\ phase[s] \in from
    /\ phase' = [phase EXCEPT ![s] = to]

Forward(s) ==
    /\ \/ Move(s, {"new"}, "pending")
       \/ Move(s, {"pending"}, "awaiting_approval")
       \/ Move(s, {"pending", "awaiting_approval"}, "denied")
       \/ Move(s, {"awaiting_approval"}, "approved")
       \/ Move(s, {"pending", "awaiting_approval"}, "expired")
    /\ UNCHANGED <<uses, collisions>>

\* Counted until collisions no longer are.
One(n) == IF n <= MaxCollisions THEN n + 1 ELSE n

HandOut(s) ==
    /\ Move(s, {"approved"}, "consumed")
    /\ uses' = [uses EXCEPT ![s] = One(@)]
    /\ UNCHANGED collisions

\* A writer that does not know where the session is.  It opens no session and
\* brings none back.
Collide(s) ==
    /\ phase[s] # "new"
    /\ \/ phase[s] # "gone" /\ \E to \in Phases \ {"new", "gone"} : Move(s, Phases, to)
       \/ UNCHANGED phase
    /\ uses' \in {uses, [uses EXCEPT ![s] = One(@)]}
    /\ collisions' = [collisions EXCEPT ![s] = IF @ < MaxCollisions THEN @ + 1 ELSE @]

\* Sessions are forgotten at any time, several at once.
Forget(S) ==
    /\ \A s \in S : phase[s] # "new"
    /\ phase' = [s \in Sessions |-> IF s \in S THEN "gone" ELSE phase[s]]
    /\ UNCHANGED <<uses, collisions>>

AInit ==
    /\ phase = [s \in Sessions |-> "new"]
    /\ uses = [s \in Sessions |-> 0]
    /\ collisions = [s \in Sessions |-> 0]

ANext ==
    \/ \E s \in Sessions : Forward(s) \/ HandOut(s) \/ Collide(s)
    \/ \E S \in SUBSET Sessions : Forget(S)

ASpec == AInit /\ [][ANext]_avars
=============================================================================
