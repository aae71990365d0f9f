---------------------------- MODULE TokenBucket ----------------------------
(***************************************************************************)
(* What a rate limiter promises a key: a bucket of its own that starts     *)
(* full, fills with time up to its capacity, and pays for every request it *)
(* lets through.  Nothing is ever forgotten.                               *)
(*                                                                         *)
(* The unit of a bucket is the refill of one tick, so a request costs Cost *)
(* units: the ticks it takes to earn one token.                            *)
(***************************************************************************)
EXTENDS Naturals

CONSTANTS Keys, Cost, Capacity

VARIABLES
    level,    \* key -> units in its bucket
    verdict   \* the latest answer: for which key, allowed or not

bvars == <<level, verdict>>

NoVerdict == <<>>

Refill ==
    /\ level' = [k \in Keys |-> IF level[k] < Capacity THEN level[k] + 1
                                ELSE Capacity]
    /\ verdict' = NoVerdict

Take(k) ==
    /\ level[k] >= Cost
    /\ level' = [level EXCEPT ![k] = @ - Cost]
    /\ verdict' = <<k, TRUE>>

Refuse(k) ==
    /\ level[k] < Cost
    /\ verdict' = <<k, FALSE>>
    /\ UNCHANGED level

BInit ==
    /\ level = [k \in Keys |-> Capacity]
    /\ verdict = NoVerdict

BNext == Refill \/ \E k \in Keys : Take(k) \/ Refuse(k)

BSpec == BInit /\ [][BNext]_bvars
=============================================================================
