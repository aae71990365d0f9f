---------------------------- MODULE RateLimiter ----------------------------
(***************************************************************************)
(* keyedLimiter of internal/broker/ratelimit.go: a token bucket for every  *)
(* source address or login_hint that asks to start a session, dropped once *)
(* its key has been idle.  The broker has two, one per kind of key; they   *)
(* share nothing.  Allow holds the mutex throughout, so it is one step.    *)
(*                                                                         *)
(* The buckets are golang.org/x/time/rate limiters, which compute the      *)
(* refill when asked.  Units are those of TokenBucket.                     *)
(***************************************************************************)
EXTENDS Integers

CONSTANTS
    Keys,
    Cost,      \* ticks to refill one token, the inverse of StartRatePerSec
    Burst,     \* StartRateBurst
    IdleTTL,   \* four times SessionTTL
    None,      \* no entry
    MaxTime    \* bound: the last tick

ASSUME LimiterAssumption ==
    /\ Cost \in Nat \ {0}
    /\ Burst \in Nat \ {0}
    /\ IdleTTL \in Nat
    /\ MaxTime \in Nat

Capacity == Burst * Cost

\* An idle key has a full bucket by the time it is forgotten.  applyDefaults
\* gives 1200 s against 25 s; the code does not enforce it.
ASSUME IdleAssumption == Capacity <= IdleTTL

VARIABLES
    entries,   \* key -> its limiter, None when absent
    now,       \* the clock
    verdict,   \* the latest answer of Allow
    granted    \* history: key -> requests let through

lvars == <<entries, now, verdict, granted>>

-----------------------------------------------------------------------------
\* limiterEntry, with the two fields of rate.Limiter that change.
Entry == [ tokens : 0..Capacity, last : Nat, lastSeen : Nat ]

ASSUME NoneAssumption == None \notin Entry

NoVerdict == <<>>
Verdicts == {NoVerdict} \cup (Keys \X BOOLEAN)

LimiterTypeOK ==
    /\ entries \in [Keys -> Entry \cup {None}]
    /\ now \in Nat
    /\ verdict \in Verdicts
    /\ granted \in [Keys -> Nat]

NewLimiter(t) == [tokens |-> Capacity, last |-> t, lastSeen |-> t]

\* rate.Limiter.advance
uncapped(e, t) == e.tokens + (t - e.last)                      \* mutant
advance(e, t) ==
    IF e.tokens + (t - e.last) < Capacity
    THEN e.tokens + (t - e.last)
    ELSE Capacity

\* rate.Limiter.Allow at time t, after lastSeen was set: the entry is charged
\* if it can pay, and left alone otherwise.
affordable(e, t) == advance(e, t) >= Cost
chargesRefused(e, t) ==                                        \* mutant
    [tokens |-> IF affordable(e, t) THEN advance(e, t) - Cost ELSE 0,
     last |-> t, lastSeen |-> t]
charge(e, t) ==
    IF affordable(e, t)
    THEN [tokens |-> advance(e, t) - Cost, last |-> t, lastSeen |-> t]
    ELSE [e EXCEPT !.lastSeen = t]

idleAtOnce(e, t) == t - e.lastSeen > 0                 \* mutant
idle(e, t) == t - e.lastSeen > IdleTTL

sweepLocked(t) ==
    [k \in Keys |-> IF entries[k] # None /\ idle(entries[k], t)
                    THEN None ELSE entries[k]]

\* The entry Allow works on: the one that survived the sweep, or a new one.
entryFor(k, t) ==
    IF sweepLocked(t)[k] = None THEN NewLimiter(t) ELSE sweepLocked(t)[k]

Allow(k) ==
    LET e == entryFor(k, now)
        ok == affordable(e, now)
    IN  /\ entries' = [sweepLocked(now) EXCEPT ![k] = charge(e, now)]
        /\ verdict' = <<k, ok>>
        /\ granted' = [granted EXCEPT ![k] = IF ok THEN @ + 1 ELSE @]
        /\ UNCHANGED now

Tick ==
    /\ now < MaxTime
    /\ now' = now + 1
    /\ verdict' = NoVerdict
    /\ UNCHANGED <<entries, granted>>

Init ==
    /\ entries = [k \in Keys |-> None]
    /\ now = 0
    /\ verdict = NoVerdict
    /\ granted = [k \in Keys |-> 0]

Next == Tick \/ \E k \in Keys : Allow(k)

Spec == Init /\ [][Next]_lvars

-----------------------------------------------------------------------------
\* What a key could spend now.
worth(e, t) == IF e = None THEN Capacity ELSE advance(e, t)
available(k) == worth(entries[k], now)

\* A key never gets more than its burst and one request per refill since the
\* broker started, although its bucket is thrown away and made anew (Allow,
\* sweepLocked).
WithinBudget == \A k \in Keys : granted[k] * Cost + available(k) <= Capacity + now

Bucket == INSTANCE TokenBucket WITH level <- [k \in Keys |-> available(k)]

\* Forgetting idle keys, and computing refills when asked, cannot be told from
\* a bucket per key that is never forgotten: nobody gains or loses a request,
\* a refused request costs nothing, and no key's requests touch another's.
ImplementsTokenBucket == Bucket!BSpec
=============================================================================
