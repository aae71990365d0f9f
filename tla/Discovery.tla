----------------------------- MODULE Discovery -----------------------------
(***************************************************************************)
(* The broker's start: retryDiscovery of cmd/xdauth-broker/main.go, which  *)
(* tries to reach the identity provider (oidc.New, saml.New) and sleeps    *)
(* between attempts, longer each time.  Serving begins when it succeeds.   *)
(* Its clock is of no interest after that and goes back to zero.           *)
(*                                                                         *)
(* An attempt is a request of an HTTP client without a timeout, under a    *)
(* context without a deadline: it returns, or it hangs until a signal.     *)
(***************************************************************************)
EXTENDS Integers

CONSTANTS
    FirstBackoff,   \* 500 ms
    BackoffLimit,   \* 5 s: a shorter backoff is doubled
    Deadline,       \* 30 s
    AttemptTime     \* bound: the longest an attempt takes that returns

ASSUME DiscoveryAssumption ==
    /\ FirstBackoff \in Nat \ {0}
    /\ BackoffLimit \in Nat \ {0}
    /\ FirstBackoff < 2 * BackoffLimit
    /\ Deadline \in Nat
    /\ AttemptTime \in Nat

VARIABLES
    boot,      \* what retryDiscovery is at
    clock,     \* ticks since it was called
    backoff,
    left,      \* of the sleep
    took,      \* by the attempt
    up,        \* whether the IdP answers
    good,      \* whether it did when the attempt began
    upInTime   \* history: it came up in time for the retries to find it

bootVars == <<boot, clock, backoff, left, took, up, good, upInTime>>

-----------------------------------------------------------------------------
maxBackoff == 2 * BackoffLimit
Latest == Deadline + maxBackoff + AttemptTime

BootTypeOK ==
    /\ boot \in {"trying", "hung", "sleeping", "ready", "failed", "cancelled"}
    /\ clock \in 0..Latest
    /\ backoff \in 1..(maxBackoff - 1)
    /\ left \in 0..backoff
    /\ took \in 0..AttemptTime
    /\ up \in BOOLEAN /\ good \in BOOLEAN /\ upInTime \in BOOLEAN

BootInit ==
    /\ boot = "trying"
    /\ clock = 0 /\ backoff = FirstBackoff /\ left = 0 /\ took = 0
    /\ up \in BOOLEAN /\ good = up /\ upInTime = up

\* fn returns a provider.
Found ==
    /\ boot = "trying" /\ good
    /\ boot' = "ready"
    /\ clock' = 0 /\ backoff' = FirstBackoff /\ left' = 0 /\ took' = 0
    /\ good' = FALSE /\ upInTime' = TRUE
    /\ UNCHANGED up

earlyStop(t) == t + backoff > Deadline                         \* mutant
pastDeadline(t) == t > Deadline

\* fn returns an error: give up past the deadline, else sleep.
Failed ==
    /\ boot = "trying" /\ ~good
    /\ boot' = IF pastDeadline(clock) THEN "failed" ELSE "sleeping"
    /\ left' = IF pastDeadline(clock) THEN 0 ELSE backoff
    /\ took' = 0
    /\ UNCHANGED <<clock, backoff, up, good, upInTime>>

doubles(b) == 2 * b                                            \* mutant
nextBackoff(b) == IF b < BackoffLimit THEN 2 * b ELSE b

awaitsIdP ==                                                   \* mutant
    /\ boot = "sleeping" /\ left = 0 /\ up
    /\ boot' = "trying"
    /\ good' = TRUE
    /\ UNCHANGED <<clock, backoff, left, took, up, upInTime>>
Retry ==
    /\ boot = "sleeping" /\ left = 0
    /\ boot' = "trying"
    /\ backoff' = nextBackoff(backoff)
    /\ good' = up
    /\ UNCHANGED <<clock, left, took, up, upInTime>>

\* The IdP accepts the connection and never answers.
Hang ==
    /\ boot = "trying"
    /\ boot' = "hung"
    /\ UNCHANGED <<clock, backoff, left, took, up, good, upInTime>>

\* A signal ends the sleep, or fails the attempt and then ends the sleep.
Interrupted ==
    /\ boot \in {"trying", "hung", "sleeping"}
    /\ boot' = "cancelled"
    /\ UNCHANGED <<clock, backoff, left, took, up, good, upInTime>>

\* The IdP finishes starting.
IdPUp ==
    /\ ~up /\ boot \in {"trying", "sleeping"}
    /\ up' = TRUE
    /\ upInTime' = (clock + AttemptTime <= Deadline)
    /\ UNCHANGED <<boot, clock, backoff, left, took, good>>

BootTick ==
    /\ \/ boot = "trying" /\ took < AttemptTime
       \/ boot = "sleeping" /\ left > 0
    /\ clock' = clock + 1
    /\ took' = IF boot = "trying" THEN took + 1 ELSE took
    /\ left' = IF boot = "sleeping" THEN left - 1 ELSE left
    /\ UNCHANGED <<boot, backoff, up, good, upInTime>>

BootNext == Found \/ Failed \/ Hang \/ Retry \/ Interrupted \/ IdPUp \/ BootTick

\* Timers fire, and an attempt returns or hangs: nothing makes it return.
BootFairness ==
    /\ WF_bootVars(BootTick)
    /\ WF_bootVars(Found \/ Failed \/ Hang)
    /\ WF_bootVars(Retry)

-----------------------------------------------------------------------------
\* An IdP that is up by the deadline, less the attempt that may just have been
\* under way, is found: the broker never gives up on it, although it sleeps
\* across the deadline (retryDiscovery).
SlowIdPIsFound == boot = "failed" => ~upInTime

\* Starting up ends, unless an attempt hangs: with a provider, or with an error
\* at most one longest sleep and one attempt past the deadline (BootTypeOK
\* bounds the clock).  retryDiscovery says "for up to 30s" of itself, without
\* the exception; but it looks at its deadline between attempts only.
BootEndsUnlessHung == <>(boot \in {"ready", "failed", "cancelled", "hung"})
=============================================================================
