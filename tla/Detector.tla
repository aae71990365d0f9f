----------------------------- MODULE Detector ------------------------------
(***************************************************************************)
(* The abuse detector of internal/broker/detect.go: it counts security     *)
(* events per kind and key in windows that open with an event, and reports *)
(* suspected_abuse when a count reaches its threshold.                     *)
(*                                                                         *)
(* Handlers pass in a clock reading they took earlier: handleIdPResponse   *)
(* takes its own before it talks to the IdP.  Readings therefore arrive    *)
(* late and out of order.  The counting is under a mutex, so an            *)
(* observation is one step.                                                *)
(***************************************************************************)
EXTENDS Integers, FiniteSets, Sequences

CONSTANTS
    Keys,               \* source addresses and login_hints
    WrongCode,          \* the fields of abuseThresholds
    RepeatedStart,
    IdentityMismatch,
    Window,
    MaxLag,             \* the age a reading may have: how long a request lasts
    None,               \* no counter
    Observed,           \* bound: the kinds of event an instance raises
    MaxTime,            \* bound: the last tick
    MaxObservations     \* bound: events in all

Kinds == {"wrong_code", "repeated_start", "consumed_replay", "identity_mismatch"}

ASSUME DetectorAssumption ==
    /\ WrongCode \in Nat /\ RepeatedStart \in Nat /\ IdentityMismatch \in Nat
    /\ Window \in Nat
    /\ MaxLag \in Nat
    /\ Observed \subseteq Kinds
    /\ MaxTime \in Nat
    /\ MaxObservations \in Nat

VARIABLES
    counts,    \* map key -> its counter, None when absent
    now,       \* the clock
    log,       \* history: map key -> the observations, in order
    reports    \* history: map key -> the observations that were reported

dvars == <<counts, now, log, reports>>

-----------------------------------------------------------------------------
counterEntry == [ count : Nat \ {0}, windowEnd : Nat ]

ASSUME NoneAssumption == None \notin counterEntry

\* kind + "|" + key: no kind contains the separator.
MapKeys == Kinds \X Keys
kindOf(p) == p[1]

Observation == [ at : Nat, reading : Nat ]

\* Reports are kept as indices into the log.
DetectorTypeOK ==
    /\ counts \in [MapKeys -> counterEntry \cup {None}]
    /\ now \in Nat
    /\ log \in [MapKeys -> Seq(Observation)]
    /\ \A p \in MapKeys : reports[p] \subseteq DOMAIN log[p]

thresholdFor(kind) ==
    CASE kind = "wrong_code" -> WrongCode
      [] kind = "repeated_start" -> RepeatedStart
      [] kind = "identity_mismatch" -> IdentityMismatch
      [] OTHER -> 0

\* The counter an event with reading t is counted in.
neverReset(p, t) ==                                            \* mutant
    IF counts[p] = None THEN [count |-> 0, windowEnd |-> t + Window] ELSE counts[p]
current(p, t) ==
    IF counts[p] = None \/ t > counts[p].windowEnd
    THEN [count |-> 0, windowEnd |-> t + Window]
    ELSE counts[p]

notCounted(p, t) == current(p, t)                              \* mutant
counted(p, t) == [current(p, t) EXCEPT !.count = @ + 1]

fromThreshold(p, t) == counted(p, t).count >= thresholdFor(kindOf(p))  \* mutant
aboveThreshold(p, t) == counted(p, t).count = thresholdFor(kindOf(p)) + 1 \* mutant
tripped(p, t) == counted(p, t).count = thresholdFor(kindOf(p))

\* thresholdFor <= 0: the event is passed on and not counted.
uncountedKind(p) == thresholdFor(kindOf(p)) <= 0

Observe(p, t) ==
    /\ log' = [log EXCEPT ![p] = Append(@, [at |-> now, reading |-> t])]
    /\ \/ uncountedKind(p) /\ UNCHANGED <<counts, reports>>
       \/ /\ ~uncountedKind(p)
          /\ counts' = [counts EXCEPT ![p] = counted(p, t)]
          /\ reports' = [reports EXCEPT ![p] =
                            IF tripped(p, t) THEN @ \cup {Len(log[p]) + 1} ELSE @]
    /\ UNCHANGED now

Tick ==
    /\ now < MaxTime
    /\ now' = now + 1
    /\ UNCHANGED <<counts, log, reports>>

Init ==
    /\ counts = [p \in MapKeys |-> None]
    /\ now = 0
    /\ log = [p \in MapKeys |-> <<>>]
    /\ reports = [p \in MapKeys |-> {}]

observations == UNION {{p} \X DOMAIN log[p] : p \in MapKeys}

\* The readings a handler may pass in now.
Readings == {t \in 0..now : now - t <= MaxLag}

Next ==
    \/ Tick
    \/ \E p \in Observed \X Keys, t \in Readings :
          /\ Cardinality(observations) < MaxObservations
          /\ Observe(p, t)

Spec == Init /\ [][Next]_dvars

-----------------------------------------------------------------------------
\* A report of an observation, and the observation that opened its window.
opener(p, i) == log[p][i - thresholdFor(kindOf(p)) + 1]

\* A report is earned: the event that is reported closes a run of as many
\* events of its kind and key as the threshold asks for, all of one window,
\* give or take the age of their readings (tripped).
ReportEarned ==
    \A p \in MapKeys : \A i \in reports[p] :
        LET T == thresholdFor(kindOf(p)) IN
        /\ T \in 1..i
        /\ \A j \in (i - T + 1)..i :
              log[p][j].reading \in
                  (opener(p, i).reading - MaxLag)..(opener(p, i).reading + Window)

\* "suspected_abuse fires exactly once per window": of two reports for a key,
\* the later one's window opened after the earlier one's had ended, whatever
\* order the readings arrive in (tripped).
OneReportPerWindow ==
    \A p \in MapKeys : \A i, j \in reports[p] :
        i < j => opener(p, i).reading + Window < opener(p, j).reading

\* Windows do not slide, so as many events as the threshold may fall into two
\* of them and go unreported.  Twice as many, less one, may not: a burst of
\* that size within a window's length (less the age of readings) is reported,
\* by its own events or by the window it began in.
BurstReported ==
    \A p \in MapKeys :
        LET T == thresholdFor(kindOf(p))
            last(i) == i + 2 * T - 2
        IN  T > 0 =>
            \A i \in DOMAIN log[p] :
                /\ last(i) <= Len(log[p])
                /\ log[p][last(i)].at - log[p][i].at <= Window - MaxLag
                => \E r \in reports[p] :
                      /\ r <= last(i)
                      /\ log[p][r].at >= log[p][i].at - Window - MaxLag
=============================================================================
