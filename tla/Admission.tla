----------------------------- MODULE Admission -----------------------------
(***************************************************************************)
(* Who may start a session: handleStart of internal/broker/handlers.go     *)
(* with the client authenticators (clientauth.go), the client's address as *)
(* seen through proxies (clientip.go) and the two rate limiters, one per   *)
(* address and one per login_hint, of RateLimiter.                         *)
(*                                                                         *)
(* A request leaves its sender with whatever X-Forwarded-For header the    *)
(* sender put there; each proxy on its way appends the address it got the  *)
(* request from.  The path is the truth the broker does not see.           *)
(***************************************************************************)
EXTENDS Integers, FiniteSets, Sequences, SequencesExt

CONSTANTS
    Hints,        \* login_hints
    Paths,        \* the addresses a request passes: sender, then proxies
    Forged,       \* headers a sender may write, sequences of hops
    Addresses,    \* what may stand in them
    Trusted,      \* addresses in TrustedProxies
    Allowed,      \* addresses in AllowedClientCIDRs; empty for no gating
    Credentials,  \* bearer tokens or certificates, None without
    ClientID,     \* the client a known credential stands for
    Gated,        \* whether a ClientAuthenticator is configured
    Workers,
    Cost, Burst, IdleTTL, MaxTime, None   \* see RateLimiter

ASSUME PathsAssumption ==
    /\ Paths \subseteq Seq(Addresses)
    /\ <<>> \notin Paths
    /\ Forged \subseteq Seq(Addresses)
    /\ Trusted \subseteq Addresses
\* A proxy may be anybody's host; a sender behind the proxies is no proxy.
ASSUME SendersAssumption == \A p \in Paths : p[1] \notin Trusted
\* Requests served at once.
ASSUME WorkersAssumption == IsFiniteSet(Workers)

VARIABLES
    now,
    hintEntries, hintGranted,   \* the limiter of hints
    ipEntries, ipGranted,       \* the limiter of addresses
    verdict,    \* the latest answer of either
    reqs,       \* worker -> the request it has let past the address limiter
    out,        \* of the latest step: the hint observed, the session started
    sessions,   \* history: hint -> sessions started
    failed,     \* history: hint -> sessions the broker could not create
    opened      \* history: true source -> sessions started

hintVars == <<hintEntries, hintGranted>>
ipVars == <<ipEntries, ipGranted>>
historyVars == <<sessions, failed, opened>>
startVars == <<now, hintVars, ipVars, verdict, reqs, out, historyVars>>

hintLimiter == INSTANCE RateLimiter WITH
    Keys <- Hints, entries <- hintEntries, granted <- hintGranted
ipLimiter == INSTANCE RateLimiter WITH
    Keys <- Addresses, entries <- ipEntries, granted <- ipGranted

-----------------------------------------------------------------------------
isTrustedHost(a) == a \in Trusted

\* What reaches the broker of a request that took this path: the address it
\* came from and the header.
peer(path) == Last(path)
header(path, forged) == IF Len(path) = 1 THEN forged ELSE forged \o Front(path)

\* The last hop that is not trusted, walking back from a trusted peer.
firstHop(host, hops) ==                                        \* mutant
    IF ~isTrustedHost(host) \/ hops = <<>> THEN host ELSE hops[1]
anyPeer(host, hops) == IF hops = <<>> THEN host ELSE Last(hops)  \* mutant
resolveClientIP(host, hops) ==
    LET strangers == {i \in DOMAIN hops : ~isTrustedHost(hops[i])}
    IN  IF ~isTrustedHost(host) \/ strangers = {} THEN host
        ELSE hops[CHOOSE i \in strangers : \A j \in strangers : j <= i]

\* The address a request really comes from: the last on its path that is not
\* one of our proxies.
trueSource(path) ==
    LET own == {i \in DOMAIN path : ~isTrustedHost(path[i])}
    IN  path[CHOOSE i \in own : \A j \in own : j <= i]

isAllowedClient(ip) == Allowed = {} \/ ip \in Allowed

\* Authenticate of either kind; None where the code returns an error.
tokenItself(cred) == IF cred \in DOMAIN ClientID THEN cred ELSE None  \* mutant
Authenticate(cred) == IF cred \in DOMAIN ClientID THEN ClientID[cred] ELSE None

Clients == {None} \cup {ClientID[c] : c \in DOMAIN ClientID}
Request == [source : Addresses, hint : Hints, client : Clients]
Started == [source : Addresses, client : Clients]
Silent == [observed |-> None, started |-> None]

\* Those of the two limiters, which share rate and burst.
ASSUME LimitersAssumption ==
    /\ Cost \in Nat \ {0} /\ Burst \in Nat \ {0}
    /\ IdleTTL \in Nat /\ MaxTime \in Nat
    /\ hintLimiter!Capacity <= IdleTTL
    /\ None \notin hintLimiter!Entry
ASSUME NoneAssumption == None \notin Request \cup Started

AdmissionTypeOK ==
    /\ hintEntries \in [Hints -> hintLimiter!Entry \cup {None}]
    /\ ipEntries \in [Addresses -> ipLimiter!Entry \cup {None}]
    /\ verdict \in hintLimiter!Verdicts \cup ipLimiter!Verdicts
    /\ hintGranted \in [Hints -> Nat]
    /\ ipGranted \in [Addresses -> Nat]
    /\ now \in Nat
    /\ reqs \in [Workers -> Request \cup {None}]
    /\ out \in [observed : Hints \cup {None}, started : Started \cup {None}]
    /\ sessions \in [Hints -> Nat]
    /\ failed \in [Hints -> Nat]
    /\ opened \in [Addresses -> Nat]

-----------------------------------------------------------------------------
(* POST /auth/start.  The two Allow calls of one request are two steps, as *)
(* other requests may come between them.                                   *)

identified(cred) == Gated => Authenticate(cred) # None

\* Unauthenticated or malformed: refused before anything is noted.
reject ==
    /\ out' = Silent
    /\ UNCHANGED <<now, hintVars, ipVars, verdict, reqs, historyVars>>

\* Observed; then the network check.
wrongNetwork(ip, hint, cred) ==
    /\ identified(cred)
    /\ ~isAllowedClient(ip)
    /\ out' = [Silent EXCEPT !.observed = hint]
    /\ UNCHANGED <<now, hintVars, ipVars, verdict, reqs, historyVars>>

passes(ip) == ipLimiter!affordable(ipLimiter!entryFor(ip, now), now)
hold(path, ip, hint, cred) ==
    IF passes(ip) THEN [source |-> trueSource(path), hint |-> hint,
                        client |-> Authenticate(cred)]
                  ELSE None

\* Observed; then ipLimiter.Allow, which ends the request or lets it go on.
bothAsked(w, path, ip, hint, cred) ==                          \* mutant
    LET e == hintLimiter!entryFor(hint, now) IN
    /\ reqs[w] = None /\ identified(cred) /\ isAllowedClient(ip)
    /\ ipLimiter!Allow(ip)
    /\ hintEntries' = IF passes(ip) THEN hintEntries
                      ELSE [hintEntries EXCEPT ![hint] = hintLimiter!charge(e, now)]
    /\ hintGranted' = IF passes(ip) \/ ~hintLimiter!affordable(e, now) THEN hintGranted
                      ELSE [hintGranted EXCEPT ![hint] = @ + 1]
    /\ reqs' = [reqs EXCEPT ![w] = hold(path, ip, hint, cred)]
    /\ out' = [Silent EXCEPT !.observed = hint]
    /\ UNCHANGED <<now, historyVars>>
askAddress(w, path, ip, hint, cred) ==
    /\ reqs[w] = None
    /\ identified(cred)
    /\ isAllowedClient(ip)
    /\ ipLimiter!Allow(ip)
    /\ reqs' = [reqs EXCEPT ![w] = hold(path, ip, hint, cred)]
    /\ out' = [Silent EXCEPT !.observed = hint]
    /\ UNCHANGED <<now, hintVars, historyVars>>

\* newSession and store.Create: the session, or an internal error of either,
\* which the token already taken does not come back from.
create(r) ==
    \/ /\ out' = [Silent EXCEPT !.started = [source |-> r.source, client |-> r.client]]
       /\ sessions' = [sessions EXCEPT ![r.hint] = @ + 1]
       /\ opened' = [opened EXCEPT ![r.source] = @ + 1]
       /\ UNCHANGED failed
    \/ /\ out' = Silent
       /\ failed' = [failed EXCEPT ![r.hint] = @ + 1]
       /\ UNCHANGED <<sessions, opened>>

\* Then hintLimiter.Allow, which ends the request or lets it create a session.
askHint(w) ==
    LET r == reqs[w] IN
        /\ r # None
        /\ hintLimiter!Allow(r.hint)
        /\ reqs' = [reqs EXCEPT ![w] = None]
        /\ IF hintLimiter!affordable(hintLimiter!entryFor(r.hint, now), now)
           THEN create(r)
           ELSE out' = Silent /\ UNCHANGED historyVars
        /\ UNCHANGED <<now, ipVars>>

handleStart(w, path, forged, hint, cred) ==
    LET ip == resolveClientIP(peer(path), header(path, forged))
    IN  wrongNetwork(ip, hint, cred) \/ askAddress(w, path, ip, hint, cred)

Tick ==
    /\ now < MaxTime
    /\ now' = now + 1
    /\ out' = Silent
    /\ verdict' = hintLimiter!NoVerdict
    /\ UNCHANGED <<hintVars, ipVars, reqs, historyVars>>

Init ==
    /\ hintLimiter!Init
    /\ ipLimiter!Init
    /\ reqs = [w \in Workers |-> None]
    /\ out = Silent
    /\ sessions = [h \in Hints |-> 0]
    /\ failed = [h \in Hints |-> 0]
    /\ opened = [a \in Addresses |-> 0]

Next ==
    \/ \E w \in Workers, path \in Paths, forged \in Forged, h \in Hints, c \in Credentials :
         handleStart(w, path, forged, h, c)
    \/ \E w \in Workers : askHint(w)
    \/ reject
    \/ Tick

Spec == Init /\ [][Next]_startVars

-----------------------------------------------------------------------------
\* A source cannot start more sessions than its bucket allows, whatever
\* headers it writes and whichever proxies it comes through
\* (resolveClientIP, Allow).
SourceBudget == \A a \in Addresses : opened[a] * Cost <= Burst * Cost + now

\* Sessions are started only from the allowed networks, by clients that have
\* authenticated, as seen along the path and not in the header
\* (isAllowedClient, Authenticate).
StartedByAllowed ==
    out.started # None =>
        /\ Allowed = {} \/ out.started.source \in Allowed
        /\ Gated => out.started.client # None

\* A hint's tokens go to requests that passed every check before its limiter,
\* to a session each unless the broker itself fails to create it: a source that
\* is refused cannot use up the budget of somebody else's login_hint
\* (handleStart).
RefusedSpendNothing == \A h \in Hints : hintGranted[h] = sessions[h] + failed[h]
=============================================================================
