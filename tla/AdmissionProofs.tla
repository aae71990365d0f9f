-------------------------- MODULE AdmissionProofs --------------------------
(***************************************************************************)
(* Who may start a session, for any number of addresses, proxies, headers, *)
(* hints and requests served at once.  The two limiters are those of       *)
(* RateLimiterProofs.                                                      *)
(***************************************************************************)
EXTENDS Admission, FiniteSetTheorems, WellFoundedInduction, TLAPS

hintProofs == INSTANCE RateLimiterProofs WITH
    Keys <- Hints, entries <- hintEntries, granted <- hintGranted
ipProofs == INSTANCE RateLimiterProofs WITH
    Keys <- Addresses, entries <- ipEntries, granted <- ipGranted

-----------------------------------------------------------------------------
(* The address the broker finds is the one the request comes from.         *)

\* A non-empty set of positions has a last one.
LEMMA HasLast ==
    ASSUME NEW n \in Nat, NEW S, S \subseteq 1..n, S # {}
    PROVE  \E i \in S : \A j \in S : j <= i
<1> DEFINE R == OpToRel(<, Nat)
           T == {n - i : i \in S}
<1>1. T \subseteq Nat /\ T # {}
    <2>1. \A i \in S : i \in 1..n /\ n - i \in Nat
        OBVIOUS
    <2>2. PICK i \in S : TRUE
        OBVIOUS
    <2>3. n - i \in T
        BY <2>2
    <2> QED BY <2>1, <2>3
<1> HIDE DEF T
<1>2. PICK x \in T : \A y \in T : ~(<<y, x>> \in R)
    <2> HIDE DEF R
    <2>1. IsWellFoundedOn(R, Nat)
        BY NatLessThanWellFounded DEF R
    <2> QED BY <1>1, <2>1, WFMin
<1>3. \A y \in T : x <= y
    <2> SUFFICES ASSUME NEW y \in T PROVE x <= y
        OBVIOUS
    <2>1. x \in Nat /\ y \in Nat
        BY <1>1
    <2>2. ~(y < x)
        BY <1>2, <2>1 DEF OpToRel
    <2> QED BY <2>1, <2>2
<1>4. PICK i \in S : x = n - i
    BY DEF T
<1>5. ASSUME NEW j \in S
      PROVE  j <= i
    <2>1. n - j \in T
        BY DEF T
    <2>2. i \in 1..n /\ j \in 1..n /\ n - i <= n - j
        BY <1>3, <1>4, <2>1
    <2> QED BY <2>2
<1>6. QED BY <1>5

LastOf(S) == CHOOSE i \in S : \A j \in S : j <= i

\* There is only one.
LEMMA LastOfIs ==
    ASSUME NEW n \in Nat, NEW S, S \subseteq 1..n, NEW k \in S, \A j \in S : j <= k
    PROVE  LastOf(S) = k
<1> DEFINE c == LastOf(S)
<1>1. c \in S /\ \A j \in S : j <= c
    BY DEF LastOf
<1> HIDE DEF c
<1>2. c \in Nat /\ k \in Nat /\ c <= k /\ k <= c
    BY <1>1
<1>3. c = k
    BY <1>2
<1>4. QED BY <1>3 DEF c

\* Whatever a sender writes into the header, resolveClientIP finds the last
\* address on the path that is no proxy of ours.
LEMMA ResolvesTruly ==
    ASSUME NEW path \in Paths, NEW forged \in Forged
    PROVE  /\ resolveClientIP(peer(path), header(path, forged)) = trueSource(path)
           /\ trueSource(path) \in Addresses
<1> DEFINE n == Len(path)
           f == Len(forged)
           own == {i \in DOMAIN path : ~isTrustedHost(path[i])}
<1>1. /\ path \in Seq(Addresses) /\ forged \in Seq(Addresses)
      /\ path # <<>>
      /\ ~isTrustedHost(path[1])
    BY PathsAssumption, SendersAssumption DEF isTrustedHost
<1>2. /\ n \in Nat /\ n >= 1 /\ DOMAIN path = 1..n
      /\ f \in Nat /\ DOMAIN forged = 1..f
      /\ \A i \in 1..n : path[i] \in Addresses
    BY <1>1
<1>3. own \subseteq 1..n /\ 1 \in own
    BY <1>1, <1>2
<1>4. PICK k \in own : \A j \in own : j <= k
    BY <1>2, <1>3, HasLast
<1>5. LastOf(own) = k
    BY <1>2, <1>3, <1>4, LastOfIs
<1>6. trueSource(path) = path[k]
    BY <1>5 DEF trueSource, LastOf
<1>7. k \in 1..n /\ ~isTrustedHost(path[k])
    BY <1>3, <1>4
<1>8. CASE ~isTrustedHost(path[n])
    <2>1. n \in own
        BY <1>2, <1>8
    <2>2. k = n
        BY <1>2, <1>4, <1>7, <2>1
    <2>3. resolveClientIP(peer(path), header(path, forged)) = peer(path)
        BY <1>8 DEF resolveClientIP, peer, Last
    <2> QED BY <1>2, <1>6, <2>2, <2>3 DEF peer, Last
<1>9. CASE isTrustedHost(path[n])
    <2> DEFINE h == header(path, forged)
               strangers == {i \in DOMAIN h : ~isTrustedHost(h[i])}
    <2>1. n # 1 /\ k # n
        BY <1>1, <1>7, <1>9
    <2>2. h = forged \o SubSeq(path, 1, n - 1)
        BY <2>1 DEF header, Front
    <2>3. /\ SubSeq(path, 1, n - 1) \in Seq(Addresses)
          /\ Len(SubSeq(path, 1, n - 1)) = n - 1
          /\ \A i \in 1..(n - 1) : SubSeq(path, 1, n - 1)[i] = path[i]
        BY <1>1, <1>2
    <2> HIDE DEF h
    <2>4. /\ DOMAIN h = 1..(f + n - 1)
          /\ \A i \in 1..(n - 1) : h[f + i] = path[i]
        BY <1>1, <1>2, <2>2, <2>3
    <2> HIDE DEF n, f
    <2>5. f + k \in strangers
        BY <1>2, <1>7, <2>1, <2>4
    <2>6. ASSUME NEW j \in strangers
          PROVE  j <= f + k
        <3> SUFFICES ASSUME j > f + k PROVE FALSE
            BY <1>2, <1>7, <2>4
        <3>1. j \in 1..(f + n - 1) /\ ~isTrustedHost(h[j])
            BY <2>4
        <3>2. j - f \in 1..(n - 1) /\ f + (j - f) = j
            BY <1>2, <1>7, <3>1
        <3>3. h[j] = path[j - f]
            BY <2>4, <3>2
        <3>4. j - f \in own
            BY <1>2, <3>1, <3>2, <3>3 DEF n
        <3> QED BY <1>2, <1>4, <1>7, <3>1, <3>4
    <2>7. strangers \subseteq 1..(f + n - 1) /\ f + n - 1 \in Nat
        BY <1>2, <2>4
    <2>8. LastOf(strangers) = f + k
        <3> HIDE DEF strangers
        <3> QED BY <2>5, <2>6, <2>7, LastOfIs
    <2>9. strangers # {}
        BY <2>5
    <2>10. resolveClientIP(peer(path), h) = h[LastOf(strangers)]
        BY <1>9, <2>9 DEF resolveClientIP, peer, Last, LastOf, n
    <2>11. h[f + k] = path[k]
        BY <1>2, <1>7, <2>1, <2>4
    <2> QED BY <1>2, <1>6, <1>7, <2>8, <2>10, <2>11 DEF h, n
<1>10. QED BY <1>2, <1>6, <1>7, <1>8, <1>9

-----------------------------------------------------------------------------
(* The two limiters.                                                       *)

\* What RateLimiterProofs assumes of the constants.
LEMMA LimiterFacts ==
    /\ Cost \in Nat \ {0} /\ Burst \in Nat \ {0} /\ IdleTTL \in Nat /\ MaxTime \in Nat
    /\ Burst * Cost <= IdleTTL
    /\ None \notin [tokens : 0..(Burst * Cost), last : Nat, lastSeen : Nat]
BY LimitersAssumption DEF hintLimiter!Capacity, hintLimiter!Entry

\* Allow for a hint, in terms of what the hint has.
LEMMA HintAllow ==
    ASSUME hintProofs!BucketInv, NEW k \in Hints, hintLimiter!Allow(k)
    PROVE  hintProofs!BucketInv' /\ hintProofs!AllowEffect(k)
<1>1. hintProofs!Allow(k)
    BY DEF hintLimiter!Allow, hintProofs!Allow, hintLimiter!entryFor, hintProofs!entryFor,
           hintLimiter!sweepLocked, hintProofs!sweepLocked, hintLimiter!charge,
           hintProofs!charge, hintLimiter!affordable, hintProofs!affordable,
           hintLimiter!advance, hintProofs!advance, hintLimiter!idle, hintProofs!idle,
           hintLimiter!NewLimiter, hintProofs!NewLimiter, hintLimiter!Capacity,
           hintProofs!Capacity
<1>2. QED
    BY <1>1, hintProofs!AllowCases, LimiterFacts DEF hintProofs!Capacity, hintProofs!Entry

\* A hint can pay when it has the price.
LEMMA HintAffordable ==
    ASSUME hintProofs!BucketInv, NEW k \in Hints
    PROVE  hintLimiter!affordable(hintLimiter!entryFor(k, now), now)
             <=> hintProofs!available(k) >= Cost
<1>1. hintProofs!advance(hintProofs!entryFor(k, now), now) = hintProofs!available(k)
    BY hintProofs!EntryCases, LimiterFacts DEF hintProofs!Capacity, hintProofs!Entry
<1>2. hintLimiter!advance(hintLimiter!entryFor(k, now), now)
        = hintProofs!advance(hintProofs!entryFor(k, now), now)
    BY DEF hintLimiter!entryFor, hintProofs!entryFor,
           hintLimiter!sweepLocked, hintProofs!sweepLocked,
           hintLimiter!advance, hintProofs!advance, hintLimiter!idle, hintProofs!idle,
           hintLimiter!NewLimiter, hintProofs!NewLimiter, hintLimiter!Capacity,
           hintProofs!Capacity
<1>3. QED BY <1>1, <1>2 DEF hintLimiter!affordable

\* Allow for an address, in terms of what the address has.
LEMMA AddressAllow ==
    ASSUME ipProofs!BucketInv, ipProofs!WithinBudget, NEW k \in Addresses, ipLimiter!Allow(k)
    PROVE  ipProofs!BucketInv' /\ ipProofs!AllowEffect(k) /\ ipProofs!WithinBudget'
<1>1. ipProofs!Allow(k)
    BY DEF ipLimiter!Allow, ipProofs!Allow, ipLimiter!entryFor, ipProofs!entryFor,
           ipLimiter!sweepLocked, ipProofs!sweepLocked, ipLimiter!charge,
           ipProofs!charge, ipLimiter!affordable, ipProofs!affordable,
           ipLimiter!advance, ipProofs!advance, ipLimiter!idle, ipProofs!idle,
           ipLimiter!NewLimiter, ipProofs!NewLimiter, ipLimiter!Capacity,
           ipProofs!Capacity
<1>2. ipProofs!BucketInv' /\ ipProofs!AllowEffect(k)
    BY <1>1, ipProofs!AllowCases, LimiterFacts DEF ipProofs!Capacity, ipProofs!Entry
<1>3. ipProofs!WithinBudget'
    BY <1>1, ipProofs!BudgetAllow, LimiterFacts DEF ipProofs!Capacity, ipProofs!Entry
<1>4. QED BY <1>2, <1>3

\* An address can pay when it has the price.
LEMMA AddressAffordable ==
    ASSUME ipProofs!BucketInv, NEW k \in Addresses
    PROVE  passes(k) <=> ipProofs!available(k) >= Cost
<1>1. ipProofs!advance(ipProofs!entryFor(k, now), now) = ipProofs!available(k)
    BY ipProofs!EntryCases, LimiterFacts DEF ipProofs!Capacity, ipProofs!Entry
<1>2. ipLimiter!advance(ipLimiter!entryFor(k, now), now)
        = ipProofs!advance(ipProofs!entryFor(k, now), now)
    BY DEF ipLimiter!entryFor, ipProofs!entryFor,
           ipLimiter!sweepLocked, ipProofs!sweepLocked,
           ipLimiter!advance, ipProofs!advance, ipLimiter!idle, ipProofs!idle,
           ipLimiter!NewLimiter, ipProofs!NewLimiter, ipLimiter!Capacity,
           ipProofs!Capacity
<1>3. QED BY <1>1, <1>2 DEF ipLimiter!affordable, passes

\* The clock is the limiters' too.
LEMMA TickBuckets ==
    ASSUME hintProofs!BucketInv, ipProofs!BucketInv, ipProofs!WithinBudget, Tick
    PROVE  hintProofs!BucketInv' /\ ipProofs!BucketInv' /\ ipProofs!WithinBudget'
<1>1. hintProofs!Tick
    BY DEF Tick, hintProofs!Tick, hintProofs!NoVerdict, hintLimiter!NoVerdict, hintVars
<1>2. ipProofs!Tick
    BY DEF Tick, ipProofs!Tick, ipProofs!NoVerdict, hintLimiter!NoVerdict, ipVars
<1>3. hintProofs!BucketInv'
    BY <1>1, hintProofs!TickCases, LimiterFacts DEF hintProofs!Capacity, hintProofs!Entry
<1>4. ipProofs!BucketInv'
    BY <1>2, ipProofs!TickCases, LimiterFacts DEF ipProofs!Capacity, ipProofs!Entry
<1>5. ipProofs!WithinBudget'
    BY <1>2, ipProofs!BudgetTick, LimiterFacts DEF ipProofs!Capacity, ipProofs!Entry
<1>6. QED BY <1>3, <1>4, <1>5

-----------------------------------------------------------------------------
(* The inductive invariant.                                                *)

\* The requests of a source that have paid and not yet asked for their hint.
pending(a) == {w \in Workers : reqs[w] # None /\ reqs[w].source = a}

\* Every session a source started, and every request of its that is still
\* under way, was paid for from the source's own bucket.
Charged == \A a \in Addresses : opened[a] + Cardinality(pending(a)) <= ipGranted[a]

Entitled(r) ==
    /\ Allowed = {} \/ r.source \in Allowed
    /\ Gated => r.client # None

\* A request under way has passed the checks.
Screened == \A w \in Workers : reqs[w] # None => Entitled(reqs[w])

OutType == [observed : Hints \cup {None}, started : Started \cup {None}]

RestTypeOK ==
    /\ verdict \in hintLimiter!Verdicts \cup ipLimiter!Verdicts
    /\ reqs \in [Workers -> Request \cup {None}]
    /\ out \in OutType
    /\ sessions \in [Hints -> Nat]
    /\ failed \in [Hints -> Nat]
    /\ opened \in [Addresses -> Nat]

BucketsInv == hintProofs!BucketInv /\ ipProofs!BucketInv /\ ipProofs!WithinBudget

AdmissionInv ==
    /\ BucketsInv
    /\ RestTypeOK
    /\ Charged
    /\ Screened
    /\ StartedByAllowed
    /\ RefusedSpendNothing

\* A limiter that is not asked is left alone.
LEMMA HintFrame ==
    ASSUME hintProofs!BucketInv, UNCHANGED <<hintEntries, hintGranted, now>>
    PROVE  hintProofs!BucketInv'
BY DEF hintProofs!BucketInv, hintProofs!ReadingsInOrder

\* The same of the other.
LEMMA AddressFrame ==
    ASSUME ipProofs!BucketInv, ipProofs!WithinBudget, UNCHANGED <<ipEntries, ipGranted, now>>
    PROVE  ipProofs!BucketInv' /\ ipProofs!WithinBudget'
BY DEF ipProofs!BucketInv, ipProofs!ReadingsInOrder, ipProofs!WithinBudget, ipProofs!available

\* The requests under way are finitely many.
LEMMA PendingFinite ==
    ASSUME NEW a
    PROVE  IsFiniteSet(pending(a)) /\ Cardinality(pending(a)) \in Nat
<1>1. pending(a) \in SUBSET Workers
    BY DEF pending
<1>2. QED BY <1>1, WorkersAssumption, FS_Subset, FS_CardinalityType

\* A request under way is none of nothing.
LEMMA RequestType ==
    ASSUME NEW r \in Request
    PROVE  r # None /\ r.source \in Addresses /\ r.hint \in Hints /\ r.client \in Clients
BY NoneAssumption DEF Request

\* The latest step's output.
LEMMA SilentType ==
    /\ Silent \in OutType
    /\ Silent.started = None
    /\ \A h \in Hints : /\ [Silent EXCEPT !.observed = h] \in OutType
                        /\ [Silent EXCEPT !.observed = h].started = None
BY DEF Silent, OutType

\* Who is authenticated is a client.
LEMMA AuthenticateType == \A c : Authenticate(c) \in Clients
BY DEF Authenticate, Clients

\* A step that starts nothing, asks no limiter and leaves the requests alone.
LEMMA QuietStep ==
    ASSUME AdmissionInv, BucketsInv', reqs' = reqs, hintGranted' = hintGranted,
           ipGranted' = ipGranted, sessions' = sessions, failed' = failed, opened' = opened,
           verdict' \in hintLimiter!Verdicts \cup ipLimiter!Verdicts,
           out' \in OutType, out'.started = None
    PROVE  AdmissionInv'
<1>1. RestTypeOK'
    BY DEF AdmissionInv, RestTypeOK, OutType, hintLimiter!Verdicts, ipLimiter!Verdicts
<1>2. Charged' /\ Screened' /\ RefusedSpendNothing'
    BY DEF AdmissionInv, Charged, pending, Screened, RefusedSpendNothing
<1>3. StartedByAllowed'
    BY DEF StartedByAllowed
<1>4. QED BY <1>1, <1>2, <1>3 DEF AdmissionInv

\* The broker starts with nothing asked.
LEMMA InitAdmission == Init => AdmissionInv
<1> SUFFICES ASSUME Init PROVE AdmissionInv
    OBVIOUS
<1>1. hintProofs!Init
    BY DEF Init, hintLimiter!Init, hintProofs!Init, hintLimiter!NoVerdict, hintProofs!NoVerdict
<1>2. ipProofs!Init
    BY DEF Init, ipLimiter!Init, ipProofs!Init, ipLimiter!NoVerdict, ipProofs!NoVerdict
<1>3. hintProofs!BucketInv
    BY <1>1, hintProofs!InitInv, LimiterFacts
       DEF hintProofs!LimiterInv, hintProofs!Capacity, hintProofs!Entry
<1>4. ipProofs!BucketInv
    BY <1>2, ipProofs!InitInv, LimiterFacts
       DEF ipProofs!LimiterInv, ipProofs!Capacity, ipProofs!Entry
<1>5. ipProofs!WithinBudget
    BY <1>2, ipProofs!BudgetInit, LimiterFacts DEF ipProofs!Capacity, ipProofs!Entry
<1>6. RestTypeOK
    <2>1. verdict \in hintLimiter!Verdicts
        BY DEF Init, hintLimiter!Init, hintLimiter!Verdicts
    <2> QED BY <2>1, SilentType DEF Init, RestTypeOK
<1>7. Charged
    <2> SUFFICES ASSUME NEW a \in Addresses
                 PROVE  opened[a] + Cardinality(pending(a)) <= ipGranted[a]
        BY DEF Charged
    <2>1. pending(a) = {}
        BY DEF pending, Init
    <2>2. opened[a] = 0 /\ ipGranted[a] = 0
        BY DEF Init, ipLimiter!Init
    <2> QED BY <2>1, <2>2, FS_EmptySet
<1>8. Screened /\ StartedByAllowed /\ RefusedSpendNothing
    BY SilentType DEF Screened, StartedByAllowed, RefusedSpendNothing, Init, hintLimiter!Init
<1>9. QED BY <1>3, <1>4, <1>5, <1>6, <1>7, <1>8 DEF AdmissionInv, BucketsInv

\* ipLimiter.Allow: the source pays for the request it lets through.
LEMMA AskAddressStep ==
    ASSUME AdmissionInv, NEW w \in Workers, NEW path \in Paths, NEW forged \in Forged,
           NEW hint \in Hints, NEW cred,
           askAddress(w, path, resolveClientIP(peer(path), header(path, forged)), hint, cred)
    PROVE  AdmissionInv'
<1> DEFINE ip == trueSource(path)
<1>1. resolveClientIP(peer(path), header(path, forged)) = ip /\ ip \in Addresses
    BY ResolvesTruly
<1>2. askAddress(w, path, ip, hint, cred)
    BY <1>1
<1> HIDE DEF ip
<1>3. /\ reqs[w] = None /\ identified(cred) /\ isAllowedClient(ip)
      /\ ipLimiter!Allow(ip)
      /\ reqs' = [reqs EXCEPT ![w] = hold(path, ip, hint, cred)]
      /\ out' = [Silent EXCEPT !.observed = hint]
      /\ UNCHANGED <<now, hintEntries, hintGranted, sessions, failed, opened>>
    BY <1>2 DEF askAddress, hintVars, historyVars
<1>4. /\ hintProofs!BucketInv /\ ipProofs!BucketInv /\ ipProofs!WithinBudget
      /\ reqs \in [Workers -> Request \cup {None}]
      /\ sessions \in [Hints -> Nat] /\ failed \in [Hints -> Nat]
      /\ opened \in [Addresses -> Nat]
      /\ ipGranted \in [Addresses -> Nat]
      /\ Charged /\ Screened /\ RefusedSpendNothing
    BY DEF AdmissionInv, BucketsInv, RestTypeOK, ipProofs!BucketInv
<1>5. ipProofs!BucketInv' /\ ipProofs!AllowEffect(ip) /\ ipProofs!WithinBudget'
    BY <1>1, <1>3, <1>4, AddressAllow
<1>6. hintProofs!BucketInv'
    BY <1>3, <1>4, HintFrame
<1>7. /\ passes(ip) => ipGranted' = [ipGranted EXCEPT ![ip] = @ + 1]
      /\ ~passes(ip) => ipGranted' = ipGranted
    <2>1. passes(ip) <=> ipProofs!available(ip) >= Cost
        BY <1>1, <1>4, AddressAffordable
    <2> QED BY <1>1, <1>4, <1>5, <2>1 DEF ipProofs!AllowEffect
<1>8. verdict' \in ipLimiter!Verdicts
    BY <1>1, <1>5 DEF ipProofs!AllowEffect, ipLimiter!Verdicts
<1> DEFINE r == [source |-> ip, hint |-> hint, client |-> Authenticate(cred)]
<1>9. r \in Request /\ r.source = ip /\ r.client = Authenticate(cred)
    BY <1>1, AuthenticateType DEF Request
<1> HIDE DEF r
<1>10. Entitled(r)
    BY <1>3, <1>9 DEF Entitled, isAllowedClient, identified
<1>11. reqs' = [reqs EXCEPT ![w] = IF passes(ip) THEN r ELSE None]
    BY <1>3 DEF hold, r, ip
<1>12. RestTypeOK'
    <2>1. reqs' \in [Workers -> Request \cup {None}]
        BY <1>4, <1>9, <1>11
    <2>2. out' \in OutType
        BY <1>3, SilentType
    <2> QED BY <1>3, <1>4, <1>8, <2>1, <2>2 DEF RestTypeOK, OutType, ipLimiter!Verdicts, hintLimiter!Verdicts
<1>13. Screened'
    BY <1>4, <1>10, <1>11 DEF Screened
<1>14. StartedByAllowed' /\ RefusedSpendNothing'
    BY <1>3, <1>4, SilentType DEF StartedByAllowed, RefusedSpendNothing
<1>15. Charged'
    <2> SUFFICES ASSUME NEW a \in Addresses
                 PROVE  opened'[a] + Cardinality(pending(a)') <= ipGranted'[a]
        BY DEF Charged
    <2>1. /\ opened'[a] = opened[a] /\ opened[a] \in Nat
          /\ opened[a] + Cardinality(pending(a)) <= ipGranted[a]
          /\ ipGranted[a] \in Nat
        BY <1>3, <1>4 DEF Charged
    <2>2. IsFiniteSet(pending(a)) /\ Cardinality(pending(a)) \in Nat
        BY PendingFinite
    <2>3. w \notin pending(a)
        BY <1>3 DEF pending
    <2>4. CASE passes(ip) /\ a = ip
        <3>1. reqs'[w] # None /\ reqs'[w].source = a /\ \A v \in Workers \ {w} : reqs'[v] = reqs[v]
            BY <1>4, <1>9, <1>11, <2>4, RequestType
        <3>2. pending(a)' = pending(a) \cup {w}
            BY <3>1 DEF pending
        <3>3. Cardinality(pending(a)') = Cardinality(pending(a)) + 1
            BY <2>2, <2>3, <3>2, FS_AddElement
        <3>4. ipGranted'[a] = ipGranted[a] + 1
            BY <1>4, <1>7, <2>4
        <3> QED BY <2>1, <2>2, <3>3, <3>4
    <2>5. CASE ~(passes(ip) /\ a = ip)
        <3>1. pending(a)' = pending(a)
            <4>1. \A v \in Workers \ {w} : reqs'[v] = reqs[v]
                BY <1>4, <1>11
            <4>2. ~(reqs'[w] # None /\ reqs'[w].source = a)
                BY <1>4, <1>9, <1>11, <2>5
            <4>3. ASSUME NEW v \in Workers
                  PROVE  v \in pending(a)' <=> v \in pending(a)
                BY <2>3, <4>1, <4>2 DEF pending
            <4> QED BY <4>3 DEF pending
        <3>2. ipGranted'[a] = ipGranted[a]
            BY <1>1, <1>4, <1>7, <2>5
        <3> QED BY <2>1, <3>1, <3>2
    <2> QED BY <2>4, <2>5
<1>16. QED BY <1>5, <1>6, <1>12, <1>13, <1>14, <1>15 DEF AdmissionInv, BucketsInv

\* hintLimiter.Allow and newSession: the session takes over what was paid.
LEMMA AskHintStep ==
    ASSUME AdmissionInv, NEW w \in Workers, askHint(w)
    PROVE  AdmissionInv'
<1> DEFINE r == reqs[w]
           ok == hintLimiter!affordable(hintLimiter!entryFor(r.hint, now), now)
           start == [source |-> r.source, client |-> r.client]
<1>1. /\ hintProofs!BucketInv /\ ipProofs!BucketInv /\ ipProofs!WithinBudget
      /\ reqs \in [Workers -> Request \cup {None}]
      /\ sessions \in [Hints -> Nat] /\ failed \in [Hints -> Nat]
      /\ opened \in [Addresses -> Nat]
      /\ hintGranted \in [Hints -> Nat]
      /\ ipGranted \in [Addresses -> Nat]
      /\ Charged /\ Screened /\ RefusedSpendNothing
    BY DEF AdmissionInv, BucketsInv, RestTypeOK, ipProofs!BucketInv, hintProofs!BucketInv
<1>2. /\ r # None
      /\ hintLimiter!Allow(r.hint)
      /\ reqs' = [reqs EXCEPT ![w] = None]
      /\ UNCHANGED <<now, ipEntries, ipGranted>>
    BY DEF askHint, ipVars
<1> DEFINE starts == /\ out' = [Silent EXCEPT !.started = start]
                     /\ sessions' = [sessions EXCEPT ![r.hint] = @ + 1]
                     /\ opened' = [opened EXCEPT ![r.source] = @ + 1]
                     /\ failed' = failed
           fails == /\ out' = Silent
                    /\ sessions' = sessions /\ opened' = opened
                    /\ failed' = [failed EXCEPT ![r.hint] = @ + 1]
           refuses == /\ out' = Silent
                      /\ sessions' = sessions /\ failed' = failed /\ opened' = opened
<1>3. (ok => starts \/ fails) /\ (~ok => refuses)
    BY DEF askHint, create, historyVars
<1>4. /\ r \in Request
      /\ r.source \in Addresses /\ r.hint \in Hints /\ r.client \in Clients
    BY <1>1, <1>2, RequestType
<1>5. Entitled(r)
    BY <1>1, <1>2 DEF Screened
<1>6. hintProofs!BucketInv' /\ hintProofs!AllowEffect(r.hint)
    BY <1>1, <1>2, <1>4, HintAllow
<1>7. ok <=> hintProofs!available(r.hint) >= Cost
    BY <1>1, <1>4, HintAffordable
<1>8. ipProofs!BucketInv' /\ ipProofs!WithinBudget'
    BY <1>1, <1>2, AddressFrame
<1>9. start \in Started /\ start.source = r.source /\ start.client = r.client
    BY <1>4 DEF Started
<1> HIDE DEF ok, start
<1>10. /\ ok => hintGranted' = [hintGranted EXCEPT ![r.hint] = @ + 1]
       /\ ~ok => hintGranted' = hintGranted
       /\ verdict' \in hintLimiter!Verdicts
    <2>1. /\ ok => hintGranted' = [hintGranted EXCEPT ![r.hint] = @ + 1]
          /\ ~ok => hintGranted' = hintGranted
        BY <1>1, <1>4, <1>6, <1>7 DEF hintProofs!AllowEffect
    <2>2. verdict' \in hintLimiter!Verdicts
        BY <1>4, <1>6 DEF hintProofs!AllowEffect, hintLimiter!Verdicts
    <2> QED BY <2>1, <2>2
<1>11. out' \in OutType /\ (out'.started = None \/ out'.started = start)
    <2>1. CASE starts
        <3>1. /\ [Silent EXCEPT !.started = start] \in OutType
              /\ [Silent EXCEPT !.started = start].started = start
            BY <1>9 DEF Silent, OutType
        <3> QED BY <2>1, <3>1
    <2>2. CASE fails \/ refuses
        BY <2>2, SilentType
    <2> QED BY <1>3, <2>1, <2>2
<1>12. RestTypeOK'
    <2>1. reqs' \in [Workers -> Request \cup {None}]
        BY <1>1, <1>2
    <2>2. /\ sessions' \in [Hints -> Nat] /\ failed' \in [Hints -> Nat]
          /\ opened' \in [Addresses -> Nat]
        BY <1>1, <1>3, <1>4
    <2> QED BY <1>10, <1>11, <2>1, <2>2
            DEF RestTypeOK, OutType, ipLimiter!Verdicts, hintLimiter!Verdicts
<1>13. Screened'
    BY <1>1, <1>2 DEF Screened
<1>14. StartedByAllowed'
    BY <1>5, <1>9, <1>11 DEF StartedByAllowed, Entitled
<1>15. RefusedSpendNothing'
    BY <1>1, <1>3, <1>4, <1>10 DEF RefusedSpendNothing
<1>16. Charged'
    <2> SUFFICES ASSUME NEW a \in Addresses
                 PROVE  opened'[a] + Cardinality(pending(a)') <= ipGranted'[a]
        BY DEF Charged
    <2>1. /\ opened[a] \in Nat
          /\ opened[a] + Cardinality(pending(a)) <= ipGranted[a]
          /\ ipGranted[a] \in Nat /\ ipGranted'[a] = ipGranted[a]
        BY <1>1, <1>2 DEF Charged
    <2>2. IsFiniteSet(pending(a)) /\ Cardinality(pending(a)) \in Nat
        BY PendingFinite
    <2>3. pending(a)' = pending(a) \ {w}
        <3>1. reqs'[w] = None /\ \A v \in Workers \ {w} : reqs'[v] = reqs[v]
            BY <1>1, <1>2
        <3> QED BY <3>1 DEF pending
    <2>4. Cardinality(pending(a)') =
            IF w \in pending(a) THEN Cardinality(pending(a)) - 1 ELSE Cardinality(pending(a))
        BY <2>2, <2>3, FS_RemoveElement
    <2>5. w \in pending(a) <=> a = r.source
        BY <1>2 DEF pending
    <2>6. opened'[a] = opened[a] \/ (a = r.source /\ opened'[a] = opened[a] + 1)
        BY <1>1, <1>3, <1>4
    <2> QED BY <2>1, <2>2, <2>4, <2>5, <2>6
<1>17. QED BY <1>6, <1>8, <1>12, <1>13, <1>14, <1>15, <1>16 DEF AdmissionInv, BucketsInv

\* The inductive invariant holds throughout.
THEOREM AdmissionHolds == Spec => []AdmissionInv
<1>1. AdmissionInv /\ [Next]_startVars => AdmissionInv'
    <2> SUFFICES ASSUME AdmissionInv, [Next]_startVars PROVE AdmissionInv'
        OBVIOUS
    <2>1. BucketsInv /\ verdict \in hintLimiter!Verdicts \cup ipLimiter!Verdicts
          /\ out \in OutType
        BY DEF AdmissionInv, RestTypeOK
    <2>2. ASSUME UNCHANGED <<now, hintVars, ipVars>>
          PROVE  BucketsInv' /\ hintGranted' = hintGranted /\ ipGranted' = ipGranted
        <3>1. UNCHANGED <<hintEntries, hintGranted, ipEntries, ipGranted, now>>
            BY <2>2 DEF hintVars, ipVars
        <3> QED BY <2>1, <3>1, HintFrame, AddressFrame DEF BucketsInv
    <2>3. ASSUME NEW w \in Workers, NEW path \in Paths, NEW forged \in Forged,
                 NEW h \in Hints, NEW c \in Credentials, handleStart(w, path, forged, h, c)
          PROVE  AdmissionInv'
        <3> DEFINE ip == resolveClientIP(peer(path), header(path, forged))
        <3>1. CASE wrongNetwork(ip, h, c)
            <4>1. /\ UNCHANGED <<now, hintVars, ipVars, verdict, reqs, sessions, failed, opened>>
                  /\ out' = [Silent EXCEPT !.observed = h]
                BY <3>1 DEF wrongNetwork, historyVars
            <4> QED BY <2>1, <2>2, <4>1, SilentType, QuietStep
        <3>2. CASE askAddress(w, path, ip, h, c)
            BY <3>2, AskAddressStep
        <3> QED BY <2>3, <3>1, <3>2 DEF handleStart
    <2>4. ASSUME NEW w \in Workers, askHint(w)
          PROVE  AdmissionInv'
        BY <2>4, AskHintStep
    <2>5. CASE reject
        <3>1. /\ UNCHANGED <<now, hintVars, ipVars, verdict, reqs, sessions, failed, opened>>
              /\ out' = Silent
            BY <2>5 DEF reject, historyVars
        <3> QED BY <2>1, <2>2, <3>1, SilentType, QuietStep
    <2>6. CASE Tick
        <3>1. BucketsInv'
            BY <2>1, <2>6, TickBuckets DEF BucketsInv
        <3>2. /\ UNCHANGED <<hintGranted, ipGranted, reqs, sessions, failed, opened>>
              /\ out' = Silent
              /\ verdict' \in hintLimiter!Verdicts
            BY <2>6 DEF Tick, historyVars, hintVars, ipVars, hintLimiter!Verdicts
        <3> QED BY <3>1, <3>2, SilentType, QuietStep
    <2>7. CASE UNCHANGED startVars
        <3>1. UNCHANGED <<now, hintVars, ipVars, verdict, reqs, out, sessions, failed, opened>>
            BY <2>7 DEF startVars, historyVars
        <3>2. BucketsInv'
            BY <2>2, <3>1
        <3> QED BY <3>1, <3>2 DEF AdmissionInv, RestTypeOK, Charged, pending, Screened,
                   StartedByAllowed, RefusedSpendNothing, hintVars, ipVars, OutType,
                   hintLimiter!Verdicts, ipLimiter!Verdicts
    <2> QED BY <2>3, <2>4, <2>5, <2>6, <2>7 DEF Next
<1>2. QED BY <1>1, InitAdmission, PTL DEF Spec

\* Limiters, requests and histories have their types (handleStart).
THEOREM AdmissionTypeCorrect == Spec => []AdmissionTypeOK
<1>1. AdmissionInv => AdmissionTypeOK
    <2> SUFFICES ASSUME AdmissionInv PROVE AdmissionTypeOK
        OBVIOUS
    <2>1. RestTypeOK /\ hintProofs!BucketInv /\ ipProofs!BucketInv
        BY DEF AdmissionInv, BucketsInv
    <2>2. /\ hintEntries \in [Hints -> hintLimiter!Entry \cup {None}]
          /\ hintGranted \in [Hints -> Nat] /\ now \in Nat
        BY <2>1 DEF hintProofs!BucketInv, hintProofs!Entry, hintLimiter!Entry,
                    hintProofs!Capacity, hintLimiter!Capacity
    <2>3. /\ ipEntries \in [Addresses -> ipLimiter!Entry \cup {None}]
          /\ ipGranted \in [Addresses -> Nat]
        BY <2>1 DEF ipProofs!BucketInv, ipProofs!Entry, ipLimiter!Entry,
                    ipProofs!Capacity, ipLimiter!Capacity
    <2> QED BY <2>1, <2>2, <2>3 DEF AdmissionTypeOK, RestTypeOK, OutType
<1>2. QED BY <1>1, AdmissionHolds, PTL

\* What is paid for is paid for in full.
LEMMA PricesAdd ==
    ASSUME NEW m \in Nat, NEW n \in Nat, m <= n
    PROVE  m * Cost <= n * Cost
<1>1. PICK d \in Nat : n = m + d
    <2>1. n - m \in Nat /\ n = m + (n - m)
        OBVIOUS
    <2> QED BY <2>1
<1>2. n * Cost = m * Cost + d * Cost /\ d * Cost \in Nat /\ m * Cost \in Nat
    BY <1>1, LimiterFacts
<1>3. QED BY <1>2

\* A source starts no more sessions than its own bucket allows, whatever
\* headers it writes and whichever proxies it comes through: the address found
\* is the true one, and each session was paid for by it (resolveClientIP,
\* handleStart, Allow).
THEOREM SourceBudgetKept == Spec => []SourceBudget
<1>1. AdmissionInv => SourceBudget
    <2> SUFFICES ASSUME AdmissionInv, NEW a \in Addresses
                 PROVE  opened[a] * Cost <= Burst * Cost + now
        BY DEF SourceBudget
    <2>1. /\ ipProofs!BucketInv /\ ipProofs!WithinBudget /\ Charged
          /\ opened[a] \in Nat /\ ipGranted[a] \in Nat /\ now \in Nat
        BY DEF AdmissionInv, BucketsInv, RestTypeOK, ipProofs!BucketInv
    <2>2. opened[a] <= ipGranted[a]
        <3>1. Cardinality(pending(a)) \in Nat
            BY PendingFinite
        <3>2. opened[a] + Cardinality(pending(a)) <= ipGranted[a]
            BY <2>1 DEF Charged
        <3> QED BY <2>1, <3>1, <3>2
    <2>3. opened[a] * Cost <= ipGranted[a] * Cost
        BY <2>1, <2>2, PricesAdd
    <2>4. ipProofs!available(a) \in Nat
        BY <2>1, ipProofs!AvailableType, LimiterFacts DEF ipProofs!Capacity, ipProofs!Entry
    <2>5. ipGranted[a] * Cost + ipProofs!available(a) <= Burst * Cost + now
        BY <2>1 DEF ipProofs!WithinBudget, ipProofs!Capacity
    <2>6. opened[a] * Cost \in Nat /\ ipGranted[a] * Cost \in Nat /\ Burst * Cost \in Nat
        BY <2>1, LimiterFacts
    <2> QED BY <2>1, <2>3, <2>4, <2>5, <2>6
<1>2. QED BY <1>1, AdmissionHolds, PTL

\* Sessions are started only by authenticated clients on the allowed
\* networks, as seen along the path (isAllowedClient, Authenticate).
THEOREM OnlyAllowedStart == Spec => []StartedByAllowed
<1>1. AdmissionInv => StartedByAllowed
    BY DEF AdmissionInv
<1>2. QED BY <1>1, AdmissionHolds, PTL

\* A hint's tokens go to requests that passed every check, a session or a
\* failure of the broker each (handleStart).
THEOREM RefusedTakeNoToken == Spec => []RefusedSpendNothing
<1>1. AdmissionInv => RefusedSpendNothing
    BY DEF AdmissionInv
<1>2. QED BY <1>1, AdmissionHolds, PTL
=============================================================================
