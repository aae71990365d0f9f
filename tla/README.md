# A TLA+ model of the xdauth broker

xdauth signs a user in on a headless client by way of a browser on another
device.  The client starts a session at the broker and shows a link and a
short code; the user opens the link, signs in at an identity provider, types
the code and approves; the client polls and receives, once, an artifact that
names the identity.  This project models the broker that sits in the middle
(its session state machine, its HTTP handlers as concurrent requests, its two
session stores, who may start a session, its abuse detector, its start-up and its
leg to the identity provider) and the client library with the programs that use
it.  Model checking covers small instances; the safety properties are also proved,
for every value of the constants, and liveness is model-checked.

## Inventory

| part | source | state | operations | interacts with |
|---|---|---|---|---|
| session state machine | `internal/broker/session.go`, `pkce.go`, `usercode.go` | one `store.Session` | newSession, expireIfNeeded, bindIdentity, approve, poll | pure; called by the handlers |
| HTTP handlers | `internal/broker/handlers.go`, `broker.go` | none of their own; two cookies in the browser | /auth/start, /auth/verify, /auth/callback and /auth/saml/acs, /auth/approve, /auth/poll | store, IdP, detector, limiters |
| memory store | `internal/store/store.go` | map of sessions | Create, Get (a copy), Update (replace), sweep | handlers; sweeper goroutine |
| Redis store | `internal/store/redis.go` | keys with a TTL | the same, over the network; shared by replicas | handlers |
| OIDC and SAML providers | `internal/oidc`, `internal/saml` | the IdP leg's state, nonce, verifier or request id, kept in the session | BeginLogin, CompleteLogin | handleVerify, handleIdPResponse |
| abuse detector | `internal/broker/detect.go` | counters per kind and key, with a window | Observe; webhook | handlers |
| rate limiters | `internal/broker/ratelimit.go` | a token bucket per key | Allow, with idle eviction | handleStart |
| client authentication, client address | `clientauth.go`, `clientip.go` | none | predicates on a request | handleStart |
| client library | `pkg/client` | session id, PKCE verifier, interval | Start, Poll | broker over HTTP |
| broker process | `cmd/xdauth-broker` | configuration | choice of store, IdP discovery with retries | all of the above |
| front ends | `cmd/xdauth-sshd`, `xdauth-pam`, `xdauth-pam-native`, `xdauth-login` | a connection or a process | Start, show the link, Poll | client library |

What is hard in it:

* **Read, change, write back.**  A handler takes a private copy of the session
  (`store.Get`), works on it and replaces the stored session by it
  (`store.Update`).  Nothing is locked in between, requests of one session come
  from two devices, and with Redis from several replicas.
* **Ignored failures.**  Most `Update` errors are dropped (`_ =`); the response
  is sent all the same, and may itself be lost.
* **Clock readings that age.**  A handler reads the clock once, and
  handleIdPResponse does so before it talks to the IdP.
* **One cookie pair per browser**, shared by all its tabs and sessions.
* **Restarts.**  Cookies, and with Redis sessions, outlive the process.
* **Late writers.**  The sweeper evicts sessions that handlers still hold; with
  Redis, keys expire between the EXISTS and the SET of one Update.
* **Timers on both ends.**  The client polls at an interval cut to whole seconds,
  slows down when told, and gives up on one failed request, while the broker
  counts the full interval, the session's lifetime and its grace.
* **Answers that arrive late or never.**  The artifact leaves once; the response
  that carries it may be lost, or come after the client has timed out.
* **Forwarded addresses.**  The header the broker reads is partly the sender's.

What makes each part correct:

* *Session and handlers*: an artifact is released only when all four checks
  passed, for the session they passed for (`ReleaseJustified`); the sign-in was
  in time (`SignInWithinLifetime`); a click decides about the session on the
  page, from the browser that signed in (`DecisionOnDisplayedSession`,
  `PageOnlyToSignedInBrowser`); a session is used once and goes forward only
  (`SingleUse`, which overlapping polls break), and each thing more than that costs
  a collision of two writers or a lost write: another artifact
  (`ReleasesBounded`), another round of wrong codes (`AttemptsBounded`), a way out
  of a terminal state (`TerminalIsFinal`), a phase out of order
  (`ImplementsSingleUseLogin`).
* *Store*: what is gone stays gone (`NoResurrection`), and everything goes
  (`EventuallyEvicted`).
* *Redis store*: readable until the end of its grace whoever wrote it last
  (`ReadableThroughGrace`), gone in the end (`EventuallyGone`), and then for good
  (`GoneForGood`).
* *Detector*: a report is earned (`ReportEarned`) and comes once per window
  (`OneReportPerWindow`), and a burst is not missed (`BurstReported`); what the
  documents list is counted (`AbuseIsCounted`, which the code does not keep).
* *Limiters*: forgetting an idle key never grants it more than its bucket would
  (`WithinBudget`, `ImplementsTokenBucket`).
* *Admission*: budgets and network limits bind the true source, whatever header
  it writes (`SourceBudget`, `StartedByAllowed`), and a refused request does not
  spend the budget of the user it names (`RefusedSpendNothing`).
* *Identity provider leg*: only the login a session began counts for it
  (`AnswersOwnLogin`); a slow IdP is waited for (`SlowIdPIsFound`), a silent one
  is not waited for for ever (`BootEndsUnlessHung`; the code can hang).
* *Client and programs*: nobody is let in without an approval of that login
  (`LoginMeansApproval`), a login ends unless its prompt hangs (`EveryLoginEnds`),
  approvals arrive that no request under way has missed (`ApprovalIsDelivered`; the
  others can be lost), artifacts are not wasted (`ArtifactNotWasted`).

## Modules

| module | what it is |
|---|---|
| `Session` | the pure operations of `session.go` on a session record |
| `Broker` | handlers, store, browsers and clock; the properties |
| `SingleUseLogin` | the abstract specification: a session goes forward through its phases and hands out its artifact once, save for collisions, which are counted |
| `MCBroker` and the `.cfg` files | instances for TLC |
| `SessionProofs` | what each operation of `Session` returns, as lemmas |
| `BrokerProofs` | types, the inductive invariant `Provenance` and what follows from it; the accounts of collisions, and the refinement |
| `RateLimiter` | keyedLimiter: lazily refilled buckets, dropped when idle |
| `TokenBucket` | the abstract specification: a bucket per key, never forgotten |
| `RateLimiterProofs` | types, budget and refinement of the limiter |
| `Detector` | the abuse detector's counters, windows and reports |
| `DetectorProofs` | its reports, from the windows the log falls into |
| `RedisStore` | the Redis store: commands of several replicas, expiring keys |
| `RedisProofs` | how long its keys last |
| `Client` | Start, Poll and the four programs, as the actions of one client |
| `Login` | `Client`, a network and the broker's session of `Session`, composed |
| `LoginProofs` | who is let in, the pace of polling, what becomes of the artifact |
| `Admission` | /auth/start: authentication, source address, networks, two instances of `RateLimiter` |
| `AdmissionProofs` | the address found is the true one; budgets |
| `Discovery` | retryDiscovery, and the IdP that may come up meanwhile |
| `IdPLeg` | `Discovery`, then BeginLogin and CompleteLogin of OIDC and SAML |
| `IdPProofs` | both: a slow IdP is found, answers are a session's own |
| `MCRateLimiter`, `MCDetector`, `MCLogin`, `MCAdmission` | instances for TLC; `RedisStore` and `IdPLeg` need none |

### Session

A session is a record with the fields of `store.Session` that some check reads.
`ExpiresAt` is `createdAt + SessionTTL`; `Interval` is a constant, because both
come from the configuration alone.  The requester context (client host, kind,
address) is shown to the user and never tested, so it is left out.  Time is a
natural number.  A hash is an injective constructor.  Random values are the
numbers of draws, so two draws never coincide; a failing random source is left
out.  `csrfToken` and the approval secret of one sign-in are the same draw.
Identity spellings and typed codes are small sets with a normalising function
as a constant, so that equality after normalisation differs from equality.

`approve` returns one error, "incorrect code", for both of the code's wrong-code
errors, which handleApprove does not tell apart.  `poll` returns
"invalid_verifier" as a status where the code returns `ErrInvalidVerifier`.

### Broker

`store` maps session ids to sessions, `browser` maps a cookie jar to its session
cookie and approval secret, `reqs` holds for each worker the request it serves:
handler, session, the copy `store.Get` returned, when, and the cookies sent.
`out` is what the latest step let out: the security event, the approval page, a
decision, the artifact.  `started`, `draws`, `grants`, `guesses`, `uses` and
`collisions` are history; guards read them only to keep session ids and random
draws fresh.  An Update collides (`Save`) when the store did not hold the copy the
handler had read, or does not hold what it wrote: another handler came between,
the sweeper or a restart did, or the write was lost.

A request is two steps.  `Begin...` is everything up to and including a
successful `store.Get`.  The second step, named after the handler, is all the
rest: the pure operation, the `Update`, the cookies, the response.  Splitting at
the read is what exposes the interleavings; the write and the response may be
one step, because nothing another request does can come between them and be
noticed, except a failure, which `UpdateOutcomes` and `SetCookies` supply.  The
clock reading is any time from the read to the end of the request.

| action | code |
|---|---|
| `handleStart`, `startRefused` | handleStart, let through or refused after the detector saw it |
| `BeginVerify`, `handleVerify` | handleVerify: `renderExpired`, `resumeApproval`, `beginIdPLogin`, `verifyRefused` are its cases |
| `BeginCallback`, `handleIdPResponse` | handleIdPResponse; `CompleteLogin` is the IdP's answer, any identity or none, for any login begun so far, with the OIDC provider's check (what SAML does otherwise is in `IdPLeg`) |
| `BeginApprove`, `handleApprove` | handleApprove: `csrfOK`, then `decide` |
| `BeginPoll`, `handlePoll` | handlePoll |
| `notFound` | `store.Get` fails in any handler |
| `Sweep` | Memory.sweep |
| `Crash` | a restart, with the memory store (sessions lost) or Redis (kept) |
| `Tick` | the clock |

The users are unrestricted: any browser opens any link, returns from the IdP
with any identity, submits any token and code; any poller presents any verifier.
`Overlap` says whether two requests of one session may be in flight together,
`Faults` whether store calls fail and responses get lost.  Nothing in the program
serializes requests; the two constants only choose what a run is about.  No
theorem depends on them.

### RateLimiter

`entries` maps a key to its limiter and when it was last seen; `Allow` sweeps,
finds or makes the key's entry and charges it, in one step, because it holds the
mutex throughout.  The second clock reading, inside `rate.Limiter.Allow`, is
taken to be the first.  The token bucket itself is `golang.org/x/time/rate`,
modelled in units of one tick's refill so that tokens are whole numbers.  The
broker's two limiters, for addresses and for hints, are two instances that share
nothing.

`IdleAssumption` says that a bucket refills within the idle time.  It holds of
the defaults (burst 5 at 0.2 per second, 25 s, against four times 5 minutes), is
not enforced for other configurations, and is exactly what the refinement needs.

### Detector

`counts` is the map of counters; a map key is a pair of kind and key.  `Observe`
is one step: the counting is under a mutex and the callbacks only log.  The
clock reading it is given may be up to `MaxLag` old, because handlers read the
clock before they work.  `log` and `reports` are history: every observation with
its time and reading, and which of them were reported.  `onEvent` is never nil,
since `New` passes its own.

### RedisStore

`key` is how many ticks Redis will keep a session's key, `age` how long ago
newSession made the session; both are relative, so time needs no bound and a
worker may stall as long as it likes.  `Create` and `Get` begin a store call;
`Exists` is Update's first command, `write` its reading of the clock
(`time.Until`), `Set` the second command, and any call may `Fail` in between.
`expiry` is external: go-redis sends no expiry when the duration is not positive,
which is why write has a floor of a minute.  What a session holds is left to
`Broker`; `Crash` there keeps the store, as Redis does.

A writer that had seen the key can bring it back after it expired, for a minute;
the memory store never does that (`NoResurrection`), although Update's comment
says it matches Memory.  `GoneForGood` says what is left of the promise: nobody
else can, so once those writers have ended, the key is gone for good.

### Client and Login

`client` is the program, the library's session and the state of the poll loop;
`net` is the one request or response under way.  The library's calls are steps:
`Start`, `Started`, then the program's prompt (`Prompted`, or `PromptFails` where
the prompt is a call that can fail), `Ask` when the timer fires, `Answered`.
`CallFails` is anything that ends a request badly, `Timeout` the HTTP client's own
limit, `Cancelled` a context that is done; a request given up on may still reach
the broker.  `admits` is what each program makes of the status: three let in on
"approved", xdauth-login on whatever is not "denied" or "expired".
`serveSession` is what the SSH server does after its handshake.

`Login` gives the client a broker.  Its handlers are split like `Broker`'s: a Get
(`pollReads`, `tabReads`) takes a copy, the second step applies the operation of
`Session` and writes the copy back (`Update`, which may be lost), and others come
between.  The client has one poll under way, the browser as many requests as
there are `Tabs`.  A request of the browser works with the clock reading of its Get
or the present one (`readings`): these handlers compare the clock with the expiry
and nothing else, so one reading from before the expiry stands for all of them,
and when the sign-in took place, which only the artifact states, is forgotten.  The
memory store sweeps and the broker restarts in the middle of requests.  The user
is a browser that signs in as anybody, types any code, approves or denies, or does
nothing.  The run has the login command and the SSH server: pam_exec reads statuses
as the SSH server does and prints like the login command, and the native module
does both like the SSH server.  The proofs leave none out.

`GraceAssumption` says that twice the HTTP timeout and the slowed poll interval
fit into the grace after expiry.  It holds of the defaults (32 of 300 seconds),
nothing enforces it, and without it a session approved in its last moment is
swept before the client asks again.

### Admission

A request is a path of addresses from its sender to the broker and a header the
sender wrote; `header` and `peer` are what reaches the broker after each proxy
has appended where it got the request from.  `trueSource` is the reference that
`resolveClientIP` is held against: the last address on the path that is not a
trusted proxy.  The two calls of Allow are two steps (`askAddress`, `askHint`),
since each takes its own mutex and requests run concurrently; a refusal by the
first ends the request.  The second asks and then creates the session (`create`),
which may fail at the random source or at the store with both tokens spent; such
requests are counted as `failed`.  The limiters are two instances of `RateLimiter`.
Assumed: senders are not themselves in the trusted networks, and proxies append
to the one header line the broker reads.

### Discovery and IdPLeg

`Discovery` is retryDiscovery with the code's own numbers in ticks of 500 ms:
attempts, sleeps that double until they are 5 seconds or more, a deadline that is
checked after a failed attempt only.  `up` is the IdP.  An attempt fails or
succeeds by whether the IdP was up when it began, within `AttemptTime`, or it hangs
(`Hang`): it is a request of an HTTP client without a timeout under a context
without a deadline, and only a signal ends it then.

`IdPLeg` starts when discovery has found the provider.  `leg` is what BeginLogin
puts into each session, `begun` the requests sent through browsers, `answers` what
the IdP has vouched for.  A callback (`CompleteLogin`) combines any session, state
or RelayState and answer; `StaleUpdate` is a handler that writes back an older
copy of a session, or the copy of one that had no login yet.  Protocol, a configured
SAML attribute, and whether the IdP enforces PKCE vary.  The IdP is external: it
answers requests the broker made or sends an answer to none (`Unsolicited`), and
signs what it says.  The SAML library compares the response's InResponseTo with
the one request id CompleteLogin hands it, empty or not.  A SAML NameID may be
empty (the code refuses an empty OIDC claim or SAML attribute, not an empty
NameID); such an identity then meets bindIdentity's comparison with the
login_hint.

## Runs

Passing runs, with the distinct states TLC finds (all complete):

| run | instance | checks |
|---|---|---|
| `overlap` | one session, two requests at once, the client and two browsers with draws for two logins and one sign-in, collisions counted to one; the clock stands still | `TypeOK`, `ReleaseJustified`, `ConsumedMeansReleased`, `PageOnlyToSignedInBrowser`, `DecisionOnDisplayedSession`, `ReleasesBounded`, `AttemptsBounded`, `TerminalIsFinal`, `ImplementsSingleUseLogin` (0.6 million) |
| `faults` | one session, two browsers, failing Updates, lost responses, restarts, `FairSpec` | `Provenance`, `SignInWithinLifetime`, `NoResurrection`, `EventuallyEvicted` (0.4 million) |
| `serial` | two sessions in two tabs of one browser, one request at a time, evictions and restarts, 2 ticks | `DecisionOnDisplayedSession`, `ImplementsSingleUseLogin` (0.5 million) |
| `limiter` | two keys, a burst of two, 12 ticks, forgotten after 4 | `LimiterTypeOK`, `WithinBudget`, `ImplementsTokenBucket` (51 thousand) |
| `detector` | three kinds with thresholds 2, 3 and none, five events, 5 ticks, windows of 2 | `DetectorTypeOK`, `ReportEarned`, `OneReportPerWindow`, `BurstReported` (1.0 million) |
| `redis` | two sessions, two workers, five handler runs, unbounded time | `RedisTypeOK`, `ReadableThroughGrace`, `GoneForGood`, `EventuallyGone` (81 thousand) |
| `login` | login command and SSH server, one user and a stranger, one browser request at a time beside the poll, interval of 5 ticks told as 3 and slowed to 4 and 6, lifetime of 8 | `LoginTypeOK`, `LoginMeansApproval`, `SlowDownsBounded`, `ArtifactNotWasted`, `EveryLoginEnds`, `ApprovalIsDelivered` (0.6 million) |
| `admission` | three senders, one trusted proxy, one relay, three forged headers, two hints, two requests at once, sessions that cannot be created, 2 ticks | `AdmissionTypeOK`, `SourceBudget`, `StartedByAllowed`, `RefusedSpendNothing` (0.2 million) |
| `idp` | the code's backoff and deadline, attempts of up to 2 s or without end; then two sessions, three logins, two answers, asked for or not | `IdPTypeOK`, `SlowIdPIsFound`, `AnswersOwnLogin`, `BootEndsUnlessHung` (0.2 million) |

Violations, each a disagreement between the repository's words and its code:

| run | property | what happens |
|---|---|---|
| `double_release` | `SingleUse` | two overlapping polls both release the artifact |
| `stale_artifact` | `ReleasedArtifactIsLive` | the artifact's lifetime counts from the sign-in; it can be over when the artifact is released |
| `abuse_uncounted` | `AbuseIsCounted` | the wrong code that uses up the attempts is answered as a denial and raises no event; a replayed poll, two requests further on, raises one that has no threshold and is never counted |

`double_release` is one effect of a cause that has others: Get, change and Update
are not atomic, and no handler learns that its copy was stale.  `overlap` says what
is left of the promises then.  Each effect costs a collision: a second artifact;
wrong codes that overlap and count as one; a decided session overwritten by an
undecided copy.  With a failing store (proved, not run) a poll whose Update is lost
is another.  A conditional Update (compare and swap) whose error the handlers
respect would leave no collisions.

Three more things the code does are not what its documents lead one to expect.
They are stated as exceptions of passing properties:

* An approval can be lost without any fault (`ApprovalIsDelivered`, `NoneStale`).
  handlePoll writes its copy back even when it answers "pending" (handlers.go:300);
  the client's own poll, read before handleApprove's Update (handlers.go:244) and
  written after it, erases the approval.  The user has been told "Sign-in approved.
  Return to the client to continue." (handlers.go:249); the client is answered
  "pending" until the session expires.
* Starting up can hang (`BootEndsUnlessHung`, `Hang`).  retryDiscovery "retries fn
  with backoff for up to 30s" (cmd/xdauth-broker/main.go:235), but looks at its
  deadline between attempts, and nothing limits an attempt.
* A SAML response to no request can be accepted (`AnswersOwnLogin`, `erased`).  A
  stale write empties the session's request id; CompleteLogin passes it on all the
  same (saml.go:142; oidc.go:187 refuses an empty state).  The README says that "the
  assertion's `InResponseTo` is checked against the broker's own `AuthnRequest` ID"
  (README.md:91).

**Bounds.**  `MaxTime` lets a session expire, and in `faults` be
evicted (twice its TTL plus one); `overlap` is about order, not time, and what it
checks is proved for every clock; TTL, interval and artifact lifetime are 1 or 2
ticks, which is enough to be before, at and after each deadline.  `LastStart`
lets sessions start at the beginning; later starts only shift the clock.
`MaxDraws` is two per sign-in, and three in `overlap`: two browsers begin a login
and one of them signs in.  That the other signs in too, from a copy it read
before, is beyond that run; the theorems of the same properties cover it.
`MaxCollisions` is how far collisions are counted, at least to one where a property
is about them; `uses` and `guesses` are counted as far as that many could take
them, and no further.  `maxApproveAttempts` is 1 or
2 instead of 5: the limit and the attempt past it are what matters.  Workers,
browsers, sessions, verifiers and the two accounts are symmetric; the liveness run
uses no symmetry.  The limiter's clock runs three idle times, so a key is forgotten and returns; five events are a burst
of twice the larger threshold less one, and span three windows of the smaller.
The detector's run may stop when its events are used up: nobody has to cause one;
the same goes for the runs of `redis`, `login` and `idp`.

`redis`: five handler runs are a create, and for one session up to four
overlapping or successive writers, two at a time.  `login`: the clock stops past
the grace, where every answer is the same, and `slowed` one past its bound; the
browser has one request under way beside the client's poll, which is enough for a
stale copy to be written from either side.  `admission`: with a burst of one, a
refill per tick and two ticks every source and hint is granted, refused, refilled
and forgotten.  `idp`: nothing is scaled down in discovery; three logins are two of
one session and one of another, in any order, and two answers can be crossed
between them.

**Fairness.**  `Broker!FairSpec` assumes that the clock advances, that the
sweeper's ticker fires, and that a handler that has begun ends (the Redis client
limits its calls, and the exchange with the IdP ends at the latest when the browser
hangs up).  Nobody has to open a link, approve or poll.  `RedisStore` assumes
that time passes, and of the workers nothing: the writer that hangs is the hard
case.  `Login` assumes that time passes, that the client's timers and its HTTP
timeout fire, and that a program which prints its prompt gets it printed; the
network may lose everything, and broker and user may stay silent.  Nothing is
assumed of the calls by which the SSH server and the native PAM module show the
prompt: they wait for the other end without a limit (xdauth-sshd main.go:124), so
`EveryLoginEnds` leaves a login that is in such a call alone.  Nor are the timers of
the native module trusted (`timersWork`): pam_module.go:42 and
docs/native-pam-status.md:22 report calls from inside it that hung for ever,
timeouts notwithstanding, for a reason not known.  docs/ssh-demo.md:13 reports the
like of the pam_exec helper behind one container network, from which the demo
moved away; there `Login` takes the HTTP client's timeout at its word.
`Discovery` assumes that sleeps end, and of an attempt only that it returns or
hangs.

**Mutants.**  An operator marked `\* mutant` stands next to the definition it
distorts and is used by nothing else: a dropped check, an off-by-one, a changed
order.  Replacing the definition by it makes the named property fail.

## Proofs

Every invariant and every safety property of a passing run is a theorem.  In each
component the same argument is made: an inductive invariant stronger than the
properties, one lemma for each action, and the properties as consequences.

Assumed are only the named assumptions on the constants, which TLC evaluates for
the instances: positive durations, limits and bounds that are numbers,
normalisers total on their sets, `None` distinct from what it stands in for, and
those that say something about a deployment, `IdleAssumption` (in `Admission`
part of `LimitersAssumption`), `GraceAssumption`, `SendersAssumption` and
`DiscoveryAssumption` (the first backoff is less than twice the limit), each
discussed with its module.  `WorkersAssumption` says that finitely many requests
are served at once.  All other sets may be infinite.

**Broker.**  `Overlap` and `Faults` take either value in every theorem: all of it
holds for overlapping requests, failing Updates, lost responses and restarts.
`TypeCorrect` (`Spec => []TypeOK`) has one lemma per handler.

None of the safety properties is inductive by itself: an artifact is released
from a copy that a handler took many steps ago, and what it rests on (a form, a
sign-in, a login) lies further back.  `Provenance` carries that along.  For each
stored session *and each copy in flight* it says: the start parameters are those
of `handleStart`; the IdP state was drawn for this session; the CSRF token is the
draw of one sign-in, and identity, time and secret hash are that sign-in's;
"approved" has a matching grant; "consumed" has a release.  For each browser and
request it says that the approval secret is the draw of a sign-in this browser
made.  The argument for its preservation:

1. history only grows (`NextGrows`), so a record once traced stays traced
   (`TracedGrows`), however old the copy;
2. each operation, by its lemma in `SessionProofs` (`BindCases`, `ApproveCases`,
   `PollCases`), returns a record that is again traced (`BindTraced`,
   `DecideTraced`, `PollTraced`, ...);
3. `Update` stores that record or nothing (`UpdateTraced`).

Overwriting with stale copies does no harm to `Provenance`, which is why these
properties survive the races that break `SingleUse`.  From it follow
`ReleaseIsJustified`, `SignInIsTimely`, `DecisionIsDisplayed`, `PageIsPrivate`,
`ConsumedWasReleased`; `GoneStaysGone` needs the types only.

**Broker, what collisions account for.**  `CollisionInv` compares what has left the
broker with what the stored session admits to, its Consumed mark and its
ApproveAttempts: the difference is at most what collisions have lost
(`Accounted`), and no copy is past its limit (`AllWithinLimit`).  Every handler,
whatever it does, moves its copy one step forward (`Advances`, `ServeEnds`) and
releases or compares at most once; either the store goes from that copy to its
successor, and the session admits to what happened, or the step collides and is
counted.  From it follow `ReleasesAreBounded` and `AttemptsAreBounded`; from
`ServeEnds` alone `TerminalStaysTerminal` and, action by action,
`RefinesSingleUseLogin`: the handlers implement `SingleUseLogin`, whose `Collide`
is the only step backwards.  The abstract specification bounds artifacts by
collisions; wrong codes are not part of it.

**RateLimiter.**  The inductive invariant adds to the types that the readings in
an entry are in order and not in the future.  It gives the one fact everything
rests on, `IdleIsFull`: an entry that is dropped was full, so a new one is worth
the same.  `AllowCases` and `TickCases` say what a step does to what a key could
spend (`available`), which is the refinement mapping; `BudgetIsKept` and
`LimiterRefines` follow step by step.

**Admission.**  `ResolvesTruly` is about operators alone: whatever the sender
writes into the header, and by whichever path of proxies, `resolveClientIP`
finds the last address on the path that is no trusted proxy.  `AdmissionInv` then
keeps the books: the lemmas of `RateLimiterProofs` for both limiters (by INSTANCE),
and for each source that its sessions and its requests past the first limiter do
not exceed the tokens granted to it (`Charged`); a hint's tokens equal its
sessions and the requests that failed to create one, because only a request past
every check takes one (`RefusedTakeNoToken`).  `SourceBudgetKept` joins the two:
sessions are paid for, and tokens are bounded.

**Detector.**  Counters forget, so no invariant about them can say what a report
rests on.  `DetectorInv` says instead that there is a division of each key's log
into windows (`Windowed`): stretches of events, the next opening after the one
before has ended, of each exactly the threshold's event reported, and the counter
that of the last one (`Counter`).  Readings may be out of order by `MaxLag`
(`Timed`).  `ReportsAreEarned` and `OnceEachWindow` read this off; for
`BurstsAreReported`, a burst of twice the threshold less one cannot be spread
over windows without one of them holding as many as the threshold.

**RedisStore.**  `LastsThroughGrace`: age plus remaining expiry reaches the end of
the grace, for the key *and* for the expiry a stalled writer has computed and not
yet sent; both sides age together.  `StoredIsReadable` follows.  `GoneIsForGood`
is by a second invariant that holds once the key is gone and unwatched: every
later writer finds the key absent.

**Discovery and IdPLeg.**  `BootInv` bounds the clock by what is left of sleep and
attempt, and says that an attempt which misses an IdP that came up in time ends
by the deadline (`MissedAttempt`), so another follows: `SlowIdPFound`.  `LegInv`
keeps the draws of all sessions, requests and answers apart, stale copies
included: `AnswerIsOwn`, with the one exception its statement names.

**Login.**  `LoginInv` has a part for each concern: which message may be under way
in which phase (`Exchange`); that all copies of the session, stored or read by a
handler under way (`held`), all approvals and the answer are of one user
(`OneUser`); that the client's interval is the one its slow_down answers make
(`Paced`, `Stage`); that a poll reaches the broker no sooner than that interval
after the one recorded in any copy (`Spaced`, `Polled`); and that no copy is used
up but by the client it lets in or with a lost message (`SpentWell`).  Writing back
a stale copy replaces one member of `held` by the successor of another, so each
part is about all of them.  `LoginNeedsApproval` follows from `OneUser`,
`ArtifactIsNotWasted` from `SpentWell`.  For `SlowDownsAreBounded`, `Stages` shows by
arithmetic that an interval cut to whole seconds and grown twice by half is at
least the interval enforced, for every interval and second; `NoThirdSlowDown` puts
this together with `Spaced` and `Polled`, and with `GraceAssumption` where the clock
has stopped.

**Only model-checked.**  `EventuallyEvicted`, `EventuallyGone`, `EveryLoginEnds`,
`ApprovalIsDelivered` and `BootEndsUnlessHung`: liveness under fairness is out of the
prover's reach.  The three violations are TLC's counterexamples.

## Not modelled

* Rendering, logging, HTTP headers and cookie attributes: no state.
* Flags, environment variables, token and CIDR lists: parsed once before anything
  else happens; the models take the result as constants.  CIDR membership is a set.
* Signature and token verification, which the OIDC and SAML libraries do; the SAML
  signing certificate and metadata, which the default path does not use.
* The requester context (check 3), a display.
* The webhook's POST: fired in a goroutine of its own, its outcome ignored.
* The SSH server's accept loop, host key and channel plumbing: connections share
  nothing but the configuration, so one login stands for each.
* The detector's map of counters grows without limit (detect.go:79); there is no
  promise about it to check.
* Failing random sources, except in handleStart.
* Clocks of several replicas that differ: all replicas read one clock.

## Plan

In order, each with its module, MC module and runs:

1. `Session`, `Broker`, `SingleUseLogin`; types, `Provenance` and what follows
   from it proved. *Done.*
2. `RateLimiter` against `TokenBucket`, checked and proved; `Detector`, checked.
   *Done.*
3. `RedisStore`. *Done.*
4. `Client`, composed with the broker in `Login`, with liveness. *Done.*
5. `Admission`; `Discovery` and `IdPLeg`. *Done.*
6. Proofs of the safety properties of the runs, and of both refinements.
   *Done.*
