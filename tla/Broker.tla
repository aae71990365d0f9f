------------------------------- MODULE Broker -------------------------------
(***************************************************************************)
(* The broker's HTTP handlers (internal/broker/handlers.go) over the       *)
(* session store (internal/store/store.go), as concurrent requests.        *)
(*                                                                         *)
(* Every handler but handleStart reads the session with store.Get, which   *)
(* returns a private copy, works on the copy, and writes the whole copy    *)
(* back with store.Update.  Nothing is locked in between, so a handler is  *)
(* two steps here: Begin... takes the copy, Finish... applies the pure     *)
(* operation of Session.tla and writes the copy back.  The other inputs of *)
(* a request (form fields, JSON body, what the IdP answers) are chosen in  *)
(* the Finish step, the first one that looks at them; the cookies are the  *)
(* ones the browser held when it sent the request.                         *)
(*                                                                         *)
(* The clock is read between the two steps, so a handler works with any    *)
(* time from its store.Get up to the current one.                          *)
(***************************************************************************)
EXTENDS Session, Sequences

CONSTANTS
    Sessions,    \* session ids
    Browsers,    \* cookie jars
    Workers,     \* request-serving goroutines, over all replicas
    Overlap,     \* may two requests for one session be in flight together?
    Faults,      \* may store calls fail and responses get lost?
    MaxTime,     \* bound: the last tick of the clock
    LastStart,   \* bound: no session is started later
    MaxDraws,    \* bound: how many random tokens are drawn
    MaxCollisions \* bound: up to which collisions of a session are counted

ASSUME EnvironmentAssumption ==
    /\ None \notin Sessions
    /\ None \notin Browsers
    /\ None \notin SessionRec
    /\ Overlap \in BOOLEAN
    /\ Faults \in BOOLEAN
    /\ MaxTime \in Nat
    /\ LastStart \in Nat
    /\ MaxDraws \in Nat
    /\ MaxCollisions \in Nat

VARIABLES
    store,    \* session id -> stored session, None when absent
    now,      \* the clock
    reqs,     \* worker -> the request it serves, None when idle
    browser,  \* cookie jar -> session cookie and approval secret
    out,      \* what the latest step let out (SecurityEvent, page, artifact)
    \* History, read by no guard but the freshness of ids and tokens:
    started,  \* session id -> the session as created
    draws,    \* the n-th random token: who drew it, for what
    grants,   \* session id -> the approvals the broker accepted
    guesses,  \* session id -> wrong codes the broker has compared
    uses,     \* session id -> how often its artifact was released
    collisions \* session id -> Updates that were lost, or that overwrote what
              \* another handler had written since the Get

historyVars == <<started, draws, grants, guesses, uses, collisions>>
vars == <<store, now, reqs, browser, out, started, draws, grants, guesses, uses,
          collisions>>

-----------------------------------------------------------------------------
(* Types.                                                                  *)

BrowserRequest ==
    [ op : {"verify", "callback", "approve"},
      sess : Sessions,
      copy : SessionRec,     \* what store.Get returned
      at : Nat,              \* and when
      browser : Browsers,
      secret : Nat ]         \* the approval cookie it sent

PollRequest ==
    [ op : {"poll"}, sess : Sessions, copy : SessionRec, at : Nat,
      browser : {None}, secret : {NoToken} ]

Request == BrowserRequest \cup PollRequest

\* A token is drawn by BeginLogin (the IdP state, kind "login") or by a
\* successful bindIdentity (CSRF token and approval secret, kind "bind"; it
\* records the identity bound and the login it answered).
Draw ==
    [ kind : {"login", "bind"},
      sess : Sessions,
      browser : Browsers,
      name : Names \cup {None},
      login : Nat ]

Grant == [ form : Nat, browser : Browsers, code : TypedCodes ]

Events == {"wrong_code", "repeated_start", "consumed_replay", "identity_mismatch"}
\* The detector counts the kinds that thresholdFor gives a threshold.
counted(event) == event # "consumed_replay"
Decision == [ sess : Sessions, browser : Browsers, form : Nat, wrong : BOOLEAN ]
Shown == [ browser : Browsers, form : Nat, echo : BOOLEAN ]
Release ==
    [ sess : Sessions,
      verifier : Verifiers \cup {None},
      identity : Names \cup {None},
      approvedAt : Nat \cup {Never},
      expiresAt : Int,
      at : Nat ]

Output ==
    [ event : Events \cup {None},       \* detector.Observe
      decision : Decision \cup {None},  \* an approve() that compared or denied
      shown : Shown \cup {None},        \* approval page, with its CSRF token;
                                        \* echo: the request carried that token
      artifact : Release \cup {None} ]  \* artifact in a poll response

Silent == [event |-> None, decision |-> None, shown |-> None, artifact |-> None]

\* Bounds: counted until collisions no longer are.
MaxUses == MaxCollisions + 1
MaxGuesses == maxApproveAttempts * (MaxCollisions + 1)
Count(n, max) == IF n < max THEN n + 1 ELSE n

TypeOK ==
    /\ store \in [Sessions -> SessionRec \cup {None}]
    /\ now \in Nat
    /\ reqs \in [Workers -> Request \cup {None}]
    /\ browser \in [Browsers -> [cookie : Sessions \cup {None}, secret : Nat]]
    /\ out \in Output
    /\ started \in [Sessions -> SessionRec \cup {None}]
    /\ draws \in Seq(Draw)
    /\ grants \in [Sessions -> SUBSET Grant]
    /\ guesses \in [Sessions -> 0..MaxGuesses]
    /\ uses \in [Sessions -> 0..MaxUses]
    /\ collisions \in [Sessions -> 0..MaxCollisions]

-----------------------------------------------------------------------------
(* The store: Memory.Create, Get, Update and sweep.                        *)

\* A failing Update may have been lost, or applied and not acknowledged.
UpdateOutcomes == IF Faults THEN {"ok", "lost", "unacknowledged"} ELSE {"ok"}

upserts(s, rec, outcome) ==                                    \* mutant
    store' = IF outcome = "lost" THEN store ELSE [store EXCEPT ![s] = rec]
Update(s, rec, outcome) ==
    store' = IF store[s] = None \/ outcome = "lost"
             THEN store
             ELSE [store EXCEPT ![s] = rec]

\* The Update that ends a handler.  It collides unless the store goes from the
\* session the handler read to the one it wrote.
Save(w, rec, outcome) ==
    LET s == reqs[w].sess
        collided == store[s] # reqs[w].copy \/ store'[s] # rec
    IN  /\ Update(s, rec, outcome)
        /\ collisions' = [collisions EXCEPT ![s] =
                            IF collided THEN Count(@, MaxCollisions) ELSE @]

UpdateOK(s, outcome) == store[s] # None /\ outcome = "ok"

\* The sweeper keeps a session for twice its TTL.
keepsApproved(s) ==                                            \* mutant
    /\ store[s] # None
    /\ store[s].state # "approved"
    /\ now > ExpiresAt(store[s]) + SessionTTL
evictable(s) == store[s] # None /\ now > ExpiresAt(store[s]) + SessionTTL

Sweep ==
    /\ \E s \in Sessions : evictable(s)
    /\ store' = [s \in Sessions |-> IF evictable(s) THEN None ELSE store[s]]
    /\ out' = Silent
    /\ UNCHANGED <<now, reqs, browser>>
    /\ UNCHANGED historyVars

-----------------------------------------------------------------------------
(* POST /auth/start.  The gate (client authentication, request validation, *)
(* network allow-list, rate limits) is an arbitrary yes or no.  Ids are    *)
(* random, so a session is always created under an unused one.             *)

mayStart(s) == started[s] = None /\ now <= LastStart

handleStart(s, hint, verifier, code) ==
    LET sess == newSession(hint, S256(verifier), code, now)
    IN  /\ mayStart(s)
        /\ store' = [store EXCEPT ![s] = sess]
        /\ started' = [started EXCEPT ![s] = sess]
        /\ out' = [Silent EXCEPT !.event = "repeated_start"]
        /\ UNCHANGED <<now, reqs, browser, draws, grants, guesses, uses, collisions>>

\* Refused after detector.Observe: network, rate limit, or a failing Create.
startRefused ==
    /\ \E s \in Sessions : mayStart(s)
    /\ out' = [Silent EXCEPT !.event = "repeated_start"]
    /\ UNCHANGED <<store, now, reqs, browser>>
    /\ UNCHANGED historyVars

-----------------------------------------------------------------------------
(* Requests.                                                               *)

InFlight(s) == {w \in Workers : reqs[w] # None /\ reqs[w].sess = s}

\* store.Get found the session; the cookies travel with the request.
Begin(w, op, s, b, secret) ==
    /\ reqs[w] = None
    /\ Overlap \/ InFlight(s) = {}
    /\ store[s] # None
    /\ reqs' = [reqs EXCEPT ![w] =
                  [ op |-> op, sess |-> s, copy |-> store[s], at |-> now,
                    browser |-> b, secret |-> secret ]]
    /\ out' = Silent
    /\ UNCHANGED <<store, now, browser>>
    /\ UNCHANGED historyVars

\* The session id is in the link; the IdP callback and the approval form
\* take it from the cookie (readSessionCookie).
BeginVerify(w, b, s) == Begin(w, "verify", s, b, browser[b].secret)
BeginCallback(w, b) ==
    /\ browser[b].cookie # None
    /\ Begin(w, "callback", browser[b].cookie, b, NoToken)
BeginApprove(w, b) ==
    /\ browser[b].cookie # None
    /\ Begin(w, "approve", browser[b].cookie, b, browser[b].secret)
BeginPoll(w, s) == Begin(w, "poll", s, None, NoToken)

\* store.Get failed: every handler answers at once and changes nothing.
notFound ==
    /\ Faults \/ \E s \in Sessions : store[s] = None
    /\ out' = Silent
    /\ UNCHANGED <<store, now, reqs, browser>>
    /\ UNCHANGED historyVars

Serving(w, op) == reqs[w] # None /\ reqs[w].op = op

Reply(w, o) ==
    /\ reqs' = [reqs EXCEPT ![w] = None]
    /\ out' = o
    /\ UNCHANGED <<now, started>>

\* The response sets cookies, if it reaches the browser.
SetCookies(b, jar) ==
    \/ browser' = [browser EXCEPT ![b] = jar]
    \/ Faults /\ UNCHANGED browser

(* handleVerify: the user opens the verification link.                     *)

anySecret(secret, sess) == sess.approvalBindingHash # None     \* mutant
approvalBindingMatches(secret, sess) ==
    /\ secret # NoToken
    /\ sess.approvalBindingHash # None
    /\ hashBinding(secret) = sess.approvalBindingHash

\* renderResult and nothing else.
renderResult(w) ==
    /\ Reply(w, Silent)
    /\ UNCHANGED <<store, browser, draws, collisions>>

\* The lazy expiry is saved before the "expired" page is rendered.
renderExpired(w, sess) ==
    /\ sess.state = "expired"
    /\ \E outcome \in UpdateOutcomes : Save(w, sess, outcome)
    /\ Reply(w, Silent)
    /\ UNCHANGED <<browser, draws>>

\* The approval page again, for the browser that signed in only.
resumeApproval(w, sess) ==
    LET r == reqs[w]
    IN  /\ sess.state = "awaiting_approval"
        /\ approvalBindingMatches(r.secret, sess)
        /\ SetCookies(r.browser, [browser[r.browser] EXCEPT !.cookie = r.sess])
        /\ Reply(w, [Silent EXCEPT !.shown =
                       [browser |-> r.browser, form |-> sess.csrfToken,
                        echo |-> FALSE]])
        /\ UNCHANGED <<store, draws, collisions>>

\* The leg's state, nonce and PKCE verifier, or the SAML request id, are one
\* draw n: CompleteLogin accepts an answer to all of them or to none.
BeginLogin(sess, n) == [sess EXCEPT !.idpState = n]

\* The redirect is sent once the session that carries the draw is saved.
beginIdPLogin(w, sess) ==
    LET r == reqs[w]
        n == Len(draws) + 1
    IN  /\ sess.state = "pending"
        /\ Len(draws) < MaxDraws
        /\ draws' = Append(draws, [kind |-> "login", sess |-> r.sess,
                                   browser |-> r.browser, name |-> None,
                                   login |-> NoToken])
        /\ \E outcome \in UpdateOutcomes :
             /\ Save(w, BeginLogin(sess, n), outcome)
             /\ IF UpdateOK(r.sess, outcome)
                THEN SetCookies(r.browser,
                                [browser[r.browser] EXCEPT !.cookie = r.sess])
                ELSE UNCHANGED browser
        /\ Reply(w, Silent)

\* A page without effect: not the browser that signed in, already decided,
\* or BeginLogin failed.
verifyRefused(w, sess) ==
    /\ \/ /\ sess.state = "awaiting_approval"
          /\ ~approvalBindingMatches(reqs[w].secret, sess)
       \/ sess.state \in {"approved", "denied", "pending"}
    /\ renderResult(w)

handleVerify(w) ==
    /\ Serving(w, "verify")
    /\ \E t \in reqs[w].at..now :
         LET sess == expireIfNeeded(reqs[w].copy, t)
         IN  \/ renderExpired(w, sess)
             \/ resumeApproval(w, sess)
             \/ beginIdPLogin(w, sess)
             \/ verifyRefused(w, sess)
    /\ UNCHANGED <<grants, guesses, uses>>

(* handleIdPResponse: the identity provider sends the browser back.        *)

\* What the exchange with the IdP may come to: an identity it vouches for, or
\* None when it, or a check on the token it issued, refuses.
Exchange == Names \cup {None}

\* The answer must be for the login the session began.
CompleteLogin(sess, login, name) ==
    /\ login # NoToken
    /\ login = sess.idpState
    /\ name # None

bindLogin(w, login, name, t) ==
    LET r == reqs[w]
        n == Len(draws) + 1
        res == bindIdentity(r.copy, name, t, n)
    IN  /\ CompleteLogin(r.copy, login, name)
        /\ Len(draws) < MaxDraws
        /\ \E outcome \in UpdateOutcomes : Save(w, res.sess, outcome)
        /\ \/ /\ res.err = "nil"
              /\ draws' = Append(draws, [kind |-> "bind", sess |-> r.sess,
                                         browser |-> r.browser, name |-> name,
                                         login |-> login])
              /\ SetCookies(r.browser, [browser[r.browser] EXCEPT !.secret = n])
              /\ Reply(w, [Silent EXCEPT !.shown =
                             [browser |-> r.browser, form |-> n, echo |-> FALSE]])
           \/ /\ res.err = "ErrIdentityMismatch"
              /\ Reply(w, [Silent EXCEPT !.event = "identity_mismatch"])
              /\ UNCHANGED <<browser, draws>>

handleIdPResponse(w) ==
    /\ Serving(w, "callback")
    /\ \E t \in reqs[w].at..now :
         LET sess == expireIfNeeded(reqs[w].copy, t)
         IN  \/ renderExpired(w, sess)
             \/ sess.state \notin {"pending", "expired"} /\ renderResult(w)
             \/ /\ sess.state = "pending"
                /\ \E login \in 0..Len(draws), name \in Exchange :
                     \/ bindLogin(w, login, name, t)
                     \/ ~CompleteLogin(sess, login, name) /\ renderResult(w)
    /\ UNCHANGED <<grants, guesses, uses>>

(* handleApprove: the approval form is submitted.                          *)

constantTimeStringEqual(a, b) == a # NoToken /\ b # NoToken /\ a = b

\* handleApprove reports a wrong code, and shows the page again, only in its
\* last error case, after the ones for a denied session, an expired one and a
\* foreign browser.
wrongCodeObserved(res) ==
    /\ res.err \notin {"nil", "ErrExpired", "ErrApprovalNotBound"}
    /\ res.sess.state # "denied"

decide(w, form, code, decisionApprove, t) ==
    LET r == reqs[w]
        s == r.sess
        res == approve(r.copy, code, decisionApprove, t, r.secret)
        wrong == res.err = "incorrect code"
        granted == res.err = "nil" /\ res.sess.state = "approved"
        decision == [sess |-> s, browser |-> r.browser, form |-> form,
                     wrong |-> wrong]
    IN  /\ \E outcome \in UpdateOutcomes : Save(w, res.sess, outcome)
        /\ Reply(w, [Silent EXCEPT
                       !.event = IF wrongCodeObserved(res)
                                 THEN "wrong_code" ELSE None,
                       !.decision = IF res.err \in {"nil", "incorrect code"}
                                    THEN decision ELSE None,
                       !.shown = IF wrongCodeObserved(res)
                                 THEN [browser |-> r.browser, echo |-> TRUE,
                                       form |-> res.sess.csrfToken]
                                 ELSE None])
        /\ guesses' = [guesses EXCEPT ![s] =
                         IF wrong THEN Count(@, MaxGuesses) ELSE @]
        /\ grants' = [grants EXCEPT ![s] =
                        @ \cup IF granted
                               THEN {[form |-> form, browser |-> r.browser,
                                      code |-> code]}
                               ELSE {}]
        /\ UNCHANGED <<browser, draws, uses>>

\* The token in the submitted form against the session's.
anyForm(sess, form) == form # NoToken                          \* mutant
csrfOK(sess, form) == constantTimeStringEqual(form, sess.csrfToken)

handleApprove(w) ==
    /\ Serving(w, "approve")
    /\ \E form \in 0..Len(draws) :
         \/ /\ ~csrfOK(reqs[w].copy, form)
            /\ renderResult(w)
            /\ UNCHANGED <<grants, guesses, uses>>
         \/ /\ csrfOK(reqs[w].copy, form)
            /\ \E code \in TypedCodes, decisionApprove \in BOOLEAN,
                  t \in reqs[w].at..now :
                 decide(w, form, code, decisionApprove, t)

(* handlePoll: the client asks for the outcome.                            *)

handlePoll(w) ==
    /\ Serving(w, "poll")
    /\ \E verifier \in Verifiers \cup {None}, t \in reqs[w].at..now :
         LET r == reqs[w]
             s == r.sess
             res == poll(r.copy, verifier, t)
             a == Artifact(res.sess)
             release == [sess |-> s, verifier |-> verifier,
                         identity |-> a.identity,
                         approvedAt |-> a.approvedAt,
                         expiresAt |-> a.expiresAt, at |-> t]
         IN  /\ \E outcome \in UpdateOutcomes : Save(w, res.sess, outcome)
             /\ Reply(w, [Silent EXCEPT
                            !.event = IF r.copy.consumed /\ res.status = "expired"
                                      THEN "consumed_replay" ELSE None,
                            !.artifact = IF res.status = "approved"
                                         THEN release ELSE None])
             /\ uses' = [uses EXCEPT ![s] =
                           IF res.status = "approved"
                           THEN Count(@, MaxUses) ELSE @]
    /\ UNCHANGED <<browser, draws, grants, guesses>>

-----------------------------------------------------------------------------
Tick ==
    /\ now < MaxTime
    /\ now' = now + 1
    /\ out' = Silent
    /\ UNCHANGED <<store, reqs, browser>>
    /\ UNCHANGED historyVars

\* The broker restarts: requests in flight are gone, and with the in-memory
\* store every session; Redis keeps them.
Crash ==
    /\ reqs' = [w \in Workers |-> None]
    /\ store' \in {store, [s \in Sessions |-> None]}
    /\ out' = Silent
    /\ UNCHANGED <<now, browser>>
    /\ UNCHANGED historyVars

Init ==
    /\ store = [s \in Sessions |-> None]
    /\ now = 0
    /\ reqs = [w \in Workers |-> None]
    /\ browser = [b \in Browsers |-> [cookie |-> None, secret |-> NoToken]]
    /\ out = Silent
    /\ started = [s \in Sessions |-> None]
    /\ draws = <<>>
    /\ grants = [s \in Sessions |-> {}]
    /\ guesses = [s \in Sessions |-> 0]
    /\ uses = [s \in Sessions |-> 0]
    /\ collisions = [s \in Sessions |-> 0]

Start ==
    \E s \in Sessions, hint \in Names, verifier \in Verifiers, code \in UserCodes :
        handleStart(s, hint, verifier, code)

Arrive(w) ==
    \/ \E b \in Browsers :
         \/ \E s \in Sessions : BeginVerify(w, b, s)
         \/ BeginCallback(w, b)
         \/ BeginApprove(w, b)
    \/ \E s \in Sessions : BeginPoll(w, s)

Serve(w) ==
    \/ handleVerify(w)
    \/ handleIdPResponse(w)
    \/ handleApprove(w)
    \/ handlePoll(w)

Next ==
    \/ Start
    \/ startRefused
    \/ notFound
    \/ \E w \in Workers : Arrive(w) \/ Serve(w)
    \/ Sweep
    \/ Tick
    \/ Crash

Spec == Init /\ [][Next]_vars

\* Time passes, the sweeper's ticker fires, and a handler that has begun runs
\* to its end.  Nobody has to send a request.
Fairness ==
    /\ WF_vars(Tick)
    /\ WF_vars(Sweep)
    /\ \A w \in Workers : WF_vars(Serve(w))

FairSpec == Spec /\ Fairness

-----------------------------------------------------------------------------
(* Properties that hold whatever overlaps and whatever fails.              *)

\* The four checks, end to end.  Every artifact a poll hands out was earned:
\* the poller proved the PKCE verifier of the client that started the session
\* (check 1), an approval of that session carried its user code (check 2) and
\* came, through the session's own form, from the browser that had signed in
\* (browser binding), and that sign-in answered a login begun for this very
\* session and returned the hinted identity (check 4), the one released.
ReleaseJustified ==
    out.artifact # None =>
        LET a == out.artifact
            s == a.sess
        IN  /\ a.verifier # None
            /\ S256(a.verifier) = started[s].challenge
            /\ \E g \in grants[s] :
                 /\ codesEqual(g.code, started[s].userCode)
                 /\ g.form \in 1..Len(draws)
                 /\ LET d == draws[g.form]
                    IN  /\ d.kind = "bind"
                        /\ d.sess = s
                        /\ d.browser = g.browser
                        /\ d.name = a.identity
                        /\ normalize[d.name] = normalize[started[s].hint]
                        /\ d.login \in 1..Len(draws)
                        /\ draws[d.login].kind = "login"
                        /\ draws[d.login].sess = s

\* The sign-in behind an artifact happened while the session was alive, even
\* though handleIdPResponse goes on with a clock reading taken before the
\* exchange with the IdP, and poll releases long after the session's TTL.
SignInWithinLifetime ==
    out.artifact # None =>
        LET s == started[out.artifact.sess]
        IN  out.artifact.approvedAt \in s.createdAt..ExpiresAt(s)

\* A click on Approve or Deny acts on the session whose page was clicked, and
\* only in the browser that signed in for it, although one cookie pair serves
\* all of a browser's tabs and a second link overwrites it (handleApprove's
\* csrf_token check and approve's binding check).
DecisionOnDisplayedSession ==
    out.decision # None =>
        LET d == out.decision
        IN  /\ d.form \in 1..Len(draws)
            /\ draws[d.form].kind = "bind"
            /\ draws[d.form].sess = d.sess
            /\ draws[d.form].browser = d.browser

\* The approval page tells its CSRF token to no browser but the one that
\* signed in, also when another browser opens the same link (handleVerify) or
\* submits the form (handleApprove; the page may come back to a browser that
\* sent the token itself).
PageOnlyToSignedInBrowser ==
    out.shown # None =>
        LET d == draws[out.shown.form]
        IN  /\ out.shown.form \in 1..Len(draws)
            /\ d.kind = "bind"
            /\ out.shown.echo \/ d.browser = out.shown.browser

\* Wherever a session is marked consumed, in the store or in the copy of a
\* running handler, its artifact has left the broker: no failed or overtaken
\* poll burns a session without releasing it.
ConsumedMeansReleased ==
    /\ \A s \in Sessions :
         store[s] # None => (store[s].consumed => uses[s] > 0)
    /\ \A w \in Workers :
         reqs[w] # None => (reqs[w].copy.consumed => uses[reqs[w].sess] > 0)

\* A session that was evicted or lost never comes back, although handlers
\* that read it before still write their copies (Memory.Update).
NoResurrection ==
    [][\A s \in Sessions :
         started[s] # None /\ store[s] = None => store'[s] = None]_vars

\* Where the facts of a session come from, for every stored session and every
\* copy a handler works on: what handleStart set never changes; the IdP state
\* was drawn for this session; a CSRF token is the draw of one sign-in, which
\* put in place, together, the identity it vouched for (the hinted one), its
\* time and the hash of that browser's secret; "approved" comes from an
\* accepted approval of that sign-in.
SameStart(c, d) ==
    /\ c.hint = d.hint
    /\ c.challenge = d.challenge
    /\ c.userCode = d.userCode
    /\ c.createdAt = d.createdAt

IsLogin(s, n) ==
    /\ n \in 1..Len(draws)
    /\ draws[n].kind = "login"
    /\ draws[n].sess = s

IsBind(s, n) ==
    /\ n \in 1..Len(draws)
    /\ draws[n].kind = "bind"
    /\ draws[n].sess = s
    /\ IsLogin(s, draws[n].login)

SignedIn(s, c) ==
    /\ IsBind(s, c.csrfToken)
    /\ draws[c.csrfToken].name = c.identity
    /\ c.identity \in Names
    /\ identityMatches(c, c.identity)
    /\ c.approvalBindingHash = hashBinding(c.csrfToken)
    /\ c.identityAt \in c.createdAt..ExpiresAt(c)

Granted(s, c) ==
    \E g \in grants[s] :
        /\ g.form = c.csrfToken
        /\ g.browser = draws[c.csrfToken].browser
        /\ codesEqual(g.code, c.userCode)

Traced(s, c) ==
    /\ started[s] # None
    /\ SameStart(c, started[s])
    /\ c.idpState # NoToken => IsLogin(s, c.idpState)
    /\ c.csrfToken = NoToken => c.approvalBindingHash = None
    /\ c.csrfToken # NoToken => SignedIn(s, c)
    /\ c.state = "pending" => c.csrfToken = NoToken
    /\ c.state \in {"awaiting_approval", "approved"} => c.csrfToken # NoToken
    /\ c.state = "approved" => Granted(s, c)
    /\ c.consumed => c.state = "approved" /\ uses[s] > 0

\* A browser's approval secret is the draw of a sign-in it made itself.
OwnSecret(b, n) ==
    n # NoToken => /\ n \in 1..Len(draws)
                   /\ draws[n].kind = "bind"
                   /\ draws[n].browser = b

StoredTraced == \A s \in Sessions : store[s] # None => Traced(s, store[s])

StartedBefore ==
    \A s \in Sessions : started[s] # None => started[s].createdAt <= now

ServedTraced ==
    \A w \in Workers :
        reqs[w] # None =>
            /\ Traced(reqs[w].sess, reqs[w].copy)
            /\ reqs[w].copy.createdAt <= reqs[w].at
            /\ reqs[w].at <= now
            /\ OwnSecret(reqs[w].browser, reqs[w].secret)

JarsOwn == \A b \in Browsers : OwnSecret(b, browser[b].secret)

Provenance == StoredTraced /\ StartedBefore /\ ServedTraced /\ JarsOwn

\* Every session that was started leaves the store, whatever late handlers
\* write meanwhile (Memory.sweep).
EventuallyEvicted ==
    \A s \in Sessions : (started[s] # None) ~> (store[s] = None)

-----------------------------------------------------------------------------
(* Get, change, update is not atomic, and no handler learns that its copy  *)
(* was stale.  What the checks on a session's own fields are worth then.   *)

\* An approved session releases its artifact once, and once more for a
\* collision at most: for every Update that was lost, or that put back a
\* session another handler had changed meanwhile (poll, Consumed).
ReleasesBounded == \A s \in Sessions : uses[s] <= 1 + collisions[s]

\* The broker compares maxApproveAttempts wrong codes per session, and as many
\* again for a collision at most (approve, tooManyAttempts).
AttemptsBounded ==
    \A s \in Sessions : guesses[s] <= maxApproveAttempts * (1 + collisions[s])

\* A session leaves approved, denied or expired only in a step in which a
\* handler writes over what it did not see (isTerminal, Memory.Update).
Collides(s) == collisions'[s] # collisions[s] \/ collisions[s] = MaxCollisions
TerminalIsFinal ==
    [][\A s \in Sessions :
         store[s] # None /\ store'[s] # None /\ store[s].state \in Terminal =>
            store'[s].state = store[s].state \/ Collides(s)]_vars

Phase(s) ==
    IF started[s] = None THEN "new"
    ELSE IF store[s] = None THEN "gone"
    ELSE IF store[s].consumed THEN "consumed"
    ELSE store[s].state

Login == INSTANCE SingleUseLogin WITH phase <- [s \in Sessions |-> Phase(s)]

\* The handlers implement the abstract single-use login: forward through its
\* phases, one release, and whatever else a session does is a collision's.
ImplementsSingleUseLogin == Login!ASpec

-----------------------------------------------------------------------------
(* What the repository says and the code does not do.                      *)

\* An approved session releases its artifact exactly once (poll).
SingleUse == \A s \in Sessions : uses[s] <= 1

\* An artifact is handed out before it has expired (Artifact.ExpiresAt).
ReleasedArtifactIsLive ==
    out.artifact # None => out.artifact.at <= out.artifact.expiresAt

\* Wrong codes, identity mismatches, repeated starts and replayed polls of a
\* consumed session are counted per key (handleApprove, thresholdFor).
AbuseIsCounted ==
    /\ out.decision # None /\ out.decision.wrong => out.event = "wrong_code"
    /\ out.event # None => counted(out.event)
=============================================================================
