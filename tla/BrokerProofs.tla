---------------------------- MODULE BrokerProofs ----------------------------
(***************************************************************************)
(* Theorems about Broker.tla, for any number of sessions, browsers and     *)
(* workers: types and the provenance of what a session holds, then what    *)
(* the broker lets out, and last what overlapping requests and lost        *)
(* Updates may do to single use, bounded attempts and final states.        *)
(***************************************************************************)
EXTENDS Broker, SessionProofs

-----------------------------------------------------------------------------
(* Type correctness.                                                       *)

\* A step that lets nothing out.
LEMMA SilentType == Silent \in Output
BY DEF Silent, Output

\* How far the history counts.
LEMMA MaximaType ==
    /\ MaxUses \in Nat /\ MaxGuesses \in Nat
    /\ MaxUses = MaxCollisions + 1
    /\ MaxGuesses = maxApproveAttempts * MaxCollisions + maxApproveAttempts
BY AttemptsAssumption, EnvironmentAssumption DEF MaxUses, MaxGuesses

\* Reply (the end of every handler) keeps the types of what it changes.
LEMMA ReplyType ==
    ASSUME TypeOK, NEW w \in Workers, NEW o \in Output, Reply(w, o)
    PROVE  /\ reqs' \in [Workers -> Request \cup {None}]
           /\ out' \in Output
           /\ now' \in Nat
           /\ started' \in [Sessions -> SessionRec \cup {None}]
BY DEF TypeOK, Reply

SavedTypeOK ==
    /\ store \in [Sessions -> SessionRec \cup {None}]
    /\ collisions \in [Sessions -> 0..MaxCollisions]

\* Save keeps the types of what it changes.
LEMMA SaveType ==
    ASSUME TypeOK, NEW w \in Workers, reqs[w].sess \in Sessions,
           NEW rec \in SessionRec, NEW outcome, Save(w, rec, outcome)
    PROVE  SavedTypeOK'
<1>1. store' \in [Sessions -> SessionRec \cup {None}]
    BY DEF TypeOK, Save, Update
<1>2. collisions' \in [Sessions -> 0..MaxCollisions]
    BY EnvironmentAssumption DEF TypeOK, Save, Count
<1>3. QED BY <1>1, <1>2 DEF SavedTypeOK

\* SetCookies keeps the type of the cookie jars.
LEMMA CookieType ==
    ASSUME TypeOK, NEW b \in Browsers, NEW jar,
           jar \in [cookie : Sessions \cup {None}, secret : Nat],
           SetCookies(b, jar)
    PROVE  browser' \in [Browsers -> [cookie : Sessions \cup {None}, secret : Nat]]
BY DEF TypeOK, SetCookies

\* A request being served, and the clock readings its handler may take.
LEMMA ServingType ==
    ASSUME TypeOK, NEW w \in Workers, NEW op, Serving(w, op)
    PROVE  /\ reqs[w] \in Request
           /\ reqs[w].sess \in Sessions
           /\ reqs[w].copy \in SessionRec
           /\ reqs[w].at \in Nat
           /\ reqs[w].secret \in Nat
           /\ op # "poll" => reqs[w].browser \in Browsers
           /\ op = "poll" => reqs[w].browser = None
           /\ \A t \in reqs[w].at..now : t \in Nat
<1>1. reqs[w] \in Request
    BY DEF TypeOK, Serving
<1>2. reqs[w].op = op
    BY DEF Serving
<1>3. now \in Nat
    BY DEF TypeOK
<1>4. QED
    BY <1>1, <1>2, <1>3 DEF Request, BrowserRequest, PollRequest, NoToken

\* A request that begins carries a well-typed copy.
LEMMA BeginTypeOK ==
    ASSUME TypeOK, NEW w \in Workers, NEW op, NEW s \in Sessions, NEW b,
           NEW secret, Begin(w, op, s, b, secret),
           \/ op \in {"verify", "callback", "approve"} /\ b \in Browsers /\ secret \in Nat
           \/ op = "poll" /\ b = None /\ secret = NoToken
    PROVE  TypeOK'
<1> DEFINE r == [op |-> op, sess |-> s, copy |-> store[s], at |-> now,
                 browser |-> b, secret |-> secret]
<1>1. store[s] \in SessionRec
    BY DEF TypeOK, Begin
<1>2. r \in Request
    BY <1>1 DEF TypeOK, Request, BrowserRequest, PollRequest
<1>3. reqs' \in [Workers -> Request \cup {None}]
    <2> HIDE DEF r
    <2>1. reqs' = [reqs EXCEPT ![w] = r]
        BY DEF Begin, r
    <2> QED BY <1>2, <2>1 DEF TypeOK
<1>4. QED
    BY <1>3, SilentType DEF TypeOK, Begin, historyVars

\* Every way for a request to begin keeps the types.
LEMMA ArriveTypeOK ==
    ASSUME TypeOK, NEW w \in Workers, Arrive(w)
    PROVE  TypeOK'
<1>1. ASSUME NEW b \in Browsers
      PROVE  /\ browser[b].cookie \in Sessions \cup {None}
             /\ browser[b].secret \in Nat
    BY <1>1 DEF TypeOK
<1>2. ASSUME NEW b \in Browsers, NEW s \in Sessions, BeginVerify(w, b, s)
      PROVE  TypeOK'
    BY <1>1, <1>2, BeginTypeOK DEF BeginVerify
<1>3. ASSUME NEW b \in Browsers, BeginCallback(w, b)
      PROVE  TypeOK'
    <2>1. browser[b].cookie \in Sessions
        BY <1>1, <1>3 DEF BeginCallback
    <2> QED BY <2>1, <1>3, BeginTypeOK DEF BeginCallback, NoToken
<1>4. ASSUME NEW b \in Browsers, BeginApprove(w, b)
      PROVE  TypeOK'
    <2>1. browser[b].cookie \in Sessions
        BY <1>1, <1>4 DEF BeginApprove
    <2> QED BY <2>1, <1>1, <1>4, BeginTypeOK DEF BeginApprove
<1>5. ASSUME NEW s \in Sessions, BeginPoll(w, s)
      PROVE  TypeOK'
    BY <1>5, BeginTypeOK DEF BeginPoll
<1>6. QED
    BY <1>2, <1>3, <1>4, <1>5 DEF Arrive

\* handleVerify keeps the types.
LEMMA VerifyTypeOK ==
    ASSUME TypeOK, NEW w \in Workers, handleVerify(w)
    PROVE  TypeOK'
<1> DEFINE r == reqs[w]
<1>1. /\ r.sess \in Sessions
      /\ r.copy \in SessionRec
      /\ r.browser \in Browsers
    BY ServingType DEF handleVerify
<1>2. PICK t \in r.at..now :
        LET sess == expireIfNeeded(r.copy, t)
        IN  \/ renderExpired(w, sess)
            \/ resumeApproval(w, sess)
            \/ beginIdPLogin(w, sess)
            \/ verifyRefused(w, sess)
    BY DEF handleVerify
<1> DEFINE sess == expireIfNeeded(r.copy, t)
<1>3. sess \in SessionRec
    <2>1. t \in Nat
        BY ServingType DEF handleVerify
    <2> QED BY <2>1, <1>1, ExpireType
<1>4. UNCHANGED <<grants, guesses, uses>>
    BY DEF handleVerify
<1> HIDE DEF sess
<1>5. CASE renderExpired(w, sess)
    <2>1. SavedTypeOK'
        BY <1>1, <1>3, <1>5, SaveType DEF renderExpired
    <2> QED BY <2>1, <1>4, <1>5, SilentType, ReplyType DEF renderExpired, TypeOK, SavedTypeOK
<1>6. CASE resumeApproval(w, sess)
    <2> DEFINE jar == [browser[r.browser] EXCEPT !.cookie = r.sess]
               o == [Silent EXCEPT !.shown =
                       [browser |-> r.browser, form |-> sess.csrfToken,
                        echo |-> FALSE]]
    <2>1. jar \in [cookie : Sessions \cup {None}, secret : Nat]
        BY <1>1 DEF TypeOK
    <2>2. o \in Output
        BY <1>1, <1>3 DEF Silent, Output, Shown, SessionRec
    <2>3. SetCookies(r.browser, jar) /\ Reply(w, o) /\ UNCHANGED <<store, draws, collisions>>
        BY <1>6 DEF resumeApproval
    <2> HIDE DEF jar, o, r
    <2>4. browser' \in [Browsers -> [cookie : Sessions \cup {None}, secret : Nat]]
        BY <1>1, <2>1, <2>3, CookieType
    <2> QED BY <2>2, <2>3, <2>4, <1>4, ReplyType DEF TypeOK
<1>7. CASE beginIdPLogin(w, sess)
    <2> DEFINE jar == [browser[r.browser] EXCEPT !.cookie = r.sess]
               n == Len(draws) + 1
               rec == [sess EXCEPT !.idpState = n]
               d == [kind |-> "login", sess |-> r.sess, browser |-> r.browser,
                     name |-> None, login |-> NoToken]
    <2>1. jar \in [cookie : Sessions \cup {None}, secret : Nat]
        BY <1>1 DEF TypeOK
    <2>2. d \in Draw
        BY <1>1 DEF Draw, NoToken
    <2>3. rec \in SessionRec
        <3>1. n \in Nat
            BY DEF TypeOK
        <3> HIDE DEF n
        <3> QED BY <3>1, <1>3 DEF SessionRec
    <2>4. PICK outcome \in UpdateOutcomes :
            /\ Save(w, rec, outcome)
            /\ SetCookies(r.browser, jar) \/ UNCHANGED browser
        BY <1>7 DEF beginIdPLogin, BeginLogin
    <2>5. draws' = Append(draws, d) /\ Reply(w, Silent)
        BY <1>7 DEF beginIdPLogin
    <2> HIDE DEF jar, rec, d, r, n
    <2>6. SavedTypeOK'
        BY <1>1, <2>3, <2>4, SaveType DEF r
    <2>7. browser' \in [Browsers -> [cookie : Sessions \cup {None}, secret : Nat]]
        BY <1>1, <2>1, <2>4, CookieType DEF TypeOK
    <2>8. draws' \in Seq(Draw)
        BY <2>2, <2>5 DEF TypeOK
    <2> QED BY <2>5, <2>6, <2>7, <2>8, <1>4, SilentType, ReplyType DEF TypeOK, SavedTypeOK
<1>8. CASE verifyRefused(w, sess)
    BY <1>8, <1>4, SilentType, ReplyType DEF verifyRefused, renderResult, TypeOK
<1>9. QED
    BY <1>2, <1>5, <1>6, <1>7, <1>8 DEF sess

\* handleIdPResponse keeps the types.
LEMMA CallbackTypeOK ==
    ASSUME TypeOK, NEW w \in Workers, handleIdPResponse(w)
    PROVE  TypeOK'
<1> DEFINE r == reqs[w]
<1>1. /\ r.sess \in Sessions
      /\ r.copy \in SessionRec
      /\ r.browser \in Browsers
    BY ServingType DEF handleIdPResponse
<1>2. PICK t \in r.at..now :
        LET sess == expireIfNeeded(r.copy, t)
        IN  \/ renderExpired(w, sess)
            \/ sess.state \notin {"pending", "expired"} /\ renderResult(w)
            \/ /\ sess.state = "pending"
               /\ \E login \in 0..Len(draws), name \in Names \cup {None} :
                    \/ bindLogin(w, login, name, t)
                    \/ ~CompleteLogin(sess, login, name) /\ renderResult(w)
    BY DEF handleIdPResponse, Exchange
<1> DEFINE sess == expireIfNeeded(r.copy, t)
<1>3. t \in Nat
    BY ServingType DEF handleIdPResponse
<1>4. sess \in SessionRec
    BY <1>1, <1>3, ExpireType
<1>5. UNCHANGED <<grants, guesses, uses>>
    BY DEF handleIdPResponse
<1> HIDE DEF sess
<1>6. CASE renderExpired(w, sess)
    <2>1. SavedTypeOK'
        BY <1>1, <1>4, <1>6, SaveType DEF renderExpired
    <2> QED BY <2>1, <1>5, <1>6, SilentType, ReplyType DEF renderExpired, TypeOK, SavedTypeOK
<1>7. CASE renderResult(w)
    BY <1>7, <1>5, SilentType, ReplyType DEF renderResult, TypeOK
<1>8. ASSUME NEW login \in 0..Len(draws), NEW name \in Names \cup {None},
             bindLogin(w, login, name, t)
      PROVE  TypeOK'
    <2> DEFINE n == Len(draws) + 1
               res == bindIdentity(r.copy, name, t, n)
               jar == [browser[r.browser] EXCEPT !.secret = n]
               d == [kind |-> "bind", sess |-> r.sess, browser |-> r.browser,
                     name |-> name, login |-> login]
               o == [Silent EXCEPT !.shown = [browser |-> r.browser, form |-> n, echo |-> FALSE]]
    <2>1. n \in Nat /\ Len(draws) \in Nat
        BY DEF TypeOK
    <2>2. name \in Names
        BY <1>8 DEF bindLogin, CompleteLogin
    <2>3. res.sess \in SessionRec
        <3> HIDE DEF n
        <3> QED BY <2>1, <2>2, <1>1, <1>3, BindType
    <2>4. jar \in [cookie : Sessions \cup {None}, secret : Nat]
        BY <1>1, <2>1 DEF TypeOK
    <2>5. d \in Draw
        BY <1>1, <2>1 DEF Draw
    <2>6. o \in Output
        BY <1>1, <2>1 DEF Silent, Output, Shown
    <2>7. [Silent EXCEPT !.event = "identity_mismatch"] \in Output
        BY DEF Silent, Output, Events
    <2>8. \E outcome \in UpdateOutcomes : Save(w, res.sess, outcome)
        BY <1>8 DEF bindLogin
    <2>9. \/ /\ draws' = Append(draws, d)
             /\ SetCookies(r.browser, jar)
             /\ Reply(w, o)
          \/ /\ Reply(w, [Silent EXCEPT !.event = "identity_mismatch"])
             /\ UNCHANGED <<browser, draws>>
        BY <1>8 DEF bindLogin
    <2> HIDE DEF n, res, jar, d, o, r
    <2>10. SavedTypeOK'
        BY <1>1, <2>3, <2>8, SaveType DEF r
    <2>11. browser' \in [Browsers -> [cookie : Sessions \cup {None}, secret : Nat]]
        BY <1>1, <2>4, <2>9, CookieType DEF TypeOK
    <2>12. draws' \in Seq(Draw)
        <3>1. draws' = Append(draws, d) \/ draws' = draws
            BY <2>9
        <3>2. Append(draws, d) \in Seq(Draw)
            BY <2>5 DEF TypeOK
        <3> QED BY <3>1, <3>2 DEF TypeOK
    <2> QED BY <2>6, <2>7, <2>9, <2>10, <2>11, <2>12, <1>5, ReplyType DEF TypeOK, SavedTypeOK
<1>9. QED
    BY <1>2, <1>6, <1>7, <1>8 DEF sess

\* handleApprove keeps the types.
LEMMA ApproveTypeOK ==
    ASSUME TypeOK, NEW w \in Workers, handleApprove(w)
    PROVE  TypeOK'
<1> DEFINE r == reqs[w]
           s == r.sess
<1>1. /\ r.sess \in Sessions
      /\ r.copy \in SessionRec
      /\ r.secret \in Nat
      /\ r.browser \in Browsers
    BY ServingType DEF handleApprove
<1>2. PICK form \in 0..Len(draws) :
        \/ renderResult(w) /\ UNCHANGED <<grants, guesses, uses>>
        \/ \E code \in TypedCodes, decisionApprove \in BOOLEAN, t \in r.at..now :
              decide(w, form, code, decisionApprove, t)
    BY DEF handleApprove
<1>3. CASE renderResult(w) /\ UNCHANGED <<grants, guesses, uses>>
    BY <1>3, SilentType, ReplyType DEF renderResult, TypeOK
<1>4. ASSUME NEW code \in TypedCodes, NEW decisionApprove \in BOOLEAN,
             NEW t \in r.at..now, decide(w, form, code, decisionApprove, t)
      PROVE  TypeOK'
    <2> DEFINE res == approve(r.copy, code, decisionApprove, t, r.secret)
               wrong == res.err = "incorrect code"
               granted == res.err = "nil" /\ res.sess.state = "approved"
               decision == [sess |-> s, browser |-> r.browser, form |-> form,
                            wrong |-> wrong]
               page == [browser |-> r.browser, echo |-> TRUE,
                        form |-> res.sess.csrfToken]
               o == [Silent EXCEPT
                       !.event = IF wrongCodeObserved(res)
                                 THEN "wrong_code" ELSE None,
                       !.decision = IF res.err \in {"nil", "incorrect code"}
                                    THEN decision ELSE None,
                       !.shown = IF wrongCodeObserved(res) THEN page ELSE None]
               new == IF granted
                      THEN {[form |-> form, browser |-> r.browser, code |-> code]}
                      ELSE {}
    <2>1. res.sess \in SessionRec
        <3>1. t \in Nat
            BY ServingType DEF handleApprove
        <3> QED BY <3>1, <1>1, ApproveType
    <2>2. form \in Nat
        BY DEF TypeOK
    <2>3. /\ \E outcome \in UpdateOutcomes : Save(w, res.sess, outcome)
          /\ Reply(w, o)
          /\ guesses' = [guesses EXCEPT ![s] =
                            IF wrong THEN Count(@, MaxGuesses) ELSE @]
          /\ grants' = [grants EXCEPT ![s] = @ \cup new]
          /\ UNCHANGED <<browser, draws, uses>>
        BY <1>4 DEF decide
    <2>4. decision \in Decision
        <3> HIDE DEF res
        <3> QED BY <1>1, <2>2 DEF Decision
    <2>5. o \in Output
        <3>1. page \in Shown
            <4> HIDE DEF res
            <4> QED BY <1>1, <2>1 DEF Shown, SessionRec
        <3> HIDE DEF res, decision, page
        <3> QED BY <2>4, <3>1 DEF Silent, Output, Events
    <2>6. new \subseteq Grant
        <3> HIDE DEF res
        <3> QED BY <1>1, <2>2 DEF Grant
    <2> HIDE DEF res, wrong, granted, decision, page, o, new, r
    <2>7. s \in Sessions
        BY <1>1
    <2> HIDE DEF s
    <2>8. SavedTypeOK'
        BY <2>1, <2>3, <2>7, SaveType DEF s, r
    <2>9. guesses' \in [Sessions -> 0..MaxGuesses]
        <3>1. MaxGuesses \in Nat
            BY MaximaType
        <3> QED BY <2>3, <2>7, <3>1 DEF TypeOK, Count
    <2>10. grants' \in [Sessions -> SUBSET Grant]
        BY <2>3, <2>6, <2>7 DEF TypeOK
    <2> QED BY <2>3, <2>5, <2>8, <2>9, <2>10, ReplyType DEF TypeOK, SavedTypeOK
<1>5. QED
    BY <1>2, <1>3, <1>4

\* handlePoll keeps the types.
LEMMA PollTypeOK ==
    ASSUME TypeOK, NEW w \in Workers, handlePoll(w)
    PROVE  TypeOK'
<1> DEFINE r == reqs[w]
           s == r.sess
<1>1. /\ s \in Sessions
      /\ r.copy \in SessionRec
    BY ServingType DEF handlePoll
<1>2. PICK verifier \in Verifiers \cup {None}, t \in r.at..now :
        LET res == poll(r.copy, verifier, t)
            a == Artifact(res.sess)
            release == [sess |-> s, verifier |-> verifier,
                        identity |-> a.identity,
                        approvedAt |-> a.approvedAt,
                        expiresAt |-> a.expiresAt, at |-> t]
        IN  /\ \E outcome \in UpdateOutcomes : Save(w, res.sess, outcome)
            /\ Reply(w, [Silent EXCEPT
                           !.event = IF r.copy.consumed /\ res.status = "expired"
                                     THEN "consumed_replay" ELSE None,
                           !.artifact = IF res.status = "approved"
                                        THEN release ELSE None])
            /\ uses' = [uses EXCEPT ![s] =
                          IF res.status = "approved" THEN Count(@, MaxUses) ELSE @]
    BY DEF handlePoll
<1> DEFINE res == poll(r.copy, verifier, t)
           a == Artifact(res.sess)
           release == [sess |-> s, verifier |-> verifier,
                       identity |-> a.identity,
                       approvedAt |-> a.approvedAt,
                       expiresAt |-> a.expiresAt, at |-> t]
           o == [Silent EXCEPT
                   !.event = IF r.copy.consumed /\ res.status = "expired"
                             THEN "consumed_replay" ELSE None,
                   !.artifact = IF res.status = "approved"
                                THEN release ELSE None]
<1>3. t \in Nat
    BY ServingType DEF handlePoll
<1>4. res.sess \in SessionRec
    BY <1>1, <1>3, PollType
<1>5. release \in Release
    <2> HIDE DEF res
    <2>1. res.sess.identityAt \in Nat \cup {Never}
        BY <1>4 DEF SessionRec
    <2>2. res.sess.identityAt + ArtifactTTL \in Int
        BY <2>1, DurationsAssumption DEF Never
    <2> QED BY <1>1, <1>3, <1>4, <2>2 DEF Release, Artifact, SessionRec
<1>6. o \in Output
    <2> HIDE DEF res, release
    <2> QED BY <1>5 DEF Silent, Output, Events
<1>7. /\ \E outcome \in UpdateOutcomes : Save(w, res.sess, outcome)
      /\ Reply(w, o)
      /\ uses' = [uses EXCEPT ![s] =
                    IF res.status = "approved" THEN Count(@, MaxUses) ELSE @]
    BY <1>2
<1> HIDE DEF res, a, release, o, r, s
<1>8. SavedTypeOK'
    BY <1>1, <1>4, <1>7, SaveType DEF s, r
<1>9. uses' \in [Sessions -> 0..MaxUses]
    BY <1>1, <1>7, MaximaType DEF TypeOK, Count
<1>10. UNCHANGED <<browser, draws, grants, guesses>>
    BY DEF handlePoll
<1>11. QED
    BY <1>6, <1>7, <1>8, <1>9, <1>10, ReplyType DEF TypeOK, SavedTypeOK

\* The initial state is well typed.
LEMMA TypeInit == Init => TypeOK
BY SilentType, MaximaType, EnvironmentAssumption DEF Init, TypeOK, NoToken

\* Every step keeps the types.
LEMMA TypeNext == TypeOK /\ [Next]_vars => TypeOK'
<1> SUFFICES ASSUME TypeOK, [Next]_vars
             PROVE  TypeOK'
    OBVIOUS
<1>1. [Silent EXCEPT !.event = "repeated_start"] \in Output
    BY DEF Silent, Output, Events
<1>2. CASE Start
    <2>1. PICK s \in Sessions, hint \in Names, verifier \in Verifiers,
               code \in UserCodes : handleStart(s, hint, verifier, code)
        BY <1>2 DEF Start
    <2> DEFINE sess == newSession(hint, S256(verifier), code, now)
    <2>2. sess \in SessionRec
        BY NewType DEF TypeOK
    <2>3. /\ store' = [store EXCEPT ![s] = sess]
          /\ started' = [started EXCEPT ![s] = sess]
          /\ out' = [Silent EXCEPT !.event = "repeated_start"]
          /\ UNCHANGED <<now, reqs, browser, draws, grants, guesses, uses, collisions>>
        BY <2>1 DEF handleStart
    <2> HIDE DEF sess
    <2> QED BY <1>1, <2>2, <2>3 DEF TypeOK
<1>3. CASE startRefused
    BY <1>1, <1>3 DEF startRefused, TypeOK, historyVars
<1>4. CASE notFound
    BY <1>4, SilentType DEF notFound, TypeOK, historyVars
<1>5. ASSUME NEW w \in Workers, Arrive(w)
      PROVE  TypeOK'
    BY <1>5, ArriveTypeOK
<1>6. ASSUME NEW w \in Workers, Serve(w)
      PROVE  TypeOK'
    BY <1>6, VerifyTypeOK, CallbackTypeOK, ApproveTypeOK, PollTypeOK DEF Serve
<1>7. CASE Sweep
    BY <1>7, SilentType DEF Sweep, TypeOK, historyVars
<1>8. CASE Tick
    BY <1>8, SilentType DEF Tick, TypeOK, historyVars
<1>9. CASE Crash
    BY <1>9, SilentType DEF Crash, TypeOK, historyVars
<1>10. CASE UNCHANGED vars
    BY <1>10 DEF vars, TypeOK
<1>11. QED
    BY <1>2, <1>3, <1>4, <1>5, <1>6, <1>7, <1>8, <1>9, <1>10 DEF Next

\* Every variable of the broker keeps its type in every behaviour: in
\* particular only whole, well-formed sessions are stored, whichever handlers
\* overlap and whichever Updates fail.
THEOREM TypeCorrect == Spec => []TypeOK
BY TypeInit, TypeNext, PTL DEF Spec

-----------------------------------------------------------------------------
(* The inductive invariant Provenance, and what it implies.                *)

\* History only grows.
Grows ==
    /\ \A s \in Sessions : started[s] # None => started'[s] = started[s]
    /\ Len(draws) <= Len(draws')
    /\ \A n \in 1..Len(draws) : draws'[n] = draws[n]
    /\ \A s \in Sessions : grants[s] \subseteq grants'[s]
    /\ \A s \in Sessions : uses[s] > 0 => uses'[s] > 0
    /\ now <= now'

\* Appending a draw keeps the earlier ones.
LEMMA AppendDraw ==
    ASSUME TypeOK, NEW d \in Draw, draws' = Append(draws, d)
    PROVE  /\ Len(draws') = Len(draws) + 1
           /\ draws'[Len(draws) + 1] = d
           /\ \A n \in 1..Len(draws) : draws'[n] = draws[n]
           /\ Len(draws) \in Nat
BY DEF TypeOK

\* What a session's record was traced to stays true as history grows, so
\* copies that handlers took long ago stay traced.
LEMMA TracedGrows ==
    ASSUME TypeOK, TypeOK', Grows, NEW s \in Sessions, NEW c \in SessionRec,
           Traced(s, c)
    PROVE  Traced(s, c)'
<1>1. Len(draws) \in Nat /\ Len(draws') \in Nat
    BY DEF TypeOK
<1>2. \A n \in 1..Len(draws) : n \in 1..Len(draws') /\ draws'[n] = draws[n]
    BY <1>1 DEF Grows
<1>3. ASSUME NEW n, IsLogin(s, n)
      PROVE  IsLogin(s, n)'
    BY <1>2, <1>3 DEF IsLogin
<1>4. ASSUME NEW n, IsBind(s, n)
      PROVE  IsBind(s, n)'
    BY <1>2, <1>4 DEF IsBind, IsLogin
<1>5. ASSUME SignedIn(s, c)
      PROVE  SignedIn(s, c)'
    <2>1. IsBind(s, c.csrfToken)'
        BY <1>4, <1>5 DEF SignedIn
    <2>2. draws'[c.csrfToken] = draws[c.csrfToken]
        BY <1>2, <1>5 DEF SignedIn, IsBind
    <2> QED BY <1>5, <2>1, <2>2 DEF SignedIn
<1>6. ASSUME SignedIn(s, c), Granted(s, c)
      PROVE  Granted(s, c)'
    <2>1. draws'[c.csrfToken] = draws[c.csrfToken]
        BY <1>2, <1>6 DEF SignedIn, IsBind
    <2>2. grants[s] \subseteq grants'[s]
        BY DEF Grows
    <2> QED BY <1>6, <2>1, <2>2 DEF Granted
<1>7. started' [s] = started[s] /\ (uses[s] > 0 => uses'[s] > 0)
    BY DEF Traced, Grows
<1>8. QED
    BY <1>3, <1>5, <1>6, <1>7 DEF Traced

\* A browser's secret stays its own as more tokens are drawn.
LEMMA OwnSecretGrows ==
    ASSUME TypeOK, TypeOK', Grows, NEW b, NEW n, OwnSecret(b, n)
    PROVE  OwnSecret(b, n)'
<1>1. Len(draws) \in Nat /\ Len(draws') \in Nat
    BY DEF TypeOK
<1>2. \A m \in 1..Len(draws) : m \in 1..Len(draws') /\ draws'[m] = draws[m]
    BY <1>1 DEF Grows
<1>3. QED
    BY <1>2 DEF OwnSecret

\* The store after an Update: the traced record, or what was there.
LEMMA UpdateTraced ==
    ASSUME TypeOK, TypeOK', StoredTraced, Grows, NEW s \in Sessions,
           NEW rec \in SessionRec, NEW outcome, Update(s, rec, outcome),
           Traced(s, rec)'
    PROVE  StoredTraced'
<1> SUFFICES ASSUME NEW x \in Sessions, store'[x] # None
             PROVE  Traced(x, store[x])'
    BY DEF StoredTraced
<1>1. store'[x] = store[x] \/ (x = s /\ store'[x] = rec)
    BY DEF Update, TypeOK
<1>2. CASE store'[x] = store[x]
    <2> DEFINE c == store[x]
    <2>1. c \in SessionRec /\ Traced(x, c)
        BY <1>2 DEF TypeOK, StoredTraced
    <2>2. PICK d \in SessionRec : d = store[x] /\ Traced(x, d)
        BY <2>1
    <2>3. Traced(x, d)'
        BY <2>2, TracedGrows
    <2> QED
        BY <1>2, <2>2, <2>3
        DEF Traced, SameStart, SignedIn, IsBind, IsLogin, Granted,
            identityMatches, ExpiresAt
<1>3. CASE x = s /\ store'[x] = rec
    BY <1>3
    DEF Traced, SameStart, SignedIn, IsBind, IsLogin, Granted,
        identityMatches, ExpiresAt
<1>4. QED BY <1>1, <1>2, <1>3

\* The store after a step that changes no session: kept or forgotten.
LEMMA KeptTraced ==
    ASSUME TypeOK, TypeOK', StoredTraced, Grows,
           \A x \in Sessions : store'[x] \in {store[x], None}
    PROVE  StoredTraced'
<1> SUFFICES ASSUME NEW x \in Sessions, store'[x] # None
             PROVE  Traced(x, store[x])'
    BY DEF StoredTraced
<1>1. store'[x] = store[x]
    OBVIOUS
<1>2. PICK d \in SessionRec : d = store[x] /\ Traced(x, d)
    BY <1>1 DEF TypeOK, StoredTraced
<1>3. Traced(x, d)'
    BY <1>2, TracedGrows
<1>4. QED
    BY <1>1, <1>2, <1>3
    DEF Traced, SameStart, SignedIn, IsBind, IsLogin, Granted,
        identityMatches, ExpiresAt

\* Requests that stay in flight stay traced.
LEMMA ServedGrows ==
    ASSUME TypeOK, TypeOK', ServedTraced, Grows, NEW w \in Workers,
           reqs'[w] # None, reqs'[w] = reqs[w]
    PROVE  /\ Traced(reqs[w].sess, reqs[w].copy)'
           /\ reqs'[w].copy.createdAt <= reqs'[w].at
           /\ reqs'[w].at <= now'
           /\ OwnSecret(reqs[w].browser, reqs[w].secret)'
<1>1. PICK r \in Request : r = reqs[w]
    BY DEF TypeOK
<1>2. /\ r.sess \in Sessions
      /\ r.copy \in SessionRec
      /\ r.at \in Nat
    BY DEF Request, BrowserRequest, PollRequest
<1>3. /\ Traced(r.sess, r.copy)
      /\ r.copy.createdAt <= r.at
      /\ r.at <= now
      /\ OwnSecret(r.browser, r.secret)
    BY <1>1 DEF ServedTraced
<1>4. Traced(r.sess, r.copy)' /\ OwnSecret(r.browser, r.secret)'
    BY <1>2, <1>3, TracedGrows, OwnSecretGrows
<1>5. now \in Nat /\ now' \in Nat /\ now <= now'
    BY DEF TypeOK, Grows
<1>6. Traced(reqs[w].sess, reqs[w].copy)'
    BY <1>1, <1>4, SMTT(30)
    DEF Traced, SameStart, SignedIn, IsBind, IsLogin, Granted,
        identityMatches, ExpiresAt
<1>7. OwnSecret(reqs[w].browser, reqs[w].secret)'
    BY <1>1, <1>4 DEF OwnSecret
<1>8. QED
    BY <1>1, <1>2, <1>3, <1>5, <1>6, <1>7

\* A step that begins no request.
LEMMA ServedKept ==
    ASSUME TypeOK, TypeOK', ServedTraced, Grows,
           \A w \in Workers : reqs'[w] \in {reqs[w], None}
    PROVE  ServedTraced'
BY ServedGrows DEF ServedTraced

\* A step that starts no session.
LEMMA StartedKept ==
    ASSUME TypeOK, TypeOK', StartedBefore, Grows, started' = started
    PROVE  StartedBefore'
<1> SUFFICES ASSUME NEW s \in Sessions, started'[s] # None
             PROVE  started'[s].createdAt <= now'
    BY DEF StartedBefore
<1>1. started[s] \in SessionRec /\ started[s].createdAt <= now
    BY DEF TypeOK, StartedBefore
<1>2. started[s].createdAt \in Nat /\ now \in Nat /\ now' \in Nat /\ now <= now'
    BY <1>1 DEF TypeOK, SessionRec, Grows
<1>3. QED BY <1>1, <1>2

\* A step that sets no approval cookie.
LEMMA JarsKept ==
    ASSUME TypeOK, TypeOK', JarsOwn, Grows,
           \A b \in Browsers : browser'[b].secret = browser[b].secret
    PROVE  JarsOwn'
<1> SUFFICES ASSUME NEW b \in Browsers
             PROVE  OwnSecret(b, browser[b].secret)'
    BY DEF JarsOwn
<1>1. PICK n \in Nat : n = browser[b].secret /\ OwnSecret(b, n)
    BY DEF TypeOK, JarsOwn
<1>2. OwnSecret(b, n)'
    BY <1>1, OwnSecretGrows
<1>3. QED
    BY <1>1, <1>2 DEF OwnSecret

\* The request being served, as its handler finds it.
LEMMA ServingTraced ==
    ASSUME TypeOK, Provenance, NEW w \in Workers, NEW op, Serving(w, op)
    PROVE  /\ Traced(reqs[w].sess, reqs[w].copy)
           /\ OwnSecret(reqs[w].browser, reqs[w].secret)
           /\ \A t \in reqs[w].at..now : reqs[w].copy.createdAt <= t
<1>1. /\ Traced(reqs[w].sess, reqs[w].copy)
      /\ OwnSecret(reqs[w].browser, reqs[w].secret)
      /\ reqs[w].copy.createdAt <= reqs[w].at
    BY DEF Provenance, ServedTraced, Serving
<1>2. reqs[w].copy.createdAt \in Nat /\ reqs[w].at \in Nat /\ now \in Nat
    BY ServingType DEF TypeOK, SessionRec
<1>3. QED BY <1>1, <1>2

\* The end of a handler leaves the other requests and the start of sessions
\* alone.
LEMMA ReplyKeeps ==
    ASSUME TypeOK, TypeOK', Provenance, Grows, NEW w \in Workers, NEW o,
           Reply(w, o)
    PROVE  ServedTraced' /\ StartedBefore'
<1>1. \A x \in Workers : reqs'[x] \in {reqs[x], None}
    BY DEF Reply, TypeOK
<1>2. started' = started
    BY DEF Reply
<1>3. QED
    BY <1>1, <1>2, ServedKept, StartedKept DEF Provenance

\* Lazy expiry keeps a session traced: it never touches an approved one.
LEMMA ExpireTraced ==
    ASSUME NEW s \in Sessions, NEW c \in SessionRec, NEW t \in Nat,
           Traced(s, c)
    PROVE  Traced(s, expireIfNeeded(c, t))
<1> DEFINE e == [c EXCEPT !.state = "expired"]
<1>1. \/ expireIfNeeded(c, t) = c
      \/ expireIfNeeded(c, t) = e /\ c.state # "approved"
    BY DEF expireIfNeeded, isTerminal, Terminal
<1>2. ASSUME c.state # "approved"
      PROVE  Traced(s, e)
    <2>1. /\ SameStart(e, started[s]) <=> SameStart(c, started[s])
          /\ SignedIn(s, e) <=> SignedIn(s, c)
        BY DEF SessionRec, SameStart, SignedIn, identityMatches, ExpiresAt
    <2>2. /\ e.idpState = c.idpState
          /\ e.csrfToken = c.csrfToken
          /\ e.approvalBindingHash = c.approvalBindingHash
          /\ e.consumed = c.consumed
          /\ e.state = "expired"
        BY DEF SessionRec
    <2> HIDE DEF e
    <2> QED BY <1>2, <2>1, <2>2 DEF Traced
<1>3. QED
    BY <1>1, <1>2

\* No step of the broker rewrites its history.
LEMMA NextGrows ==
    ASSUME TypeOK, [Next]_vars
    PROVE  Grows
<1>1. Len(draws) \in Nat /\ now \in Nat
    BY DEF TypeOK
<1>2. CASE UNCHANGED <<started, draws, grants, uses, now>>
    BY <1>1, <1>2 DEF Grows
<1>3. CASE Start
    BY <1>1, <1>3 DEF Start, handleStart, mayStart, Grows, TypeOK
<1>4. CASE startRefused \/ notFound \/ Sweep \/ Crash
    BY <1>2, <1>4 DEF startRefused, notFound, Sweep, Crash, historyVars
<1>5. CASE Tick
    BY <1>1, <1>5 DEF Tick, historyVars, Grows
<1>6. ASSUME NEW w \in Workers, Arrive(w)
      PROVE  Grows
    BY <1>2, <1>6
    DEF Arrive, BeginVerify, BeginCallback, BeginApprove, BeginPoll, Begin,
        historyVars
<1>7. ASSUME NEW d \in Draw, draws' = Append(draws, d),
             UNCHANGED <<started, grants, uses, now>>
      PROVE  Grows
    BY <1>1, <1>7, AppendDraw DEF Grows
<1>8. ASSUME NEW w \in Workers, handleVerify(w)
      PROVE  Grows
    <2>1. PICK t \in reqs[w].at..now :
            LET sess == expireIfNeeded(reqs[w].copy, t)
            IN  \/ renderExpired(w, sess)
                \/ resumeApproval(w, sess)
                \/ beginIdPLogin(w, sess)
                \/ verifyRefused(w, sess)
        BY <1>8 DEF handleVerify
    <2> DEFINE sess == expireIfNeeded(reqs[w].copy, t)
    <2> HIDE DEF sess
    <2>2. UNCHANGED <<grants, uses>>
        BY <1>8 DEF handleVerify
    <2>3. CASE renderExpired(w, sess) \/ resumeApproval(w, sess) \/ verifyRefused(w, sess)
        BY <1>2, <2>2, <2>3
        DEF renderExpired, resumeApproval, verifyRefused, renderResult, Reply
    <2>4. CASE beginIdPLogin(w, sess)
        <3>1. reqs[w].sess \in Sessions /\ reqs[w].browser \in Browsers
            BY <1>8, ServingType DEF handleVerify
        <3>2. [kind |-> "login", sess |-> reqs[w].sess, browser |-> reqs[w].browser,
               name |-> None, login |-> NoToken] \in Draw
            BY <3>1 DEF Draw, NoToken
        <3> QED BY <1>7, <2>2, <2>4, <3>2 DEF beginIdPLogin, Reply
    <2> QED BY <2>1, <2>3, <2>4 DEF sess
<1>9. ASSUME NEW w \in Workers, handleIdPResponse(w)
      PROVE  Grows
    <2>1. UNCHANGED <<grants, uses>>
        BY <1>9 DEF handleIdPResponse
    <2>2. PICK t \in reqs[w].at..now :
            \/ renderExpired(w, expireIfNeeded(reqs[w].copy, t))
            \/ renderResult(w)
            \/ \E login \in 0..Len(draws), name \in Names \cup {None} :
                 bindLogin(w, login, name, t)
        BY <1>9 DEF handleIdPResponse, Exchange
    <2>3. CASE renderExpired(w, expireIfNeeded(reqs[w].copy, t)) \/ renderResult(w)
        BY <1>2, <2>1, <2>3 DEF renderExpired, renderResult, Reply
    <2>4. ASSUME NEW login \in 0..Len(draws), NEW name \in Names \cup {None},
                 bindLogin(w, login, name, t)
          PROVE  Grows
        <3>1. reqs[w].sess \in Sessions /\ reqs[w].browser \in Browsers
            BY <1>9, ServingType DEF handleIdPResponse
        <3> DEFINE d == [kind |-> "bind", sess |-> reqs[w].sess,
                         browser |-> reqs[w].browser, name |-> name,
                         login |-> login]
        <3>2. d \in Draw
            BY <3>1, <1>1 DEF Draw
        <3>3. /\ draws' = Append(draws, d) \/ draws' = draws
              /\ UNCHANGED <<now, started>>
            BY <2>4 DEF bindLogin, Reply
        <3> QED BY <1>2, <1>7, <2>1, <3>2, <3>3
    <2> QED BY <2>2, <2>3, <2>4
<1>10. ASSUME NEW w \in Workers, handleApprove(w)
       PROVE  Grows
    <2>1. UNCHANGED <<started, draws, uses, now>>
        <3>1. PICK form \in 0..Len(draws) :
                \/ renderResult(w) /\ UNCHANGED <<grants, guesses, uses>>
                \/ \E code \in TypedCodes, d \in BOOLEAN, t \in reqs[w].at..now :
                     decide(w, form, code, d, t)
            BY <1>10 DEF handleApprove
        <3>2. CASE renderResult(w) /\ UNCHANGED <<grants, guesses, uses>>
            BY <3>2 DEF renderResult, Reply
        <3>3. ASSUME NEW code \in TypedCodes, NEW d \in BOOLEAN,
                     NEW t \in reqs[w].at..now, decide(w, form, code, d, t)
              PROVE  UNCHANGED <<started, draws, uses, now>>
            BY <3>3 DEF decide, Reply
        <3> QED BY <3>1, <3>2, <3>3
    <2>2. \A s \in Sessions : grants[s] \subseteq grants'[s]
        <3>1. CASE grants' = grants
            BY <3>1
        <3>2. ASSUME NEW s, NEW new, grants' = [grants EXCEPT ![s] = @ \cup new]
              PROVE  \A x \in Sessions : grants[x] \subseteq grants'[x]
            BY <3>2 DEF TypeOK
        <3>3. ASSUME NEW form, NEW code, NEW d, NEW t, decide(w, form, code, d, t)
              PROVE  \A x \in Sessions : grants[x] \subseteq grants'[x]
            <4> DEFINE res == approve(reqs[w].copy, code, d, t, reqs[w].secret)
                       new == IF res.err = "nil" /\ res.sess.state = "approved"
                              THEN {[form |-> form, browser |-> reqs[w].browser,
                                     code |-> code]}
                              ELSE {}
            <4>1. grants' = [grants EXCEPT ![reqs[w].sess] = @ \cup new]
                BY <3>3 DEF decide
            <4> HIDE DEF new
            <4> QED BY <4>1, <3>2
        <3> QED BY <1>10, <3>1, <3>3 DEF handleApprove
    <2> QED BY <1>1, <2>1, <2>2 DEF Grows
<1>11. ASSUME NEW w \in Workers, handlePoll(w)
       PROVE  Grows
    <2>1. UNCHANGED <<started, draws, grants, now>>
        BY <1>11 DEF handlePoll, Reply
    <2>2. \A s \in Sessions : uses[s] > 0 => uses'[s] > 0
        <3>1. PICK verifier, t :
                uses' = [uses EXCEPT ![reqs[w].sess] =
                           IF poll(reqs[w].copy, verifier, t).status = "approved"
                           THEN Count(@, MaxUses) ELSE @]
            BY <1>11 DEF handlePoll
        <3>2. \A s \in Sessions : uses[s] \in Nat
            BY MaximaType DEF TypeOK
        <3>3. \A s \in Sessions : uses'[s] = uses[s] \/ uses'[s] = Count(uses[s], MaxUses)
            BY <3>1 DEF TypeOK
        <3> QED BY <3>2, <3>3 DEF Count
    <2> QED BY <1>1, <2>1, <2>2 DEF Grows
<1>12. QED
    BY <1>2, <1>3, <1>4, <1>5, <1>6, <1>8, <1>9, <1>10, <1>11
    DEF Next, Serve, vars

\* Saving the lazily expired copy.
LEMMA ExpiredProvenance ==
    ASSUME TypeOK, TypeOK', Provenance, Grows, NEW w \in Workers, NEW op,
           Serving(w, op), NEW t \in reqs[w].at..now,
           renderExpired(w, expireIfNeeded(reqs[w].copy, t))
    PROVE  Provenance'
<1> DEFINE s == reqs[w].sess
           rec == expireIfNeeded(reqs[w].copy, t)
<1>1. s \in Sessions /\ reqs[w].copy \in SessionRec /\ t \in Nat
    BY ServingType
<1>2. rec \in SessionRec
    BY <1>1, ExpireType
<1>3. Traced(s, rec)
    BY <1>1, ServingTraced, ExpireTraced
<1>4. /\ \E outcome \in UpdateOutcomes : Update(s, rec, outcome)
      /\ Reply(w, Silent)
      /\ browser' = browser
    BY DEF renderExpired, Save
<1>5. ASSUME NEW x \in Sessions, NEW c \in SessionRec, Traced(x, c)
      PROVE  Traced(x, c)'
    BY <1>5, TracedGrows
<1>6. PICK y \in Sessions, c \in SessionRec : y = s /\ c = rec
    BY <1>1, <1>2
<1>7. Traced(y, c)'
    BY <1>3, <1>5, <1>6
<1>8. StoredTraced'
    BY <1>4, <1>6, <1>7, UpdateTraced DEF Provenance
<1>9. QED
    BY <1>4, <1>8, ReplyKeeps, JarsKept DEF Provenance

\* A handler that answers and changes nothing.
LEMMA RefusedProvenance ==
    ASSUME TypeOK, TypeOK', Provenance, Grows, NEW w \in Workers,
           renderResult(w)
    PROVE  Provenance'
<1>1. Reply(w, Silent) /\ store' = store /\ browser' = browser
    BY DEF renderResult
<1>2. QED
    BY <1>1, ReplyKeeps, KeptTraced, JarsKept DEF Provenance

\* How each change the handlers make to a copy keeps it traced.  The history
\* is the one after the step, to which the copy is written.

\* beginIdPLogin: a new IdP state.
LEMMA LoginTraced ==
    ASSUME NEW s \in Sessions, NEW c \in SessionRec, NEW n \in Nat,
           Traced(s, c)', IsLogin(s, n)'
    PROVE  Traced(s, [c EXCEPT !.idpState = n])'
<1> DEFINE e == [c EXCEPT !.idpState = n]
<1>1. /\ SameStart(e, started[s])' <=> SameStart(c, started[s])'
      /\ SignedIn(s, e)' <=> SignedIn(s, c)'
      /\ Granted(s, e)' <=> Granted(s, c)'
    BY DEF SessionRec, SameStart, SignedIn, Granted, identityMatches, ExpiresAt
<1>2. /\ e.idpState = n
      /\ e.csrfToken = c.csrfToken
      /\ e.approvalBindingHash = c.approvalBindingHash
      /\ e.consumed = c.consumed
      /\ e.state = c.state
    BY DEF SessionRec
<1> HIDE DEF e
<1>3. Traced(s, e)'
    BY <1>1, <1>2 DEF Traced
<1>4. QED BY <1>3 DEF e

\* bindIdentity, the hinted identity: token, secret, identity and time come
\* in together.
LEMMA BindTraced ==
    ASSUME NEW s \in Sessions, NEW c \in SessionRec, NEW name \in Names,
           NEW t \in Nat, NEW n \in Nat \ {0},
           Traced(s, c)', IsBind(s, n)', draws'[n].name = name,
           c.createdAt <= t, t <= ExpiresAt(c), c.state = "pending",
           identityMatches(c, name)
    PROVE  Traced(s, awaitApproval([c EXCEPT !.identity = name, !.identityAt = t], n))'
<1> DEFINE e == awaitApproval([c EXCEPT !.identity = name, !.identityAt = t], n)
<1>1. /\ e.csrfToken = n
      /\ e.approvalBindingHash = hashBinding(n)
      /\ e.identity = name
      /\ e.identityAt = t
      /\ e.state = "awaiting_approval"
      /\ e.hint = c.hint
      /\ e.challenge = c.challenge
      /\ e.userCode = c.userCode
      /\ e.createdAt = c.createdAt
      /\ e.idpState = c.idpState
      /\ e.consumed = c.consumed
    BY DEF awaitApproval, SessionRec
<1>2. c.consumed = FALSE
    BY DEF Traced, SessionRec
<1>3. c.createdAt \in Nat /\ ExpiresAt(c) \in Nat
    BY DurationsAssumption DEF SessionRec, ExpiresAt
<1>4. ExpiresAt(e) = ExpiresAt(c) /\ identityMatches(e, name)
    BY <1>1 DEF ExpiresAt, identityMatches
<1> HIDE DEF e
<1>5. SignedIn(s, e)'
    BY <1>1, <1>3, <1>4 DEF SignedIn
<1>6. SameStart(e, started[s])'
    BY <1>1 DEF Traced, SameStart
<1>7. Traced(s, e)'
    BY <1>1, <1>2, <1>5, <1>6 DEF Traced, NoToken
<1>8. QED BY <1>7 DEF e

\* bindIdentity, another identity: denied before any token is set.
LEMMA MismatchTraced ==
    ASSUME NEW s \in Sessions, NEW c \in SessionRec, NEW name \in Names,
           NEW t \in Nat, Traced(s, c)', c.state = "pending"
    PROVE  Traced(s, [[c EXCEPT !.identity = name, !.identityAt = t]
                        EXCEPT !.state = "denied"])'
<1> DEFINE e == [[c EXCEPT !.identity = name, !.identityAt = t]
                   EXCEPT !.state = "denied"]
<1>1. /\ e.csrfToken = c.csrfToken
      /\ e.approvalBindingHash = c.approvalBindingHash
      /\ e.state = "denied"
      /\ e.hint = c.hint
      /\ e.challenge = c.challenge
      /\ e.userCode = c.userCode
      /\ e.createdAt = c.createdAt
      /\ e.idpState = c.idpState
      /\ e.consumed = c.consumed
    BY DEF SessionRec
<1> HIDE DEF e
<1>2. SameStart(e, started[s])'
    BY <1>1 DEF Traced, SameStart
<1>3. Traced(s, e)'
    BY <1>1, <1>2 DEF Traced, NoToken
<1>4. QED BY <1>3 DEF e

\* approve: a new state or attempt count of a session awaiting approval.
LEMMA DecideTraced ==
    ASSUME NEW s \in Sessions, NEW c \in SessionRec,
           NEW k \in Nat, NEW st \in {"awaiting_approval", "approved", "denied"},
           Traced(s, c)', c.state = "awaiting_approval",
           st = "approved" => Granted(s, c)'
    PROVE  Traced(s, [c EXCEPT !.approveAttempts = k, !.state = st])'
<1> DEFINE e == [c EXCEPT !.approveAttempts = k, !.state = st]
<1>1. /\ SameStart(e, started[s])' <=> SameStart(c, started[s])'
      /\ SignedIn(s, e)' <=> SignedIn(s, c)'
      /\ Granted(s, e)' <=> Granted(s, c)'
    BY DEF SessionRec, SameStart, SignedIn, Granted, identityMatches, ExpiresAt
<1>2. /\ e.idpState = c.idpState
      /\ e.csrfToken = c.csrfToken
      /\ e.approvalBindingHash = c.approvalBindingHash
      /\ e.consumed = c.consumed
      /\ e.state = st
    BY DEF SessionRec
<1> HIDE DEF e
<1>3. Traced(s, e)'
    BY <1>1, <1>2 DEF Traced
<1>4. QED BY <1>3 DEF e

\* poll: the consumed mark of an approved session, or the time of the poll.
LEMMA PollTraced ==
    ASSUME NEW s \in Sessions, NEW c \in SessionRec, NEW t \in Nat,
           Traced(s, c)'
    PROVE  /\ Traced(s, [c EXCEPT !.lastPollAt = t])'
           /\ c.state = "approved" /\ uses'[s] > 0 => Traced(s, consume(c))'
<1>1. ASSUME NEW e \in SessionRec,
             /\ e.hint = c.hint
             /\ e.challenge = c.challenge
             /\ e.userCode = c.userCode
             /\ e.createdAt = c.createdAt
             /\ e.idpState = c.idpState
             /\ e.csrfToken = c.csrfToken
             /\ e.approvalBindingHash = c.approvalBindingHash
             /\ e.identity = c.identity
             /\ e.identityAt = c.identityAt
             /\ e.state = c.state
             /\ e.consumed => c.state = "approved" /\ uses'[s] > 0
      PROVE  Traced(s, e)'
    <2>1. /\ SameStart(e, started[s])' <=> SameStart(c, started[s])'
          /\ SignedIn(s, e)' <=> SignedIn(s, c)'
          /\ Granted(s, e)' <=> Granted(s, c)'
        BY <1>1 DEF SameStart, SignedIn, Granted, identityMatches, ExpiresAt
    <2> QED BY <1>1, <2>1 DEF Traced
<1>2. Traced(s, [c EXCEPT !.lastPollAt = t])'
    <2> DEFINE e == [c EXCEPT !.lastPollAt = t]
    <2>1. e \in SessionRec
        BY DEF SessionRec
    <2>2. /\ e.hint = c.hint
          /\ e.challenge = c.challenge
          /\ e.userCode = c.userCode
          /\ e.createdAt = c.createdAt
          /\ e.idpState = c.idpState
          /\ e.csrfToken = c.csrfToken
          /\ e.approvalBindingHash = c.approvalBindingHash
          /\ e.identity = c.identity
          /\ e.identityAt = c.identityAt
          /\ e.state = c.state
          /\ e.consumed = c.consumed
        BY DEF SessionRec
    <2>3. c.consumed => c.state = "approved" /\ uses'[s] > 0
        BY DEF Traced
    <2> HIDE DEF e
    <2>4. Traced(s, e)'
        BY <1>1, <2>1, <2>2, <2>3
    <2> QED BY <2>4 DEF e
<1>3. ASSUME c.state = "approved", uses'[s] > 0
      PROVE  Traced(s, consume(c))'
    <2> DEFINE e == consume(c)
    <2>1. e \in SessionRec
        BY DEF SessionRec, consume
    <2>2. /\ e.hint = c.hint
          /\ e.challenge = c.challenge
          /\ e.userCode = c.userCode
          /\ e.createdAt = c.createdAt
          /\ e.idpState = c.idpState
          /\ e.csrfToken = c.csrfToken
          /\ e.approvalBindingHash = c.approvalBindingHash
          /\ e.identity = c.identity
          /\ e.identityAt = c.identityAt
          /\ e.state = c.state
        BY DEF SessionRec, consume
    <2> HIDE DEF e
    <2>3. Traced(s, e)'
        BY <1>1, <1>3, <2>1, <2>2
    <2> QED BY <2>3 DEF e
<1>4. QED BY <1>2, <1>3

\* The request a handler serves, as values that do not change while it does.
LEMMA ServingValues ==
    ASSUME TypeOK, TypeOK', Provenance, Grows, NEW w \in Workers, NEW op,
           Serving(w, op)
    PROVE  \E s \in Sessions, copy \in SessionRec, at \in Nat, secret \in Nat :
             /\ reqs[w].sess = s
             /\ reqs[w].copy = copy
             /\ reqs[w].at = at
             /\ reqs[w].secret = secret
             /\ Traced(s, copy)
             /\ Traced(s, copy)'
             /\ \A t \in at..now : t \in Nat /\ copy.createdAt <= t
<1>1. PICK s \in Sessions, copy \in SessionRec, at \in Nat, secret \in Nat :
        /\ reqs[w].sess = s
        /\ reqs[w].copy = copy
        /\ reqs[w].at = at
        /\ reqs[w].secret = secret
    BY ServingType
<1>2. Traced(s, copy)
    BY <1>1, ServingTraced
<1>3. Traced(s, copy)'
    BY <1>2, TracedGrows
<1>4. \A t \in at..now : t \in Nat /\ copy.createdAt <= t
    BY <1>1, ServingType, ServingTraced
<1>5. QED BY <1>1, <1>2, <1>3, <1>4

\* handleVerify saves the IdP state of a login drawn for this session.
LEMMA VerifyProvenance ==
    ASSUME TypeOK, TypeOK', Provenance, Grows, NEW w \in Workers,
           handleVerify(w)
    PROVE  Provenance'
<1>1. PICK s \in Sessions, copy \in SessionRec, at \in Nat, secret \in Nat :
        /\ reqs[w].sess = s
        /\ reqs[w].copy = copy
        /\ reqs[w].at = at
        /\ Traced(s, copy)
        /\ \A t \in at..now : t \in Nat
    BY ServingValues DEF handleVerify
<1>2. PICK b \in Browsers : reqs[w].browser = b
    BY ServingType DEF handleVerify
<1>3. PICK t \in at..now :
        LET sess == expireIfNeeded(copy, t)
        IN  \/ renderExpired(w, sess)
            \/ resumeApproval(w, sess)
            \/ beginIdPLogin(w, sess)
            \/ verifyRefused(w, sess)
    BY <1>1 DEF handleVerify
<1>4. PICK sess \in SessionRec : sess = expireIfNeeded(copy, t)
    BY <1>1, ExpireType
<1>5. Traced(s, sess)'
    <2>1. Traced(s, sess)
        BY <1>1, <1>4, ExpireTraced
    <2> QED BY <2>1, TracedGrows
<1>6. CASE renderExpired(w, sess)
    BY <1>1, <1>4, <1>6, ExpiredProvenance DEF handleVerify
<1>7. CASE verifyRefused(w, sess)
    BY <1>7, RefusedProvenance DEF verifyRefused
<1>8. ASSUME \/ SetCookies(b, [browser[b] EXCEPT !.cookie = s])
             \/ browser' = browser
      PROVE  JarsOwn'
    <2>1. \A x \in Browsers : browser'[x].secret = browser[x].secret
        <3>1. CASE browser' = browser
            BY <3>1
        <3>2. CASE browser' = [browser EXCEPT ![b] = [browser[b] EXCEPT !.cookie = s]]
            BY <3>2 DEF TypeOK
        <3> QED BY <1>8, <3>1, <3>2 DEF SetCookies
    <2> QED BY <2>1, JarsKept DEF Provenance
<1>9. CASE resumeApproval(w, sess)
    <2>1. store' = store /\ SetCookies(b, [browser[b] EXCEPT !.cookie = s])
        BY <1>1, <1>2, <1>9 DEF resumeApproval
    <2>2. StoredTraced'
        BY <2>1, KeptTraced DEF Provenance
    <2>3. ServedTraced' /\ StartedBefore'
        BY <1>9, ReplyKeeps DEF resumeApproval
    <2> QED BY <1>8, <2>1, <2>2, <2>3 DEF Provenance
<1>10. CASE beginIdPLogin(w, sess)
    <2>1. PICK n \in Nat : n = Len(draws) + 1
        BY DEF TypeOK
    <2>2. PICK d \in Draw :
            d = [kind |-> "login", sess |-> s, browser |-> b,
                 name |-> None, login |-> NoToken]
        BY DEF Draw, NoToken
    <2>3. draws' = Append(draws, d)
        BY <1>1, <1>2, <1>10, <2>2 DEF beginIdPLogin
    <2>4. IsLogin(s, n)'
        BY <2>1, <2>2, <2>3, AppendDraw DEF IsLogin
    <2>5. PICK rec \in SessionRec : rec = [sess EXCEPT !.idpState = n]
        <3>1. [sess EXCEPT !.idpState = n] \in SessionRec
            BY DEF SessionRec
        <3> QED BY <3>1
    <2>6. Traced(s, rec)'
        BY <1>5, <2>4, <2>5, LoginTraced
    <2>7. PICK outcome \in UpdateOutcomes :
            /\ Update(s, rec, outcome)
            /\ SetCookies(b, [browser[b] EXCEPT !.cookie = s]) \/ browser' = browser
        BY <1>1, <1>2, <1>10, <2>1, <2>5 DEF beginIdPLogin, BeginLogin, Save
    <2>8. StoredTraced'
        BY <2>6, <2>7, UpdateTraced DEF Provenance
    <2>9. ServedTraced' /\ StartedBefore'
        BY <1>10, ReplyKeeps DEF beginIdPLogin
    <2> QED BY <1>8, <2>7, <2>8, <2>9 DEF Provenance
<1>11. QED
    BY <1>3, <1>4, <1>6, <1>7, <1>9, <1>10


\* handleIdPResponse saves a sign-in, or a denial, and sets the secret of the
\* browser that signed in.
LEMMA CallbackProvenance ==
    ASSUME TypeOK, TypeOK', Provenance, Grows, NEW w \in Workers,
           handleIdPResponse(w)
    PROVE  Provenance'
<1>1. PICK s \in Sessions, copy \in SessionRec, at \in Nat, secret \in Nat :
        /\ reqs[w].sess = s
        /\ reqs[w].copy = copy
        /\ reqs[w].at = at
        /\ Traced(s, copy)
        /\ Traced(s, copy)'
        /\ \A t \in at..now : t \in Nat /\ copy.createdAt <= t
    BY ServingValues DEF handleIdPResponse
<1>2. PICK b \in Browsers : reqs[w].browser = b
    BY ServingType DEF handleIdPResponse
<1>3. PICK t \in at..now :
        \/ renderExpired(w, expireIfNeeded(copy, t))
        \/ renderResult(w)
        \/ \E login \in 0..Len(draws), name \in Names \cup {None} :
             bindLogin(w, login, name, t)
    BY <1>1 DEF handleIdPResponse, Exchange
<1>4. CASE renderExpired(w, expireIfNeeded(copy, t))
    BY <1>1, <1>4, ExpiredProvenance DEF handleIdPResponse
<1>5. CASE renderResult(w)
    BY <1>5, RefusedProvenance
<1>6. ASSUME NEW login \in 0..Len(draws), NEW name \in Names \cup {None},
             bindLogin(w, login, name, t)
      PROVE  Provenance'
    <2>1. PICK n \in Nat \ {0} : n = Len(draws) + 1
        BY DEF TypeOK
    <2>2. /\ name \in Names
          /\ login # NoToken
          /\ login = copy.idpState
        BY <1>1, <1>6 DEF bindLogin, CompleteLogin
    <2> DEFINE res == bindIdentity(copy, name, t, n)
    <2>0. BindReturns(res, copy, name, t, n)
        BY <1>1, <2>2, BindCases
    <2>3. PICK rec \in SessionRec : rec = res.sess
        BY <1>1, <2>2, BindType
    <2>4. PICK outcome \in UpdateOutcomes : Update(s, rec, outcome)
        BY <1>1, <1>6, <2>1, <2>3 DEF bindLogin, Save
    <2>5. ServedTraced' /\ StartedBefore'
        BY <1>6, ReplyKeeps DEF bindLogin
    <2>6. CASE res.err = "nil"
        <3>1. PICK d \in Draw :
                d = [kind |-> "bind", sess |-> s, browser |-> b,
                     name |-> name, login |-> login]
            <4>1. Len(draws) \in Nat
                BY DEF TypeOK
            <4>2. login \in Nat
                BY <4>1
            <4> QED BY <4>2 DEF Draw
        <3>2. /\ draws' = Append(draws, d)
              /\ SetCookies(b, [browser[b] EXCEPT !.secret = n])
            BY <1>1, <1>2, <1>6, <2>1, <2>6, <3>1 DEF bindLogin
        <3>3. /\ Len(draws') = n
              /\ draws'[n] = d
            BY <2>1, <3>2, AppendDraw
        <3>4. IsLogin(s, login)'
            BY <1>1, <2>2 DEF Traced
        <3>5. IsBind(s, n)' /\ draws'[n].name = name
            BY <3>1, <3>3, <3>4 DEF IsBind
        <3>6. /\ copy.state = "pending"
              /\ t <= ExpiresAt(copy)
              /\ identityMatches(copy, name)
              /\ rec = awaitApproval([copy EXCEPT !.identity = name, !.identityAt = t], n)
            <4> HIDE DEF res
            <4> QED BY <2>0, <2>3, <2>6 DEF BindReturns
        <3>7. Traced(s, rec)'
            BY <1>1, <2>2, <3>5, <3>6, BindTraced
        <3>8. StoredTraced'
            BY <2>4, <3>7, UpdateTraced DEF Provenance
        <3>9. OwnSecret(b, n)'
            BY <3>1, <3>3 DEF OwnSecret
        <3>10. JarsOwn'
            <4> SUFFICES ASSUME NEW x \in Browsers
                         PROVE  OwnSecret(x, browser[x].secret)'
                BY DEF JarsOwn
            <4>1. \/ browser'[x].secret = browser[x].secret
                  \/ x = b /\ browser'[x].secret = n
                BY <3>2 DEF SetCookies, TypeOK
            <4>2. CASE browser'[x].secret = browser[x].secret
                <5>1. PICK m \in Nat : m = browser[x].secret /\ OwnSecret(x, m)
                    BY DEF TypeOK, Provenance, JarsOwn
                <5>2. OwnSecret(x, m)'
                    BY <5>1, OwnSecretGrows
                <5> QED BY <4>2, <5>1, <5>2 DEF OwnSecret
            <4>3. CASE x = b /\ browser'[x].secret = n
                BY <4>3, <3>9 DEF OwnSecret
            <4> QED BY <4>1, <4>2, <4>3
        <3> QED BY <2>5, <3>8, <3>10 DEF Provenance
    <2>7. CASE res.err = "ErrIdentityMismatch"
        <3>1. /\ copy.state = "pending"
              /\ rec = [[copy EXCEPT !.identity = name, !.identityAt = t]
                          EXCEPT !.state = "denied"]
            <4> HIDE DEF res
            <4> QED BY <2>0, <2>3, <2>7 DEF BindReturns
        <3>2. Traced(s, rec)'
            BY <1>1, <2>2, <3>1, MismatchTraced
        <3>3. StoredTraced'
            BY <2>4, <3>2, UpdateTraced DEF Provenance
        <3>4. browser' = browser
            <4>1. res.err # "nil"
                BY <2>7
            <4> QED BY <1>1, <1>6, <2>1, <4>1 DEF bindLogin
        <3>5. JarsOwn'
            BY <3>4, JarsKept DEF Provenance
        <3> QED BY <2>5, <3>3, <3>5 DEF Provenance
    <2>8. res.err = "nil" \/ res.err = "ErrIdentityMismatch"
        BY <1>1, <1>6, <2>1 DEF bindLogin
    <2> QED BY <2>6, <2>7, <2>8
<1>7. QED
    BY <1>3, <1>4, <1>5, <1>6

\* handleApprove saves "approved" only with the grant that justifies it.
LEMMA ApproveProvenance ==
    ASSUME TypeOK, TypeOK', Provenance, Grows, NEW w \in Workers,
           handleApprove(w)
    PROVE  Provenance'
<1>1. PICK s \in Sessions, copy \in SessionRec, at \in Nat, secret \in Nat :
        /\ reqs[w].sess = s
        /\ reqs[w].copy = copy
        /\ reqs[w].at = at
        /\ reqs[w].secret = secret
        /\ Traced(s, copy)
        /\ Traced(s, copy)'
        /\ \A t \in at..now : t \in Nat
    BY ServingValues DEF handleApprove
<1>2. PICK b \in Browsers : reqs[w].browser = b
    BY ServingType DEF handleApprove
<1>3. PICK form \in 0..Len(draws) :
        \/ renderResult(w)
        \/ /\ csrfOK(copy, form)
           /\ \E code \in TypedCodes, d \in BOOLEAN, t \in at..now :
                decide(w, form, code, d, t)
    BY <1>1 DEF handleApprove
<1>4. CASE renderResult(w)
    BY <1>4, RefusedProvenance
<1>5. ASSUME csrfOK(copy, form), NEW code \in TypedCodes, NEW d \in BOOLEAN,
             NEW t \in at..now, decide(w, form, code, d, t)
      PROVE  Provenance'
    <2> DEFINE res == approve(copy, code, d, t, secret)
    <2>1. t \in Nat
        BY <1>1
    <2>0. ApproveReturns(res, copy, code, t, secret)
        BY <2>1, ApproveCases
    <2>2. PICK rec \in SessionRec : rec = res.sess
        BY <1>1, <2>1, ApproveType
    <2>3. PICK outcome \in UpdateOutcomes : Update(s, rec, outcome)
        BY <1>1, <1>5, <2>2 DEF decide, Save
    <2>4. ServedTraced' /\ StartedBefore'
        BY <1>5, ReplyKeeps DEF decide
    <2>5. browser' = browser /\ draws' = draws
        BY <1>5 DEF decide
    <2>6. JarsOwn'
        BY <2>5, JarsKept DEF Provenance
    <2>7. Traced(s, rec)'
        <3>1. CASE res.err \notin {"nil", "incorrect code"}
            <4>1. rec = expireIfNeeded(copy, t)
                <5> HIDE DEF res
                <5> QED BY <2>0, <2>2, <3>1 DEF ApproveReturns
            <4>2. Traced(s, rec)
                BY <1>1, <2>1, <4>1, ExpireTraced
            <4> QED BY <4>2, TracedGrows
        <3>2. CASE res.err \in {"nil", "incorrect code"}
            <4>1. /\ copy.state = "awaiting_approval"
                  /\ boundTo(copy, secret)
                <5> HIDE DEF res
                <5> QED BY <2>0, <3>2 DEF ApproveReturns
            <4>2. PICK k \in Nat, st \in {"awaiting_approval", "approved", "denied"} :
                    /\ rec = [copy EXCEPT !.approveAttempts = k, !.state = st]
                    /\ st = "approved" =>
                         res.err = "nil" /\ codesEqual(code, copy.userCode)
                <5> HIDE DEF res
                <5> QED BY <2>0, <2>2, <3>2 DEF ApproveReturns
            <4>3. ASSUME st = "approved"
                  PROVE  Granted(s, copy)'
                <5>1. res.sess.state = "approved" /\ res.err = "nil"
                    <6>1. rec.state = st
                        BY <4>2 DEF SessionRec
                    <6> QED BY <2>2, <4>2, <4>3, <6>1
                <5> DEFINE g == [form |-> form, browser |-> b, code |-> code]
                <5>2. grants' = [grants EXCEPT ![s] = @ \cup {g}]
                    BY <1>1, <1>2, <1>5, <5>1 DEF decide
                <5>3. g \in grants'[s]
                    BY <5>2 DEF TypeOK
                <5>4. form = copy.csrfToken /\ copy.csrfToken # NoToken
                    BY <1>5 DEF csrfOK, constantTimeStringEqual
                <5>5. /\ copy.approvalBindingHash = hashBinding(copy.csrfToken)
                      /\ hashBinding(secret) = copy.approvalBindingHash
                    BY <1>1, <4>1, <5>4 DEF Traced, SignedIn, boundTo
                <5>6. secret = copy.csrfToken
                    BY <5>5 DEF hashBinding
                <5>7. OwnSecret(b, secret)
                    BY <1>1, <1>2, ServingTraced DEF handleApprove
                <5>8. draws'[copy.csrfToken].browser = b
                    BY <2>5, <5>4, <5>6, <5>7 DEF OwnSecret
                <5>9. codesEqual(code, copy.userCode)
                    BY <4>2, <4>3
                <5> QED BY <5>3, <5>4, <5>8, <5>9 DEF Granted
            <4> QED BY <1>1, <4>1, <4>2, <4>3, DecideTraced
        <3> QED BY <3>1, <3>2
    <2>8. StoredTraced'
        BY <2>3, <2>7, UpdateTraced DEF Provenance
    <2> QED BY <2>4, <2>6, <2>8 DEF Provenance
<1>6. QED
    BY <1>3, <1>4, <1>5

\* handlePoll saves the consumed mark only with a release.
LEMMA PollProvenance ==
    ASSUME TypeOK, TypeOK', Provenance, Grows, NEW w \in Workers,
           handlePoll(w)
    PROVE  Provenance'
<1>1. PICK s \in Sessions, copy \in SessionRec, at \in Nat, secret \in Nat :
        /\ reqs[w].sess = s
        /\ reqs[w].copy = copy
        /\ reqs[w].at = at
        /\ Traced(s, copy)
        /\ Traced(s, copy)'
        /\ \A t \in at..now : t \in Nat
    BY ServingValues DEF handlePoll
<1>2. PICK verifier \in Verifiers \cup {None}, t \in at..now :
        LET res == poll(copy, verifier, t)
        IN  /\ \E outcome \in UpdateOutcomes : Update(s, res.sess, outcome)
            /\ \E o : Reply(w, o)
            /\ uses' = [uses EXCEPT ![s] =
                          IF res.status = "approved" THEN Count(@, MaxUses) ELSE @]
    BY <1>1 DEF handlePoll, Save
<1> DEFINE res == poll(copy, verifier, t)
<1>3. t \in Nat
    BY <1>1
<1>0. PollReturns(res, copy, verifier, t)
    BY <1>3, PollCases
<1>4. PICK rec \in SessionRec : rec = res.sess
    BY <1>3, PollType
<1>5. PICK outcome \in UpdateOutcomes : Update(s, rec, outcome)
    BY <1>2, <1>4
<1>6. ServedTraced' /\ StartedBefore'
    BY <1>2, ReplyKeeps
<1>7. JarsOwn'
    BY JarsKept DEF handlePoll, Provenance
<1>8. Traced(s, rec)'
    <2>1. CASE res.status = "approved"
        <3>1. copy.state = "approved" /\ rec = consume(copy)
            <4> HIDE DEF res
            <4> QED BY <1>0, <1>4, <2>1 DEF PollReturns
        <3>2. uses'[s] = Count(uses[s], MaxUses)
            BY <1>2, <2>1 DEF TypeOK
        <3>3. uses[s] \in Nat /\ MaxUses \in Nat \ {0}
            BY MaximaType, EnvironmentAssumption DEF TypeOK
        <3>4. uses'[s] > 0
            BY <3>2, <3>3 DEF Count
        <3> QED BY <1>1, <1>3, <3>1, <3>4, PollTraced
    <2>2. CASE res.status # "approved"
        <3>1. PICK e \in SessionRec : e = expireIfNeeded(copy, t)
            BY <1>3, ExpireType
        <3>2. rec = e \/ rec = [e EXCEPT !.lastPollAt = t]
            <4> HIDE DEF res
            <4> QED BY <1>0, <1>4, <2>2, <3>1 DEF PollReturns
        <3>3. Traced(s, e)
            BY <1>1, <1>3, <3>1, ExpireTraced
        <3>4. Traced(s, e)'
            BY <3>3, TracedGrows
        <3> QED BY <1>3, <3>2, <3>4, PollTraced
    <2> QED BY <2>1, <2>2
<1>9. StoredTraced'
    BY <1>5, <1>8, UpdateTraced DEF Provenance
<1>10. QED BY <1>6, <1>7, <1>9 DEF Provenance

\* A request takes a copy of a stored session, and its browser's secret.
LEMMA BeginProvenance ==
    ASSUME TypeOK, TypeOK', Provenance, Grows, NEW w \in Workers, NEW op,
           NEW s \in Sessions, NEW b, NEW secret, OwnSecret(b, secret),
           Begin(w, op, s, b, secret)
    PROVE  Provenance'
<1>1. /\ store' = store
      /\ browser' = browser
      /\ started' = started
      /\ now' = now
    BY DEF Begin, historyVars
<1>2. StoredTraced' /\ StartedBefore' /\ JarsOwn'
    BY <1>1, KeptTraced, StartedKept, JarsKept DEF Provenance
<1>3. PICK copy \in SessionRec : copy = store[s] /\ Traced(s, copy)
    BY DEF Begin, TypeOK, Provenance, StoredTraced
<1>4. PICK at \in Nat : at = now
    BY DEF TypeOK
<1>5. copy.createdAt <= at
    BY <1>3, <1>4 DEF Traced, SameStart, Provenance, StartedBefore
<1>6. Traced(s, copy)' /\ OwnSecret(b, secret)'
    BY <1>3, TracedGrows, OwnSecretGrows
<1>7. ServedTraced'
    <2> SUFFICES ASSUME NEW x \in Workers, reqs'[x] # None
                 PROVE  /\ Traced(reqs[x].sess, reqs[x].copy)'
                        /\ reqs'[x].copy.createdAt <= reqs'[x].at
                        /\ reqs'[x].at <= now'
                        /\ OwnSecret(reqs[x].browser, reqs[x].secret)'
        BY DEF ServedTraced
    <2>1. CASE x # w
        <3>1. reqs'[x] = reqs[x]
            BY <2>1 DEF Begin, TypeOK
        <3> QED BY <3>1, ServedGrows DEF Provenance
    <2>2. CASE x = w
        <3>1. reqs'[x] = [op |-> op, sess |-> s, copy |-> copy, at |-> at,
                          browser |-> b, secret |-> secret]
            BY <1>3, <1>4, <2>2 DEF Begin, TypeOK
        <3>2. /\ reqs'[x].sess = s
              /\ reqs'[x].copy = copy
              /\ reqs'[x].at = at
              /\ reqs'[x].browser = b
              /\ reqs'[x].secret = secret
            BY <3>1
        <3>3. Traced(reqs[x].sess, reqs[x].copy)'
            BY <1>6, <3>2
            DEF Traced, SameStart, SignedIn, IsBind, IsLogin, Granted,
                identityMatches, ExpiresAt
        <3>4. OwnSecret(reqs[x].browser, reqs[x].secret)'
            BY <1>6, <3>2 DEF OwnSecret
        <3> QED BY <1>1, <1>4, <1>5, <3>2, <3>3, <3>4
    <2> QED BY <2>1, <2>2
<1>8. QED BY <1>2, <1>7 DEF Provenance

\* Every way for a request to begin keeps Provenance.
LEMMA ArriveProvenance ==
    ASSUME TypeOK, TypeOK', Provenance, Grows, NEW w \in Workers, Arrive(w)
    PROVE  Provenance'
<1>1. OwnSecret(None, NoToken)
    BY DEF OwnSecret
<1>2. \A b \in Browsers : OwnSecret(b, NoToken) /\ OwnSecret(b, browser[b].secret)
    BY DEF OwnSecret, Provenance, JarsOwn
<1>3. \A b \in Browsers : browser[b].cookie \in Sessions \cup {None}
    BY DEF TypeOK
<1>4. ASSUME NEW b \in Browsers, NEW s \in Sessions, BeginVerify(w, b, s)
      PROVE  Provenance'
    BY <1>2, <1>4, BeginProvenance DEF BeginVerify
<1>5. ASSUME NEW b \in Browsers, BeginCallback(w, b)
      PROVE  Provenance'
    BY <1>2, <1>3, <1>5, BeginProvenance DEF BeginCallback
<1>6. ASSUME NEW b \in Browsers, BeginApprove(w, b)
      PROVE  Provenance'
    BY <1>2, <1>3, <1>6, BeginProvenance DEF BeginApprove
<1>7. ASSUME NEW s \in Sessions, BeginPoll(w, s)
      PROVE  Provenance'
    BY <1>1, <1>7, BeginProvenance DEF BeginPoll
<1>8. QED
    BY <1>4, <1>5, <1>6, <1>7 DEF Arrive

\* handleStart: the session as stored is the session as started.
LEMMA StartProvenance ==
    ASSUME TypeOK, TypeOK', Provenance, Grows, NEW s \in Sessions,
           NEW hint \in Names, NEW verifier \in Verifiers, NEW code \in UserCodes,
           handleStart(s, hint, verifier, code)
    PROVE  Provenance'
<1>1. /\ reqs' = reqs
      /\ browser' = browser
      /\ now' = now
    BY DEF handleStart
<1>2. ServedTraced' /\ JarsOwn'
    BY <1>1, ServedKept, JarsKept DEF Provenance
<1>3. PICK t \in Nat : t = now
    BY DEF TypeOK
<1>4. PICK rec \in SessionRec : rec = newSession(hint, S256(verifier), code, t)
    BY NewType
<1>5. /\ store' = [store EXCEPT ![s] = rec]
      /\ started' = [started EXCEPT ![s] = rec]
    BY <1>3, <1>4 DEF handleStart
<1>6. /\ rec.createdAt = t
      /\ rec.idpState = NoToken
      /\ rec.csrfToken = NoToken
      /\ rec.approvalBindingHash = None
      /\ rec.state = "pending"
      /\ rec.consumed = FALSE
    BY <1>4 DEF newSession
<1>7. rec # None
    BY <1>4, EnvironmentAssumption
<1>8. StartedBefore'
    <2> SUFFICES ASSUME NEW x \in Sessions, started'[x] # None
                 PROVE  started'[x].createdAt <= now'
        BY DEF StartedBefore
    <2>1. CASE x = s
        BY <1>1, <1>3, <1>5, <1>6, <2>1 DEF TypeOK
    <2>2. CASE x # s
        BY <1>1, <1>5, <2>2 DEF TypeOK, Provenance, StartedBefore
    <2> QED BY <2>1, <2>2
<1>9. StoredTraced'
    <2> SUFFICES ASSUME NEW x \in Sessions, store'[x] # None
                 PROVE  Traced(x, store[x])'
        BY DEF StoredTraced
    <2>1. CASE x # s
        <3>1. store'[x] = store[x]
            BY <1>5, <2>1 DEF TypeOK
        <3>2. PICK d \in SessionRec : d = store[x] /\ Traced(x, d)
            BY <3>1 DEF TypeOK, Provenance, StoredTraced
        <3>3. Traced(x, d)'
            BY <3>2, TracedGrows
        <3> QED
            BY <3>1, <3>2, <3>3
            DEF Traced, SameStart, SignedIn, IsBind, IsLogin, Granted,
                identityMatches, ExpiresAt
    <2>2. CASE x = s
        <3>1. store'[x] = rec /\ started'[x] = rec
            BY <1>5, <2>2 DEF TypeOK
        <3> QED
            BY <1>6, <1>7, <3>1 DEF Traced, SameStart
    <2> QED BY <2>1, <2>2
<1>10. QED BY <1>2, <1>8, <1>9 DEF Provenance

\* The steps that begin and end no request, but for a restart, and start none.
LEMMA QuietProvenance ==
    ASSUME TypeOK, TypeOK', Provenance, Grows,
           \A s \in Sessions : store'[s] \in {store[s], None},
           \A w \in Workers : reqs'[w] \in {reqs[w], None},
           browser' = browser, started' = started
    PROVE  Provenance'
BY KeptTraced, ServedKept, JarsKept, StartedKept DEF Provenance

\* Nothing is stored, served or held at first.
LEMMA ProvenanceInit == Init => Provenance
BY DEF Init, Provenance, StoredTraced, StartedBefore, ServedTraced, JarsOwn,
       OwnSecret

\* Provenance is inductive, given the types.
LEMMA ProvenanceNext == TypeOK /\ TypeOK' /\ Provenance /\ [Next]_vars => Provenance'
<1> SUFFICES ASSUME TypeOK, TypeOK', Provenance, [Next]_vars
             PROVE  Provenance'
    OBVIOUS
<1>1. Grows
    BY NextGrows
<1>2. CASE Start
    BY <1>1, <1>2, StartProvenance DEF Start
<1>3. CASE startRefused \/ notFound \/ Tick \/ UNCHANGED vars
    <2>1. UNCHANGED <<store, reqs, browser, started>>
        BY <1>3 DEF startRefused, notFound, Tick, vars, historyVars
    <2> QED BY <1>1, <2>1, QuietProvenance
<1>4. CASE Sweep
    <2>1. /\ \A s \in Sessions : store'[s] \in {store[s], None}
          /\ UNCHANGED <<reqs, browser, started>>
        BY <1>4 DEF Sweep, historyVars
    <2> QED BY <1>1, <2>1, QuietProvenance
<1>5. CASE Crash
    <2>1. /\ \A s \in Sessions : store'[s] \in {store[s], None}
          /\ \A w \in Workers : reqs'[w] \in {reqs[w], None}
          /\ UNCHANGED <<browser, started>>
        BY <1>5 DEF Crash, historyVars
    <2> QED BY <1>1, <2>1, QuietProvenance
<1>6. ASSUME NEW w \in Workers, Arrive(w)
      PROVE  Provenance'
    BY <1>1, <1>6, ArriveProvenance
<1>7. ASSUME NEW w \in Workers, Serve(w)
      PROVE  Provenance'
    BY <1>1, <1>7, VerifyProvenance, CallbackProvenance, ApproveProvenance,
       PollProvenance DEF Serve
<1>8. QED
    BY <1>2, <1>3, <1>4, <1>5, <1>6, <1>7 DEF Next

\* Every stored session, and every copy a handler works on, is traced to the
\* start, the sign-in and the approval it claims (handlers.go, session.go),
\* whichever requests overlap, whatever is lost and whenever the broker crashes.
THEOREM ProvenanceHolds == Spec => []Provenance
BY TypeCorrect, ProvenanceInit, ProvenanceNext, PTL DEF Spec

-----------------------------------------------------------------------------
(* What the broker lets out is right: consequences of Provenance at the    *)
(* step that answers.                                                      *)

\* Only a handler that answers releases an artifact, shows the approval page
\* or decides.
Quiet(o) == o.artifact = None /\ o.shown = None /\ o.decision = None

\* Steps other than the end of a handler are quiet.
LEMMA OnlyServeSpeaks ==
    ASSUME Next
    PROVE  Quiet(out') \/ \E w \in Workers : Serve(w)
<1>1. Quiet(Silent) /\ Quiet([Silent EXCEPT !.event = "repeated_start"])
    BY DEF Quiet, Silent
<1>2. ASSUME NEW w \in Workers, Arrive(w)
      PROVE  Quiet(out')
    BY <1>1, <1>2
    DEF Arrive, BeginVerify, BeginCallback, BeginApprove, BeginPoll, Begin
<1>3. Start => Quiet(out')
    BY <1>1 DEF Start, handleStart
<1>4. startRefused \/ notFound \/ Sweep \/ Tick \/ Crash => Quiet(out')
    BY <1>1 DEF startRefused, notFound, Sweep, Tick, Crash
<1>5. QED
    BY <1>2, <1>3, <1>4 DEF Next

-----------------------------------------------------------------------------
(* The artifact.                                                           *)

\* Only handlePoll releases an artifact.
LEMMA OnlyPollReleases ==
    ASSUME Next, out'.artifact # None
    PROVE  \E w \in Workers : handlePoll(w)
<1>1. PICK w \in Workers : Serve(w)
    BY OnlyServeSpeaks DEF Quiet
<1>2. ~handleVerify(w)
    <2> SUFFICES ASSUME handleVerify(w) PROVE FALSE
        OBVIOUS
    <2>1. \E sess : \/ renderExpired(w, sess)
                    \/ resumeApproval(w, sess)
                    \/ beginIdPLogin(w, sess)
                    \/ verifyRefused(w, sess)
        BY DEF handleVerify
    <2> QED
        BY <2>1 DEF renderExpired, resumeApproval, beginIdPLogin, verifyRefused,
                    renderResult, Reply, Silent
<1>3. ~handleIdPResponse(w)
    <2> SUFFICES ASSUME handleIdPResponse(w) PROVE FALSE
        OBVIOUS
    <2>1. \/ renderResult(w)
          \/ \E sess : renderExpired(w, sess)
          \/ \E login, name, t : bindLogin(w, login, name, t)
        BY DEF handleIdPResponse
    <2>2. CASE renderResult(w) \/ \E sess : renderExpired(w, sess)
        BY <2>2 DEF renderExpired, renderResult, Reply, Silent
    <2>3. ASSUME NEW login, NEW name, NEW t, bindLogin(w, login, name, t)
          PROVE  FALSE
        <3>1. \/ \E pg : out' = [Silent EXCEPT !.shown = pg]
              \/ out' = [Silent EXCEPT !.event = "identity_mismatch"]
            BY <2>3 DEF bindLogin, Reply
        <3> QED BY <3>1 DEF Silent
    <2> QED BY <2>1, <2>2, <2>3
<1>4. ~handleApprove(w)
    <2> SUFFICES ASSUME handleApprove(w) PROVE FALSE
        OBVIOUS
    <2>1. \/ renderResult(w)
          \/ \E form, code, d, t : decide(w, form, code, d, t)
        BY DEF handleApprove
    <2>2. CASE renderResult(w)
        BY <2>2 DEF renderResult, Reply, Silent
    <2>3. ASSUME NEW form, NEW code, NEW d, NEW t, decide(w, form, code, d, t)
          PROVE  FALSE
        <3>1. \E ev, dec, pg : out' = [Silent EXCEPT !.event = ev, !.decision = dec,
                                                      !.shown = pg]
            BY <2>3 DEF decide, Reply
        <3> QED BY <3>1 DEF Silent
    <2> QED BY <2>1, <2>2, <2>3
<1>5. QED
    BY <1>1, <1>2, <1>3, <1>4 DEF Serve

\* What is released is the identity of an approved copy, against its PKCE
\* challenge; the copy is traced to the start, the sign-in and the approval.
LEMMA ReleaseTraced ==
    ASSUME TypeOK, TypeOK', Provenance, Next,
           out'.artifact # None
    PROVE  \E s \in Sessions, copy \in SessionRec,
                verifier \in Verifiers \cup {None} :
             /\ Traced(s, copy)'
             /\ copy.state = "approved"
             /\ verifyClientPKCE(verifier, copy.challenge)
             /\ out'.artifact.sess = s
             /\ out'.artifact.verifier = verifier
             /\ out'.artifact.identity = copy.identity
             /\ out'.artifact.approvedAt = copy.identityAt
<1>1. PICK w \in Workers : handlePoll(w)
    BY OnlyPollReleases
<1>2. PICK s \in Sessions, copy \in SessionRec, at \in Nat, secret \in Nat :
        /\ reqs[w].sess = s
        /\ reqs[w].copy = copy
        /\ reqs[w].at = at
        /\ Traced(s, copy)'
        /\ \A t \in at..now : t \in Nat
    BY <1>1, NextGrows, ServingValues DEF handlePoll
<1>3. PICK verifier \in Verifiers \cup {None}, t \in at..now :
        LET res == poll(copy, verifier, t)
            a == Artifact(res.sess)
            release == [sess |-> s, verifier |-> verifier,
                        identity |-> a.identity,
                        approvedAt |-> a.approvedAt,
                        expiresAt |-> a.expiresAt, at |-> t]
        IN  out' = [Silent EXCEPT
                      !.event = IF copy.consumed /\ res.status = "expired"
                                THEN "consumed_replay" ELSE None,
                      !.artifact = IF res.status = "approved"
                                   THEN release ELSE None]
    BY <1>1, <1>2 DEF handlePoll, Reply
<1> DEFINE res == poll(copy, verifier, t)
<1>4. t \in Nat
    BY <1>2
<1>5. PollReturns(res, copy, verifier, t)
    BY <1>4, PollCases
<1> HIDE DEF res
<1>6. /\ res.status = "approved"
      /\ out'.artifact = [sess |-> s, verifier |-> verifier,
                          identity |-> Artifact(res.sess).identity,
                          approvedAt |-> Artifact(res.sess).approvedAt,
                          expiresAt |-> Artifact(res.sess).expiresAt, at |-> t]
    BY <1>3 DEF Silent, res
<1>7. /\ copy.state = "approved"
      /\ verifyClientPKCE(verifier, copy.challenge)
      /\ res.sess = consume(copy)
    BY <1>5, <1>6 DEF PollReturns
<1>8. /\ Artifact(res.sess).identity = copy.identity
      /\ Artifact(res.sess).approvedAt = copy.identityAt
    BY <1>7 DEF Artifact, consume, SessionRec
<1>9. QED
    BY <1>2, <1>6, <1>7, <1>8

\* Every step keeps the two properties of a released artifact.
LEMMA ReleaseStep ==
    ASSUME TypeOK, TypeOK', Provenance, [Next]_vars,
           ReleaseJustified, SignInWithinLifetime
    PROVE  ReleaseJustified' /\ SignInWithinLifetime'
<1>1. CASE UNCHANGED vars
    BY <1>1 DEF vars, ReleaseJustified, SignInWithinLifetime
<1>2. CASE Next
    <2> SUFFICES ASSUME out'.artifact # None
                 PROVE  ReleaseJustified' /\ SignInWithinLifetime'
        BY DEF ReleaseJustified, SignInWithinLifetime
    <2>1. PICK s \in Sessions, copy \in SessionRec,
                verifier \in Verifiers \cup {None} :
             /\ Traced(s, copy)'
             /\ copy.state = "approved"
             /\ verifyClientPKCE(verifier, copy.challenge)
             /\ out'.artifact.sess = s
             /\ out'.artifact.verifier = verifier
             /\ out'.artifact.identity = copy.identity
             /\ out'.artifact.approvedAt = copy.identityAt
        BY <1>2, ReleaseTraced
    <2>2. SignedIn(s, copy)' /\ Granted(s, copy)' /\ SameStart(copy, started'[s])
        BY <2>1 DEF Traced
    <2>3. PICK g \in grants'[s] :
            /\ g.form = copy.csrfToken
            /\ g.browser = draws'[copy.csrfToken].browser
            /\ codesEqual(g.code, copy.userCode)
        BY <2>2 DEF Granted
    <2>4. ReleaseJustified'
        BY <2>1, <2>2, <2>3
        DEF ReleaseJustified, SignedIn, IsBind, IsLogin, SameStart,
            identityMatches, verifyClientPKCE
    <2>5. SignInWithinLifetime'
        BY <2>1, <2>2 DEF SignInWithinLifetime, SignedIn, SameStart, ExpiresAt
    <2> QED BY <2>4, <2>5
<1>3. QED
    BY <1>1, <1>2

\* No artifact is out at first.
LEMMA ReleaseInit == Init => ReleaseJustified /\ SignInWithinLifetime
BY DEF Init, ReleaseJustified, SignInWithinLifetime, Silent

\* The four checks end to end: no artifact leaves handlePoll without the PKCE
\* verifier of its client, an approval with its user code from the browser that
\* signed in, and a sign-in for this session as the hinted identity.
THEOREM ReleaseIsJustified == Spec => []ReleaseJustified
<1>1. Init => ReleaseJustified /\ SignInWithinLifetime
    BY ReleaseInit
<1>2. /\ TypeOK /\ TypeOK' /\ Provenance /\ [Next]_vars
      /\ ReleaseJustified /\ SignInWithinLifetime
      => ReleaseJustified' /\ SignInWithinLifetime'
    BY ReleaseStep
<1>3. QED
    BY <1>1, <1>2, TypeCorrect, ProvenanceHolds, PTL DEF Spec

\* The sign-in behind every released artifact fell within the session's
\* lifetime (handleIdPResponse, bindIdentity).
THEOREM SignInIsTimely == Spec => []SignInWithinLifetime
<1>1. Init => ReleaseJustified /\ SignInWithinLifetime
    BY ReleaseInit
<1>2. /\ TypeOK /\ TypeOK' /\ Provenance /\ [Next]_vars
      /\ ReleaseJustified /\ SignInWithinLifetime
      => ReleaseJustified' /\ SignInWithinLifetime'
    BY ReleaseStep
<1>3. QED
    BY <1>1, <1>2, TypeCorrect, ProvenanceHolds, PTL DEF Spec

-----------------------------------------------------------------------------
(* Decisions and pages.                                                    *)

\* What a submitted form that passed the CSRF check did: it named the token of
\* a sign-in for its session; if it decided, its browser made that sign-in.
LEMMA DecideAnswers ==
    ASSUME TypeOK, TypeOK', Provenance, Next, NEW w \in Workers, handleApprove(w)
    PROVE  \/ out' = Silent
           \/ \E s \in Sessions, b \in Browsers, form \in Nat :
                /\ IsBind(s, form)'
                /\ out'.shown # None =>
                     out'.shown.form = form /\ out'.shown.echo
                /\ out'.decision # None =>
                     /\ out'.decision.sess = s
                     /\ out'.decision.browser = b
                     /\ out'.decision.form = form
                     /\ draws'[form].browser = b
<1>1. PICK s \in Sessions, copy \in SessionRec, at \in Nat, secret \in Nat :
        /\ reqs[w].sess = s
        /\ reqs[w].copy = copy
        /\ reqs[w].at = at
        /\ reqs[w].secret = secret
        /\ Traced(s, copy)'
        /\ \A t \in at..now : t \in Nat
    BY NextGrows, ServingValues DEF handleApprove
<1>2. PICK b \in Browsers : reqs[w].browser = b /\ OwnSecret(b, secret)
    BY <1>1, ServingType, ServingTraced DEF handleApprove
<1>3. PICK form \in 0..Len(draws) :
        \/ renderResult(w)
        \/ /\ csrfOK(copy, form)
           /\ \E code \in TypedCodes, d \in BOOLEAN, t \in at..now :
                decide(w, form, code, d, t)
    BY <1>1 DEF handleApprove
<1>4. CASE renderResult(w)
    BY <1>4 DEF renderResult, Reply
<1>5. ASSUME csrfOK(copy, form), NEW code \in TypedCodes, NEW d \in BOOLEAN,
             NEW t \in at..now, decide(w, form, code, d, t)
      PROVE  \E f \in Nat :
                /\ IsBind(s, f)'
                /\ out'.shown # None =>
                     out'.shown.form = f /\ out'.shown.echo
                /\ out'.decision # None =>
                     /\ out'.decision.sess = s
                     /\ out'.decision.browser = b
                     /\ out'.decision.form = f
                     /\ draws'[f].browser = b
    <2> DEFINE res == approve(copy, code, d, t, secret)
               wrong == res.err = "incorrect code"
               decision == [sess |-> s, browser |-> b, form |-> form,
                            wrong |-> wrong]
               page == [browser |-> b, echo |-> TRUE, form |-> res.sess.csrfToken]
    <2>1. form = copy.csrfToken /\ copy.csrfToken # NoToken /\ form \in Nat
        BY <1>5 DEF csrfOK, constantTimeStringEqual, SessionRec
    <2>2. SignedIn(s, copy)'
        BY <1>1, <2>1 DEF Traced
    <2>3. IsBind(s, form)'
        BY <2>1, <2>2 DEF SignedIn
    <2>4. ApproveReturns(res, copy, code, t, secret)
        BY <1>1, ApproveCases
    <2>5. draws' = draws
        BY <1>5 DEF decide
    <2>6. \E ev :
            out' = [Silent EXCEPT
                      !.event = ev,
                      !.decision = IF res.err \in {"nil", "incorrect code"}
                                   THEN decision ELSE None,
                      !.shown = IF wrongCodeObserved(res) THEN page ELSE None]
        BY <1>1, <1>2, <1>5 DEF decide, Reply
    <2> HIDE DEF res
    <2>7. res.sess.csrfToken = copy.csrfToken
        <3>1. CASE res.err \in {"nil", "incorrect code"}
            <4>1. PICK k \in Nat, st \in States :
                    res.sess = [copy EXCEPT !.approveAttempts = k, !.state = st]
                BY <2>4, <3>1 DEF ApproveReturns, States
            <4> QED BY <4>1 DEF SessionRec
        <3>2. CASE res.err \notin {"nil", "incorrect code"}
            <4>1. res.sess = expireIfNeeded(copy, t)
                BY <2>4, <3>2 DEF ApproveReturns
            <4> QED BY <4>1 DEF expireIfNeeded, SessionRec
        <3> QED BY <3>1, <3>2
    <2>8. out'.shown # None => out'.shown.form = form /\ out'.shown.echo
        <3>1. out'.shown # None => out'.shown = page
            BY <2>6 DEF Silent
        <3> QED BY <2>1, <2>7, <3>1
    <2>9. ASSUME out'.decision # None
          PROVE  /\ out'.decision.sess = s
                 /\ out'.decision.browser = b
                 /\ out'.decision.form = form
                 /\ draws'[form].browser = b
        <3>1. res.err \in {"nil", "incorrect code"} /\ out'.decision = decision
            BY <2>6, <2>9 DEF Silent
        <3>2. boundTo(copy, secret)
            BY <2>4, <3>1 DEF ApproveReturns
        <3>3. secret = form
            BY <2>1, <2>2, <3>2 DEF boundTo, SignedIn, hashBinding
        <3>4. draws'[form].browser = b
            BY <1>2, <2>1, <2>5, <3>3 DEF OwnSecret
        <3>5. /\ decision.sess = s
              /\ decision.browser = b
              /\ decision.form = form
            <4> HIDE DEF wrong
            <4> QED OBVIOUS
        <3> QED BY <3>1, <3>4, <3>5
    <2> QED BY <2>1, <2>3, <2>8, <2>9
<1>6. QED
    BY <1>3, <1>4, <1>5

\* handleVerify and handleIdPResponse show the page to the browser whose
\* sign-in set its token; no other handler shows it, and none of them decides.
LEMMA PageAnswers ==
    ASSUME TypeOK, TypeOK', Provenance, Next, NEW w \in Workers,
           handleVerify(w) \/ handleIdPResponse(w) \/ handlePoll(w)
    PROVE  /\ out'.decision = None
           /\ out'.shown # None => OwnSecret(out.shown.browser, out.shown.form)'
                                   /\ out'.shown.form # NoToken
<1>1. CASE handlePoll(w)
    <2>1. \E ev, a : out' = [Silent EXCEPT !.event = ev, !.artifact = a]
        BY <1>1 DEF handlePoll, Reply
    <2> QED BY <2>1 DEF Silent
<1>2. CASE handleIdPResponse(w)
    <2>1. \/ renderResult(w)
          \/ \E sess : renderExpired(w, sess)
          \/ \E login \in 0..Len(draws), name \in Names \cup {None}, t \in Nat :
               bindLogin(w, login, name, t)
        <3>1. \A t \in reqs[w].at..now : t \in Nat
            BY <1>2, ServingType DEF handleIdPResponse
        <3> QED BY <1>2, <3>1 DEF handleIdPResponse, Exchange
    <2>2. CASE renderResult(w) \/ \E sess : renderExpired(w, sess)
        BY <2>2 DEF renderExpired, renderResult, Reply, Silent
    <2>3. ASSUME NEW login \in 0..Len(draws), NEW name \in Names \cup {None},
                 NEW t \in Nat, bindLogin(w, login, name, t)
          PROVE  /\ out'.decision = None
                 /\ out'.shown # None => OwnSecret(out.shown.browser, out.shown.form)'
                                         /\ out'.shown.form # NoToken
        <3>1. PICK n \in Nat \ {0} : n = Len(draws) + 1
            BY DEF TypeOK
        <3>2. PICK s \in Sessions, b \in Browsers : reqs[w].sess = s /\ reqs[w].browser = b
            BY <1>2, ServingType DEF handleIdPResponse
        <3> DEFINE d == [kind |-> "bind", sess |-> s, browser |-> b,
                         name |-> name, login |-> login]
        <3>3. \/ /\ out' = [Silent EXCEPT !.shown =
                              [browser |-> b, form |-> n, echo |-> FALSE]]
                 /\ draws' = Append(draws, d)
              \/ out' = [Silent EXCEPT !.event = "identity_mismatch"]
            BY <2>3, <3>1, <3>2 DEF bindLogin, Reply
        <3>4. CASE out' = [Silent EXCEPT !.event = "identity_mismatch"]
            BY <3>4 DEF Silent
        <3>5. CASE /\ out' = [Silent EXCEPT !.shown =
                                [browser |-> b, form |-> n, echo |-> FALSE]]
                   /\ draws' = Append(draws, d)
            <4>1. login \in Nat
                <5>1. Len(draws) \in Nat
                    BY DEF TypeOK
                <5> QED BY <5>1
            <4>2. d \in Draw
                BY <4>1 DEF Draw
            <4>3. draws'[n] = d /\ Len(draws') = n
                BY <3>1, <3>5, <4>2, AppendDraw
            <4>4. out'.decision = None /\ out'.shown.browser = b /\ out'.shown.form = n
                BY <3>5 DEF Silent
            <4> QED BY <4>3, <4>4 DEF OwnSecret, NoToken
        <3> QED BY <3>3, <3>4, <3>5
    <2> QED BY <2>1, <2>2, <2>3
<1>3. CASE handleVerify(w)
    <2>1. PICK s \in Sessions, copy \in SessionRec, at \in Nat, secret \in Nat :
            /\ reqs[w].sess = s
            /\ reqs[w].copy = copy
            /\ reqs[w].at = at
            /\ reqs[w].secret = secret
            /\ Traced(s, copy)
            /\ \A t \in at..now : t \in Nat
        BY <1>3, NextGrows, ServingValues DEF handleVerify
    <2>2. PICK b \in Browsers : reqs[w].browser = b /\ OwnSecret(b, secret)
        BY <1>3, <2>1, ServingType, ServingTraced DEF handleVerify
    <2>3. PICK t \in at..now :
            LET sess == expireIfNeeded(copy, t)
            IN  \/ renderExpired(w, sess)
                \/ resumeApproval(w, sess)
                \/ beginIdPLogin(w, sess)
                \/ verifyRefused(w, sess)
        BY <1>3, <2>1 DEF handleVerify
    <2>4. PICK sess \in SessionRec : sess = expireIfNeeded(copy, t)
        BY <2>1, ExpireType
    <2>5. Traced(s, sess)
        BY <2>1, <2>4, ExpireTraced
    <2>6. CASE \/ renderExpired(w, sess)
               \/ beginIdPLogin(w, sess)
               \/ verifyRefused(w, sess)
        <3>1. out' = Silent
            BY <2>6 DEF renderExpired, beginIdPLogin, verifyRefused, renderResult, Reply
        <3> QED BY <3>1 DEF Silent
    <2>7. CASE resumeApproval(w, sess)
        <3>1. /\ out' = [Silent EXCEPT !.shown =
                           [browser |-> b, form |-> sess.csrfToken, echo |-> FALSE]]
              /\ sess.state = "awaiting_approval"
              /\ approvalBindingMatches(secret, sess)
              /\ draws' = draws
            BY <2>1, <2>2, <2>7 DEF resumeApproval, Reply
        <3>2. secret = sess.csrfToken /\ secret # NoToken
            BY <2>5, <3>1 DEF approvalBindingMatches, Traced, SignedIn, hashBinding
        <3>3. OwnSecret(b, secret)'
            BY <2>2, <3>1 DEF OwnSecret
        <3>4. /\ out'.decision = None
              /\ out'.shown.browser = b
              /\ out'.shown.form = secret
            BY <3>1, <3>2 DEF Silent
        <3> QED BY <3>2, <3>3, <3>4 DEF OwnSecret
    <2> QED BY <2>3, <2>4, <2>6, <2>7
<1>4. QED BY <1>1, <1>2, <1>3

\* Every step keeps the two properties of decisions and pages.
LEMMA BrowserStep ==
    ASSUME TypeOK, TypeOK', Provenance, [Next]_vars,
           DecisionOnDisplayedSession, PageOnlyToSignedInBrowser
    PROVE  DecisionOnDisplayedSession' /\ PageOnlyToSignedInBrowser'
<1>1. CASE UNCHANGED vars
    BY <1>1 DEF vars, DecisionOnDisplayedSession, PageOnlyToSignedInBrowser
<1>2. CASE Next /\ Quiet(out')
    BY <1>2 DEF Quiet, DecisionOnDisplayedSession, PageOnlyToSignedInBrowser
<1>3. ASSUME Next, NEW w \in Workers, handleApprove(w)
      PROVE  DecisionOnDisplayedSession' /\ PageOnlyToSignedInBrowser'
    <2>1. CASE out' = Silent
        BY <2>1 DEF Silent, DecisionOnDisplayedSession, PageOnlyToSignedInBrowser
    <2>2. CASE out' # Silent
        <3>1. PICK s \in Sessions, b \in Browsers, form \in Nat :
                /\ IsBind(s, form)'
                /\ out'.shown # None =>
                     out'.shown.form = form /\ out'.shown.echo
                /\ out'.decision # None =>
                     /\ out'.decision.sess = s
                     /\ out'.decision.browser = b
                     /\ out'.decision.form = form
                     /\ draws'[form].browser = b
            BY <1>3, <2>2, DecideAnswers
        <3> QED
            BY <3>1 DEF IsBind, DecisionOnDisplayedSession, PageOnlyToSignedInBrowser
    <2> QED BY <2>1, <2>2
<1>4. ASSUME Next, NEW w \in Workers,
             handleVerify(w) \/ handleIdPResponse(w) \/ handlePoll(w)
      PROVE  DecisionOnDisplayedSession' /\ PageOnlyToSignedInBrowser'
    BY <1>4, PageAnswers
    DEF OwnSecret, DecisionOnDisplayedSession, PageOnlyToSignedInBrowser
<1>5. QED
    BY <1>1, <1>2, <1>3, <1>4, OnlyServeSpeaks DEF Serve

\* No decision and no page is out at first.
LEMMA BrowserInit == Init => DecisionOnDisplayedSession /\ PageOnlyToSignedInBrowser
BY DEF Init, DecisionOnDisplayedSession, PageOnlyToSignedInBrowser, Silent

\* Approve and Deny act on the session of the clicked page, in the browser
\* that signed in for it (handleApprove).
THEOREM DecisionIsDisplayed == Spec => []DecisionOnDisplayedSession
<1>1. Init => DecisionOnDisplayedSession /\ PageOnlyToSignedInBrowser
    BY BrowserInit
<1>2. /\ TypeOK /\ TypeOK' /\ Provenance /\ [Next]_vars
      /\ DecisionOnDisplayedSession /\ PageOnlyToSignedInBrowser
      => DecisionOnDisplayedSession' /\ PageOnlyToSignedInBrowser'
    BY BrowserStep
<1>3. QED
    BY <1>1, <1>2, TypeCorrect, ProvenanceHolds, PTL DEF Spec

\* The approval page tells its token to the browser that signed in only
\* (handleVerify, handleIdPResponse, handleApprove).
THEOREM PageIsPrivate == Spec => []PageOnlyToSignedInBrowser
<1>1. Init => DecisionOnDisplayedSession /\ PageOnlyToSignedInBrowser
    BY BrowserInit
<1>2. /\ TypeOK /\ TypeOK' /\ Provenance /\ [Next]_vars
      /\ DecisionOnDisplayedSession /\ PageOnlyToSignedInBrowser
      => DecisionOnDisplayedSession' /\ PageOnlyToSignedInBrowser'
    BY BrowserStep
<1>3. QED
    BY <1>1, <1>2, TypeCorrect, ProvenanceHolds, PTL DEF Spec

-----------------------------------------------------------------------------
(* The store.                                                              *)

\* A consumed session has released its artifact (handlePoll), also when the
\* Update of the poll that consumed it was overtaken or failed.
THEOREM ConsumedWasReleased == Spec => []ConsumedMeansReleased
<1>1. TypeOK /\ Provenance => ConsumedMeansReleased
    BY DEF TypeOK, Provenance, StoredTraced, ServedTraced, Traced,
           ConsumedMeansReleased
<1>2. QED
    BY <1>1, TypeCorrect, ProvenanceHolds, PTL

\* Memory.Update never puts back a session that is gone.
Gone(s) == started[s] # None /\ store[s] = None

\* Update leaves an absent session absent.
LEMMA UpdateKeepsGone ==
    ASSUME TypeOK, NEW s \in Sessions, NEW x \in Sessions, NEW rec, NEW outcome,
           Update(s, rec, outcome), store[x] = None
    PROVE  store'[x] = None
BY DEF Update, TypeOK

\* No step brings back a session that was started and is gone.
LEMMA GoneStep ==
    ASSUME TypeOK, Next, NEW x \in Sessions, Gone(x)
    PROVE  store'[x] = None
<1>1. CASE Start
    BY <1>1 DEF Start, handleStart, mayStart, Gone, TypeOK
<1>2. CASE startRefused \/ notFound \/ Tick \/ Sweep \/ Crash
    BY <1>2 DEF startRefused, notFound, Tick, Sweep, Crash, Gone, TypeOK, evictable
<1>3. ASSUME NEW w \in Workers, Arrive(w)
      PROVE  store'[x] = None
    BY <1>3
    DEF Arrive, BeginVerify, BeginCallback, BeginApprove, BeginPoll, Begin, Gone
<1>4. ASSUME NEW w \in Workers, Serve(w)
      PROVE  store'[x] = None
    <2>1. \/ store' = store
          \/ \E rec, outcome : Update(reqs[w].sess, rec, outcome)
        <3>1. CASE handleVerify(w)
            <4>1. \E sess : \/ renderExpired(w, sess)
                            \/ resumeApproval(w, sess)
                            \/ beginIdPLogin(w, sess)
                            \/ verifyRefused(w, sess)
                BY <3>1 DEF handleVerify
            <4> QED
                BY <4>1 DEF renderExpired, resumeApproval, beginIdPLogin,
                            verifyRefused, renderResult, Save
        <3>2. CASE handleIdPResponse(w)
            <4>1. \/ renderResult(w)
                  \/ \E sess : renderExpired(w, sess)
                  \/ \E login, name, t : bindLogin(w, login, name, t)
                BY <3>2 DEF handleIdPResponse
            <4> QED BY <4>1 DEF renderExpired, renderResult, bindLogin, Save
        <3>3. CASE handleApprove(w)
            <4>1. \/ renderResult(w)
                  \/ \E form, code, d, t : decide(w, form, code, d, t)
                BY <3>3 DEF handleApprove
            <4>2. renderResult(w) => store' = store
                BY DEF renderResult
            <4>3. ASSUME NEW form, NEW code, NEW d, NEW t, decide(w, form, code, d, t)
                  PROVE  \E rec, outcome : Update(reqs[w].sess, rec, outcome)
                <5> DEFINE rec == approve(reqs[w].copy, code, d, t, reqs[w].secret).sess
                <5>1. \E outcome : Update(reqs[w].sess, rec, outcome)
                    BY <4>3 DEF decide, Save
                <5> HIDE DEF rec
                <5> QED BY <5>1
            <4> QED BY <4>1, <4>2, <4>3
        <3>4. CASE handlePoll(w)
            BY <3>4 DEF handlePoll, Save
        <3> QED BY <1>4, <3>1, <3>2, <3>3, <3>4 DEF Serve
    <2>2. reqs[w].sess \in Sessions
        BY <1>4, ServingType
        DEF Serve, handleVerify, handleIdPResponse, handleApprove, handlePoll
    <2> QED BY <2>1, <2>2, UpdateKeepsGone DEF Gone
<1>5. QED
    BY <1>1, <1>2, <1>3, <1>4 DEF Next

\* An evicted or lost session stays gone, whatever late handlers write.
THEOREM GoneStaysGone == Spec => NoResurrection
<1> DEFINE Stays == \A s \in Sessions :
                      started[s] # None /\ store[s] = None => store'[s] = None
<1>1. TypeOK /\ [Next]_vars => [Stays]_vars
    BY GoneStep DEF Gone
<1>2. QED
    BY <1>1, TypeCorrect, PTL DEF Spec, NoResurrection

-----------------------------------------------------------------------------
(* Get, change, update is not atomic: what two handlers of one session may *)
(* do to each other, or a failing Update to both.                          *)

\* The store after a save of d by a handler that had read c: d, or what was
\* there if the session is gone or the Update lost.  The save collides unless
\* the store went from c to d.
Saved(s, c, d) ==
    /\ store' = store \/ (store[s] # None /\ store' = [store EXCEPT ![s] = d])
    /\ collisions' = [collisions EXCEPT ![s] =
                        IF store[s] # c \/ store'[s] # d
                        THEN Count(@, MaxCollisions) ELSE @]

\* A handler that ends: it worked on copy c of session s, saved d (or
\* nothing, and then it has compared and released nothing), and counted.
Ends(w, s, c, d, wrong, released) ==
    /\ reqs[w] # None
    /\ reqs[w].sess = s
    /\ reqs[w].copy = c
    /\ reqs' = [reqs EXCEPT ![w] = None]
    /\ started' = started
    /\ Advances(c, d, wrong, released)
    /\ \/ Saved(s, c, d)
       \/ UNCHANGED <<store, collisions>> /\ ~wrong /\ ~released
    /\ uses' = [uses EXCEPT ![s] = IF released THEN Count(@, MaxUses) ELSE @]
    /\ guesses' = [guesses EXCEPT ![s] = IF wrong THEN Count(@, MaxGuesses) ELSE @]

\* Whatever the outcome of the Update.
LEMMA SaveIs ==
    ASSUME NEW w, NEW d, \E outcome \in UpdateOutcomes : Save(w, d, outcome)
    PROVE  Saved(reqs[w].sess, reqs[w].copy, d)
BY DEF Save, Update, Saved

\* A handler that neither compares a code nor releases the artifact.
LEMMA PlainEnd ==
    ASSUME TypeOK, NEW w \in Workers, NEW op, Serving(w, op), NEW d, NEW o, Reply(w, o),
           Saved(reqs[w].sess, reqs[w].copy, d) \/ UNCHANGED <<store, collisions>>,
           Advances(reqs[w].copy, d, FALSE, FALSE),
           UNCHANGED <<uses, guesses>>
    PROVE  Ends(w, reqs[w].sess, reqs[w].copy, d, FALSE, FALSE)
BY DEF Ends, Reply, Serving, TypeOK

\* The end of handleVerify.
LEMMA VerifyEnds ==
    ASSUME TypeOK, NEW w \in Workers, handleVerify(w)
    PROVE  \E d \in SessionRec : Ends(w, reqs[w].sess, reqs[w].copy, d, FALSE, FALSE)
<1>1. /\ Serving(w, "verify")
      /\ UNCHANGED <<uses, guesses>>
    BY DEF handleVerify
<1>2. PICK s \in Sessions, c \in SessionRec : reqs[w].sess = s /\ reqs[w].copy = c
    BY <1>1, ServingType
<1>3. PICK t \in Nat :
        LET sess == expireIfNeeded(c, t)
        IN  \/ renderExpired(w, sess)
            \/ resumeApproval(w, sess)
            \/ beginIdPLogin(w, sess)
            \/ verifyRefused(w, sess)
    BY <1>1, <1>2, ServingType DEF handleVerify
<1>4. PICK e \in SessionRec : e = expireIfNeeded(c, t)
    BY ExpireType
<1>5. Advances(c, e, FALSE, FALSE) /\ Advances(c, c, FALSE, FALSE)
    BY <1>4, ExpireAdvances DEF Advances, Forward
<1>6. CASE renderExpired(w, e)
    <2>1. Saved(s, c, e) /\ Reply(w, Silent)
        BY <1>2, <1>6, SaveIs DEF renderExpired
    <2> QED BY <1>1, <1>2, <1>5, <2>1, PlainEnd
<1>7. CASE resumeApproval(w, e) \/ verifyRefused(w, e)
    <2>1. UNCHANGED <<store, collisions>> /\ \E o : Reply(w, o)
        BY <1>7 DEF resumeApproval, verifyRefused, renderResult
    <2> QED BY <1>1, <1>2, <1>5, <2>1, PlainEnd
<1>8. CASE beginIdPLogin(w, e)
    <2> DEFINE d == BeginLogin(e, Len(draws) + 1)
    <2>1. Len(draws) + 1 \in Nat
        BY DEF TypeOK
    <2>2. /\ d \in SessionRec
          /\ d.state = e.state
          /\ d.consumed = e.consumed
          /\ d.approveAttempts = e.approveAttempts
        BY <2>1 DEF BeginLogin, SessionRec
    <2>3. Advances(c, d, FALSE, FALSE)
        <3> HIDE DEF d
        <3> QED BY <1>5, <2>2 DEF Advances
    <2>4. Saved(s, c, d) /\ Reply(w, Silent)
        BY <1>2, <1>8, SaveIs DEF beginIdPLogin
    <2> HIDE DEF d
    <2> QED BY <1>1, <1>2, <2>2, <2>3, <2>4, PlainEnd
<1>9. QED BY <1>3, <1>4, <1>6, <1>7, <1>8

\* The end of handleIdPResponse.
LEMMA CallbackEnds ==
    ASSUME TypeOK, NEW w \in Workers, handleIdPResponse(w)
    PROVE  \E d \in SessionRec : Ends(w, reqs[w].sess, reqs[w].copy, d, FALSE, FALSE)
<1>1. /\ Serving(w, "callback")
      /\ UNCHANGED <<uses, guesses>>
    BY DEF handleIdPResponse
<1>2. PICK s \in Sessions, c \in SessionRec : reqs[w].sess = s /\ reqs[w].copy = c
    BY <1>1, ServingType
<1>3. PICK t \in Nat :
        \/ renderResult(w)
        \/ renderExpired(w, expireIfNeeded(c, t))
        \/ \E login \in 0..Len(draws), name \in Exchange :
             bindLogin(w, login, name, t)
    <2>1. \A t \in reqs[w].at..now : t \in Nat
        BY <1>1, ServingType
    <2> QED BY <1>2, <2>1 DEF handleIdPResponse
<1>4. PICK e \in SessionRec : e = expireIfNeeded(c, t)
    BY ExpireType
<1>5. Advances(c, e, FALSE, FALSE) /\ Advances(c, c, FALSE, FALSE)
    BY <1>4, ExpireAdvances DEF Advances, Forward
<1>6. CASE renderExpired(w, e)
    <2>1. Saved(s, c, e) /\ Reply(w, Silent)
        BY <1>2, <1>6, SaveIs DEF renderExpired
    <2> QED BY <1>1, <1>2, <1>5, <2>1, PlainEnd
<1>7. CASE renderResult(w)
    <2>1. UNCHANGED <<store, collisions>> /\ Reply(w, Silent)
        BY <1>7 DEF renderResult
    <2> QED BY <1>1, <1>2, <1>5, <2>1, PlainEnd
<1>8. ASSUME NEW login, NEW name \in Exchange, bindLogin(w, login, name, t)
      PROVE  \E d \in SessionRec : Ends(w, s, c, d, FALSE, FALSE)
    <2> DEFINE n == Len(draws) + 1
               res == bindIdentity(c, name, t, n)
    <2>1. n \in Nat
        BY DEF TypeOK
    <2>2. name \in Names
        BY <1>8 DEF bindLogin, CompleteLogin, Exchange
    <2>3. /\ \E outcome \in UpdateOutcomes : Save(w, res.sess, outcome)
          /\ res.err \in {"nil", "ErrIdentityMismatch"}
        BY <1>2, <1>8 DEF bindLogin
    <2>4. \E o : Reply(w, o)
        BY <1>8 DEF bindLogin
    <2>5. res.sess \in SessionRec /\ Advances(c, res.sess, FALSE, FALSE)
        BY <2>1, <2>2, <2>3, BindType, BindAdvances
    <2> HIDE DEF res
    <2>6. Saved(s, c, res.sess)
        BY <1>2, <2>3, SaveIs
    <2> QED BY <1>1, <1>2, <2>4, <2>5, <2>6, PlainEnd
<1>9. QED BY <1>2, <1>3, <1>4, <1>6, <1>7, <1>8

\* The end of handleApprove.
LEMMA ApproveEnds ==
    ASSUME TypeOK, NEW w \in Workers, handleApprove(w)
    PROVE  \E d \in SessionRec, wrong \in BOOLEAN :
             Ends(w, reqs[w].sess, reqs[w].copy, d, wrong, FALSE)
<1>1. Serving(w, "approve")
    BY DEF handleApprove
<1>2. PICK s \in Sessions, c \in SessionRec, secret \in Nat :
        reqs[w].sess = s /\ reqs[w].copy = c /\ reqs[w].secret = secret
    BY <1>1, ServingType
<1>3. \/ renderResult(w) /\ UNCHANGED <<guesses, uses>>
      \/ \E form, code, dec : \E t \in Nat : decide(w, form, code, dec, t)
    <2>1. \A t \in reqs[w].at..now : t \in Nat
        BY <1>1, ServingType
    <2> QED BY <2>1 DEF handleApprove
<1>4. CASE renderResult(w) /\ UNCHANGED <<guesses, uses>>
    <2>1. UNCHANGED <<store, collisions>> /\ Reply(w, Silent)
        BY <1>4 DEF renderResult
    <2>2. Advances(c, c, FALSE, FALSE)
        BY DEF Advances, Forward
    <2>3. Ends(w, s, c, c, FALSE, FALSE)
        BY <1>1, <1>2, <1>4, <2>1, <2>2, PlainEnd
    <2> QED BY <1>2, <2>3
<1>5. ASSUME NEW form, NEW code, NEW dec, NEW t \in Nat, decide(w, form, code, dec, t)
      PROVE  \E d \in SessionRec, wrong \in BOOLEAN : Ends(w, s, c, d, wrong, FALSE)
    <2> DEFINE res == approve(c, code, dec, t, secret)
               wrong == res.err = "incorrect code"
    <2>1. res.sess \in SessionRec /\ Advances(c, res.sess, wrong, FALSE)
        BY ApproveType, ApproveAdvances
    <2>2. /\ \E outcome \in UpdateOutcomes : Save(w, res.sess, outcome)
          /\ guesses' = [guesses EXCEPT ![s] = IF wrong THEN Count(@, MaxGuesses) ELSE @]
          /\ uses' = uses
          /\ reqs' = [reqs EXCEPT ![w] = None]
          /\ started' = started
        BY <1>2, <1>5 DEF decide, Reply
    <2> HIDE DEF res
    <2>5. Saved(s, c, res.sess)
        BY <1>2, <2>2, SaveIs
    <2>6. wrong \in BOOLEAN
        OBVIOUS
    <2>8. uses' = [uses EXCEPT ![s] = IF FALSE THEN Count(@, MaxUses) ELSE @]
        BY <2>2 DEF TypeOK
    <2> HIDE DEF wrong
    <2>9. Ends(w, s, c, res.sess, wrong, FALSE)
        BY <1>1, <1>2, <2>1, <2>2, <2>5, <2>8 DEF Ends, Serving
    <2> QED BY <2>1, <2>6, <2>9
<1>6. QED BY <1>2, <1>3, <1>4, <1>5

\* The end of handlePoll.
LEMMA PollEnds ==
    ASSUME TypeOK, NEW w \in Workers, handlePoll(w)
    PROVE  \E d \in SessionRec, released \in BOOLEAN :
             Ends(w, reqs[w].sess, reqs[w].copy, d, FALSE, released)
<1>1. Serving(w, "poll")
    BY DEF handlePoll
<1>2. PICK s \in Sessions, c \in SessionRec : reqs[w].sess = s /\ reqs[w].copy = c
    BY <1>1, ServingType
<1>3. PICK verifier \in Verifiers \cup {None}, t \in Nat :
        LET res == poll(c, verifier, t)
        IN  /\ \E outcome \in UpdateOutcomes : Save(w, res.sess, outcome)
            /\ \E ev, a : Reply(w, [Silent EXCEPT !.event = ev, !.artifact = a])
            /\ uses' = [uses EXCEPT ![s] = IF res.status = "approved"
                                           THEN Count(@, MaxUses) ELSE @]
    <2>1. \A t \in reqs[w].at..now : t \in Nat
        BY <1>1, ServingType
    <2> QED BY <1>2, <2>1 DEF handlePoll
<1> DEFINE res == poll(c, verifier, t)
           released == res.status = "approved"
<1>4. res.sess \in SessionRec /\ Advances(c, res.sess, FALSE, released)
    BY PollType, PollAdvances
<1>5. /\ reqs' = [reqs EXCEPT ![w] = None]
      /\ started' = started
      /\ guesses' = guesses
    BY <1>3 DEF handlePoll, Reply
<1>6. guesses' = [guesses EXCEPT ![s] = IF FALSE THEN Count(@, MaxGuesses) ELSE @]
    BY <1>5 DEF TypeOK
<1>8. uses' = [uses EXCEPT ![s] = IF released THEN Count(@, MaxUses) ELSE @]
    BY <1>3
<1>9. Saved(s, c, res.sess)
    BY <1>2, <1>3, SaveIs
<1>10. released \in BOOLEAN
    OBVIOUS
<1> HIDE DEF released, res
<1>11. Ends(w, s, c, res.sess, FALSE, released)
    BY <1>1, <1>2, <1>4, <1>5, <1>6, <1>8, <1>9 DEF Ends, Serving
<1>12. QED BY <1>2, <1>4, <1>10, <1>11

\* However a handler ends, it moves its session forward by one step.
LEMMA ServeEnds ==
    ASSUME TypeOK, NEW w \in Workers, Serve(w)
    PROVE  \E s \in Sessions, c \in SessionRec, d \in SessionRec,
              wrong \in BOOLEAN, released \in BOOLEAN :
             Ends(w, s, c, d, wrong, released)
<1>1. reqs[w].sess \in Sessions /\ reqs[w].copy \in SessionRec
    BY ServingType
    DEF Serve, handleVerify, handleIdPResponse, handleApprove, handlePoll
<1>2. QED
    BY <1>1, VerifyEnds, CallbackEnds, ApproveEnds, PollEnds DEF Serve

-----------------------------------------------------------------------------
(* What the collisions of a session account for.                           *)

\* What the session as stored admits to: one release when it is marked
\* consumed, and its wrong codes.  A session that is gone is taken to admit
\* to everything, as it will release and compare no more.
used(s) == IF store[s] # None /\ ~store[s].consumed THEN 0 ELSE 1
tried(s) == IF store[s] # None THEN store[s].approveAttempts ELSE maxApproveAttempts

\* What the session does not admit to, collisions have lost.
Accounted(s) ==
    collisions[s] < MaxCollisions =>
        /\ uses[s] <= collisions[s] + used(s)
        /\ guesses[s] <= maxApproveAttempts * collisions[s] + tried(s)

WithinLimit(c) ==
    /\ c.approveAttempts <= maxApproveAttempts
    /\ c.state \in {"pending", "awaiting_approval"} =>
         c.approveAttempts < maxApproveAttempts

AllWithinLimit ==
    /\ \A s \in Sessions : store[s] # None => WithinLimit(store[s])
    /\ \A w \in Workers : reqs[w] # None => WithinLimit(reqs[w].copy)

Unused == \A s \in Sessions : started[s] = None => uses[s] = 0 /\ guesses[s] = 0

CollisionInv ==
    /\ AllWithinLimit
    /\ Unused
    /\ \A s \in Sessions : Accounted(s)

\* What the end of a handler does to its session: it takes the store from c to
\* d, or it collides, or it saves nothing.
Effect(s, c, d, wrong, released) ==
    \/ /\ store[s] = c /\ store'[s] = d
       /\ collisions'[s] = collisions[s]
    \/ /\ store'[s] = store[s] \/ (store[s] # None /\ store'[s] = d)
       /\ collisions'[s] = Count(collisions[s], MaxCollisions)
    \/ /\ store'[s] = store[s]
       /\ collisions'[s] = collisions[s]
       /\ ~wrong /\ ~released

\* The end of a handler, in terms of its session and of the others.
LEMMA EndsFrame ==
    ASSUME TypeOK, NEW w \in Workers, NEW s \in Sessions,
           NEW c \in SessionRec, NEW d \in SessionRec,
           NEW wrong \in BOOLEAN, NEW released \in BOOLEAN,
           Ends(w, s, c, d, wrong, released)
    PROVE  /\ \A v \in Workers : reqs'[v] # None => reqs[v] # None /\ reqs'[v] = reqs[v]
           /\ \A x \in Sessions : x # s =>
                /\ store'[x] = store[x]
                /\ uses'[x] = uses[x]
                /\ guesses'[x] = guesses[x]
                /\ collisions'[x] = collisions[x]
           /\ Effect(s, c, d, wrong, released)
           /\ uses'[s] = IF released THEN Count(uses[s], MaxUses) ELSE uses[s]
           /\ guesses'[s] = IF wrong THEN Count(guesses[s], MaxGuesses) ELSE guesses[s]
<1>1. \A v \in Workers : reqs'[v] # None => reqs[v] # None /\ reqs'[v] = reqs[v]
    BY DEF Ends, TypeOK
<1>2. /\ \A x \in Sessions : x # s => uses'[x] = uses[x] /\ guesses'[x] = guesses[x]
      /\ uses'[s] = IF released THEN Count(uses[s], MaxUses) ELSE uses[s]
      /\ guesses'[s] = IF wrong THEN Count(guesses[s], MaxGuesses) ELSE guesses[s]
    BY DEF Ends, TypeOK
<1>3. CASE Saved(s, c, d)
    <2>1. \A x \in Sessions : x # s =>
            store'[x] = store[x] /\ collisions'[x] = collisions[x]
        BY <1>3 DEF Saved, TypeOK
    <2>2. store'[s] = store[s] \/ (store[s] # None /\ store'[s] = d)
        BY <1>3 DEF Saved, TypeOK
    <2>3. collisions'[s] = IF store[s] # c \/ store'[s] # d
                           THEN Count(collisions[s], MaxCollisions) ELSE collisions[s]
        BY <1>3 DEF Saved, TypeOK
    <2>4. Effect(s, c, d, wrong, released)
        BY <2>2, <2>3 DEF Effect
    <2> QED BY <1>1, <1>2, <2>1, <2>4
<1>4. CASE UNCHANGED <<store, collisions>> /\ ~wrong /\ ~released
    BY <1>1, <1>2, <1>4 DEF Effect
<1>5. QED BY <1>3, <1>4 DEF Ends

\* One step forward keeps a session's attempts within the limit.
LEMMA LimitKept ==
    ASSUME NEW c \in SessionRec, NEW d \in SessionRec,
           NEW wrong \in BOOLEAN, NEW released \in BOOLEAN,
           WithinLimit(c), Advances(c, d, wrong, released)
    PROVE  WithinLimit(d)
<1>1. /\ c.approveAttempts \in Nat /\ d.approveAttempts \in Nat
      /\ c.state \in States /\ d.state \in States
      /\ maxApproveAttempts \in Nat \ {0}
    BY AttemptsAssumption DEF SessionRec
<1>2. CASE wrong
    BY <1>1, <1>2 DEF WithinLimit, Advances, tooManyAttempts
<1>3. CASE ~wrong
    <2>1. d.state \in {"pending", "awaiting_approval"} =>
            c.state \in {"pending", "awaiting_approval"}
        BY DEF Advances, Forward
    <2> QED BY <1>1, <1>3, <2>1 DEF WithinLimit, Advances
<1>4. QED BY <1>2, <1>3

\* A release the session does not come to admit to is a collision's.
LEMMA UsesAccounted ==
    ASSUME TypeOK, NEW s \in Sessions, NEW c \in SessionRec, NEW d \in SessionRec,
           NEW wrong \in BOOLEAN, NEW released \in BOOLEAN,
           Accounted(s), Advances(c, d, wrong, released), Effect(s, c, d, wrong, released),
           uses'[s] = IF released THEN Count(uses[s], MaxUses) ELSE uses[s],
           collisions'[s] < MaxCollisions
    PROVE  uses'[s] <= collisions'[s] + used(s)'
<1>1. /\ uses[s] \in Nat /\ collisions[s] \in Nat /\ MaxCollisions \in Nat
      /\ MaxUses \in Nat
    BY MaximaType, EnvironmentAssumption DEF TypeOK
<1>2. /\ c # None /\ d # None
      /\ released => d.consumed /\ ~c.consumed
      /\ ~released => d.consumed = c.consumed
    BY EnvironmentAssumption DEF Advances
<1>3. used(s) \in {0, 1} /\ used(s)' \in {0, 1}
    BY DEF used
<1>4. /\ uses'[s] \in Nat
      /\ uses'[s] = uses[s] \/ (released /\ uses'[s] <= uses[s] + 1)
    BY <1>1 DEF Count
<1>5. collisions[s] < MaxCollisions
    BY <1>1 DEF Effect, Count
<1>6. uses[s] <= collisions[s] + used(s)
    BY <1>5 DEF Accounted
<1>7. CASE store[s] = c /\ store'[s] = d /\ collisions'[s] = collisions[s]
    <2>1. CASE released
        <3>1. used(s) = 0 /\ used(s)' = 1
            BY <1>2, <1>7, <2>1 DEF used
        <3> QED BY <1>1, <1>4, <1>6, <1>7, <3>1
    <2>2. CASE ~released
        <3>1. used(s)' = used(s) /\ uses'[s] = uses[s]
            BY <1>2, <1>4, <1>7, <2>2 DEF used
        <3> QED BY <1>6, <1>7, <3>1
    <2> QED BY <2>1, <2>2
<1>8. CASE /\ store'[s] = store[s] \/ (store[s] # None /\ store'[s] = d)
           /\ collisions'[s] = Count(collisions[s], MaxCollisions)
    <2>1. collisions'[s] = collisions[s] + 1
        BY <1>1, <1>5, <1>8 DEF Count
    <2>2. CASE store'[s] = store[s]
        <3>1. used(s)' = used(s)
            BY <2>2 DEF used
        <3> QED BY <1>1, <1>3, <1>4, <1>6, <2>1, <3>1
    <2>3. CASE store'[s] = d
        <3>1. released => used(s)' = 1
            BY <1>2, <2>3 DEF used
        <3> QED BY <1>1, <1>3, <1>4, <1>6, <2>1, <3>1
    <2> QED BY <1>8, <2>2, <2>3
<1>9. CASE store'[s] = store[s] /\ collisions'[s] = collisions[s] /\ ~released
    <2>1. used(s)' = used(s) /\ uses'[s] = uses[s]
        BY <1>4, <1>9 DEF used
    <2> QED BY <1>6, <1>9, <2>1
<1>10. QED BY <1>7, <1>8, <1>9 DEF Effect

\* A wrong code the session does not come to admit to is a collision's.
LEMMA GuessesAccounted ==
    ASSUME TypeOK, NEW s \in Sessions, NEW c \in SessionRec, NEW d \in SessionRec,
           NEW wrong \in BOOLEAN, NEW released \in BOOLEAN,
           Accounted(s), Advances(c, d, wrong, released), Effect(s, c, d, wrong, released),
           store[s] # None => WithinLimit(store[s]),
           guesses'[s] = IF wrong THEN Count(guesses[s], MaxGuesses) ELSE guesses[s],
           collisions'[s] < MaxCollisions
    PROVE  guesses'[s] <= maxApproveAttempts * collisions'[s] + tried(s)'
<1> DEFINE m == maxApproveAttempts
           k == collisions[s]
<1>1. /\ guesses[s] \in Nat /\ k \in Nat /\ MaxCollisions \in Nat
      /\ MaxGuesses \in Nat /\ m \in Nat /\ m >= 1
    BY MaximaType, AttemptsAssumption, EnvironmentAssumption DEF TypeOK
<1>2. /\ c # None /\ d # None
      /\ c.approveAttempts \in Nat
      /\ d.approveAttempts = IF wrong THEN c.approveAttempts + 1 ELSE c.approveAttempts
    BY EnvironmentAssumption DEF Advances, SessionRec
<1>3. tried(s) \in Nat /\ tried(s) <= m
    BY <1>1 DEF tried, WithinLimit, TypeOK, SessionRec
<1>4. /\ guesses'[s] \in Nat
      /\ guesses'[s] = guesses[s] \/ (wrong /\ guesses'[s] <= guesses[s] + 1)
    BY <1>1 DEF Count
<1>5. k < MaxCollisions
    BY <1>1 DEF Effect, Count
<1>6. m * k \in Nat /\ guesses[s] <= m * k + tried(s)
    BY <1>1, <1>5 DEF Accounted
<1>7. CASE store[s] = c /\ store'[s] = d /\ collisions'[s] = k
    <2>1. tried(s) = c.approveAttempts /\ tried(s)' = d.approveAttempts
        BY <1>2, <1>7 DEF tried
    <2>2. m * collisions'[s] = m * k
        BY <1>7
    <2> QED BY <1>1, <1>2, <1>4, <1>6, <2>1, <2>2
<1>8. CASE /\ store'[s] = store[s] \/ (store[s] # None /\ store'[s] = d)
           /\ collisions'[s] = Count(k, MaxCollisions)
    <2>1. collisions'[s] = k + 1
        BY <1>1, <1>5, <1>8 DEF Count
    <2>2. m * collisions'[s] = m * k + m
        BY <1>1, <2>1
    <2>3. CASE store'[s] = store[s]
        <3>1. tried(s)' = tried(s)
            BY <2>3 DEF tried
        <3> QED BY <1>1, <1>3, <1>4, <1>6, <2>2, <3>1
    <2>4. CASE store'[s] = d
        <3>1. tried(s)' = d.approveAttempts
            BY <1>2, <2>4 DEF tried
        <3> QED BY <1>1, <1>2, <1>3, <1>4, <1>6, <2>2, <3>1
    <2> QED BY <1>8, <2>3, <2>4
<1>9. CASE store'[s] = store[s] /\ collisions'[s] = k /\ ~wrong
    <2>1. tried(s)' = tried(s) /\ guesses'[s] = guesses[s]
        BY <1>4, <1>9 DEF tried
    <2>2. m * collisions'[s] = m * k
        BY <1>9
    <2> QED BY <1>6, <2>1, <2>2
<1>10. QED BY <1>7, <1>8, <1>9 DEF Effect

\* A handler that ends keeps the account, whoever wrote meanwhile.
LEMMA ServeAccounted ==
    ASSUME TypeOK, Provenance, CollisionInv, NEW w \in Workers, Serve(w)
    PROVE  CollisionInv'
<1>1. PICK s \in Sessions, c \in SessionRec, d \in SessionRec,
           wrong \in BOOLEAN, released \in BOOLEAN :
        Ends(w, s, c, d, wrong, released)
    BY ServeEnds
<1>2. /\ \A v \in Workers : reqs'[v] # None => reqs[v] # None /\ reqs'[v] = reqs[v]
      /\ \A x \in Sessions : x # s =>
           /\ store'[x] = store[x]
           /\ uses'[x] = uses[x]
           /\ guesses'[x] = guesses[x]
           /\ collisions'[x] = collisions[x]
      /\ Effect(s, c, d, wrong, released)
      /\ uses'[s] = IF released THEN Count(uses[s], MaxUses) ELSE uses[s]
      /\ guesses'[s] = IF wrong THEN Count(guesses[s], MaxGuesses) ELSE guesses[s]
    BY <1>1, EndsFrame
<1>3. /\ AllWithinLimit /\ Unused /\ Accounted(s)
      /\ Advances(c, d, wrong, released) /\ started' = started
      /\ WithinLimit(c)
    BY <1>1 DEF CollisionInv, Ends, AllWithinLimit
<1>4. WithinLimit(d)
    BY <1>3, LimitKept
<1>5. AllWithinLimit'
    <2>1. \A x \in Sessions : store'[x] # None => WithinLimit(store'[x])
        BY <1>2, <1>3, <1>4 DEF AllWithinLimit, Effect
    <2>2. \A v \in Workers : reqs'[v] # None => WithinLimit(reqs'[v].copy)
        BY <1>2, <1>3 DEF AllWithinLimit
    <2> QED BY <2>1, <2>2 DEF AllWithinLimit, WithinLimit
<1>6. Unused'
    <2>1. started[s] # None
        BY <1>1 DEF Ends, Provenance, ServedTraced, Traced
    <2> QED BY <1>2, <1>3, <2>1 DEF Unused
<1>7. ASSUME NEW x \in Sessions
      PROVE  Accounted(x)'
    <2>1. CASE x # s
        BY <1>2, <2>1 DEF CollisionInv, Accounted, used, tried
    <2>2. CASE x = s
        <3>1. collisions'[s] < MaxCollisions => uses'[s] <= collisions'[s] + used(s)'
            BY <1>2, <1>3, UsesAccounted
        <3>2. collisions'[s] < MaxCollisions =>
                guesses'[s] <= maxApproveAttempts * collisions'[s] + tried(s)'
            BY <1>2, <1>3, GuessesAccounted DEF AllWithinLimit
        <3> QED BY <2>2, <3>1, <3>2 DEF Accounted
    <2> QED BY <2>1, <2>2
<1>8. QED BY <1>5, <1>6, <1>7 DEF CollisionInv

\* A session starts with nothing to account for (handleStart).
LEMMA StartAccounted ==
    ASSUME TypeOK, Provenance, CollisionInv, Start
    PROVE  CollisionInv'
<1>1. PICK s \in Sessions, hint \in Names, verifier \in Verifiers, code \in UserCodes :
        handleStart(s, hint, verifier, code)
    BY DEF Start
<1>2. PICK c \in SessionRec : c = newSession(hint, S256(verifier), code, now)
    BY NewType DEF TypeOK
<1>3. /\ started[s] = None
      /\ store' = [store EXCEPT ![s] = c]
      /\ started' = [started EXCEPT ![s] = c]
      /\ UNCHANGED <<reqs, uses, guesses, collisions>>
    BY <1>1, <1>2 DEF handleStart, mayStart
<1>4. ~c.consumed /\ c.approveAttempts = 0
    BY <1>2 DEF newSession
<1>5. /\ store'[s] = c /\ c # None
      /\ \A x \in Sessions : x # s => store'[x] = store[x]
    BY <1>3, EnvironmentAssumption DEF TypeOK
<1>6. AllWithinLimit'
    <2>1. WithinLimit(c)
        BY <1>4, AttemptsAssumption DEF WithinLimit
    <2> QED BY <1>3, <1>5, <2>1 DEF CollisionInv, AllWithinLimit, WithinLimit
<1>7. Unused'
    BY <1>3, EnvironmentAssumption DEF CollisionInv, Unused, TypeOK
<1>8. ASSUME NEW x \in Sessions
      PROVE  Accounted(x)'
    <2>1. CASE x # s
        BY <1>3, <1>5, <2>1 DEF CollisionInv, Accounted, used, tried
    <2>2. CASE x = s
        <3>1. uses'[s] = 0 /\ guesses'[s] = 0 /\ collisions'[s] \in Nat
            BY <1>3, EnvironmentAssumption DEF CollisionInv, Unused, TypeOK
        <3>2. used(s)' = 0 /\ tried(s)' = 0
            BY <1>4, <1>5 DEF used, tried
        <3>3. maxApproveAttempts * collisions'[s] \in Nat
            BY <3>1, AttemptsAssumption
        <3> QED BY <2>2, <3>1, <3>2, <3>3 DEF Accounted
    <2> QED BY <2>1, <2>2
<1>9. QED BY <1>6, <1>7, <1>8 DEF CollisionInv

\* A request that begins holds what the store holds (store.Get).
LEMMA ArriveAccounted ==
    ASSUME TypeOK, CollisionInv, NEW w \in Workers, Arrive(w)
    PROVE  CollisionInv'
<1>1. PICK op, s, b, secret : Begin(w, op, s, b, secret) /\ s \in Sessions
    BY DEF Arrive, BeginVerify, BeginCallback, BeginApprove, BeginPoll, TypeOK
<1>2. /\ store[s] # None
      /\ \A v \in Workers : v # w => reqs'[v] = reqs[v]
      /\ reqs'[w].copy = store[s]
      /\ UNCHANGED <<store, started, uses, guesses, collisions>>
    BY <1>1 DEF Begin, TypeOK, historyVars
<1>3. AllWithinLimit'
    BY <1>1, <1>2 DEF CollisionInv, AllWithinLimit, WithinLimit
<1>4. Unused' /\ \A x \in Sessions : Accounted(x)'
    BY <1>2 DEF CollisionInv, Unused, Accounted, used, tried
<1>5. QED BY <1>3, <1>4 DEF CollisionInv

\* Sessions that vanish, and requests that die, take nothing with them (the
\* sweeper, a restart); the other steps touch neither.
LEMMA OtherAccounted ==
    ASSUME TypeOK, CollisionInv,
           startRefused \/ notFound \/ Sweep \/ Tick \/ Crash \/ UNCHANGED vars
    PROVE  CollisionInv'
<1>1. /\ \A s \in Sessions : store'[s] = store[s] \/ store'[s] = None
      /\ \A w \in Workers : reqs'[w] # None => reqs'[w] = reqs[w]
      /\ UNCHANGED <<started, uses, guesses, collisions>>
    BY DEF startRefused, notFound, Sweep, Tick, Crash, vars, historyVars, TypeOK
<1>2. AllWithinLimit'
    BY <1>1 DEF CollisionInv, AllWithinLimit, WithinLimit
<1>3. Unused'
    BY <1>1 DEF CollisionInv, Unused
<1>4. ASSUME NEW s \in Sessions
      PROVE  Accounted(s)'
    <2>1. CASE store'[s] = store[s]
        BY <1>1, <2>1 DEF CollisionInv, Accounted, used, tried
    <2>2. CASE store'[s] = None
        <3>1. used(s) \in {0, 1} /\ used(s)' = 1
            BY <2>2 DEF used
        <3>2. tried(s) \in Nat /\ tried(s) <= maxApproveAttempts
            BY AttemptsAssumption
            DEF CollisionInv, AllWithinLimit, WithinLimit, tried, TypeOK, SessionRec
        <3>3. tried(s)' = maxApproveAttempts
            BY <2>2 DEF tried
        <3>4. /\ maxApproveAttempts * collisions[s] \in Nat /\ maxApproveAttempts \in Nat
              /\ uses[s] \in Nat /\ guesses[s] \in Nat /\ collisions[s] \in Nat
            BY AttemptsAssumption, EnvironmentAssumption, MaximaType DEF TypeOK
        <3>5. collisions[s] < MaxCollisions =>
                /\ uses[s] <= collisions[s] + used(s)
                /\ guesses[s] <= maxApproveAttempts * collisions[s] + tried(s)
            BY DEF CollisionInv, Accounted
        <3>6. collisions[s] < MaxCollisions =>
                /\ uses[s] <= collisions[s] + 1
                /\ guesses[s] <= maxApproveAttempts * collisions[s] + maxApproveAttempts
            BY <3>1, <3>2, <3>4, <3>5
        <3> QED BY <1>1, <3>1, <3>3, <3>6 DEF Accounted
    <2> QED BY <1>1, <2>1, <2>2
<1>5. QED BY <1>2, <1>3, <1>4 DEF CollisionInv

\* The account holds at first.
LEMMA InitAccounted == Init => CollisionInv
<1> SUFFICES ASSUME Init PROVE CollisionInv
    OBVIOUS
<1>1. AllWithinLimit /\ Unused
    BY DEF Init, AllWithinLimit, Unused
<1>2. ASSUME NEW s \in Sessions
      PROVE  Accounted(s)
    <2>1. uses[s] = 0 /\ guesses[s] = 0 /\ collisions[s] = 0
        BY DEF Init
    <2>2. used(s) = 1 /\ tried(s) = maxApproveAttempts
        BY DEF Init, used, tried
    <2> QED BY <2>1, <2>2, AttemptsAssumption DEF Accounted
<1>3. QED BY <1>1, <1>2 DEF CollisionInv

\* What a session's own marks do not admit to is accounted for by collisions,
\* with overlapping requests and a failing store.
THEOREM CollisionsAccountForAll == Spec => []CollisionInv
<1>1. TypeOK /\ Provenance /\ CollisionInv /\ [Next]_vars => CollisionInv'
    BY ServeAccounted, StartAccounted, ArriveAccounted, OtherAccounted DEF Next
<1>2. QED
    BY <1>1, InitAccounted, TypeCorrect, ProvenanceHolds, PTL DEF Spec

\* An approved session hands out its artifact once, and once more for a
\* collision at most, for any number of overlapping polls, lost Updates and
\* restarts (poll, Consumed).
THEOREM ReleasesAreBounded == Spec => []ReleasesBounded
<1>1. TypeOK /\ CollisionInv => ReleasesBounded
    <2> SUFFICES ASSUME TypeOK, CollisionInv, NEW s \in Sessions
                 PROVE  uses[s] <= 1 + collisions[s]
        BY DEF ReleasesBounded
    <2>1. /\ uses[s] \in 0..MaxUses /\ collisions[s] \in 0..MaxCollisions
          /\ MaxCollisions \in Nat /\ MaxUses = MaxCollisions + 1
          /\ used(s) \in {0, 1}
        BY MaximaType, EnvironmentAssumption DEF TypeOK, used
    <2>2. collisions[s] < MaxCollisions => uses[s] <= collisions[s] + used(s)
        BY DEF CollisionInv, Accounted
    <2> QED BY <2>1, <2>2
<1>2. QED
    BY <1>1, TypeCorrect, CollisionsAccountForAll, PTL

\* The broker compares maxApproveAttempts wrong codes per session, and as many
\* again for a collision at most (approve, tooManyAttempts).
THEOREM AttemptsAreBounded == Spec => []AttemptsBounded
<1>1. TypeOK /\ CollisionInv => AttemptsBounded
    <2> DEFINE m == maxApproveAttempts
    <2> SUFFICES ASSUME TypeOK, CollisionInv, NEW s \in Sessions
                 PROVE  guesses[s] <= m * (1 + collisions[s])
        BY DEF AttemptsBounded
    <2>1. /\ guesses[s] \in 0..MaxGuesses /\ collisions[s] \in 0..MaxCollisions
          /\ MaxCollisions \in Nat /\ MaxGuesses = m * MaxCollisions + m
          /\ m \in Nat
        BY MaximaType, AttemptsAssumption, EnvironmentAssumption DEF TypeOK
    <2>2. tried(s) \in Nat /\ tried(s) <= m
        BY AttemptsAssumption
        DEF CollisionInv, AllWithinLimit, WithinLimit, tried, TypeOK, SessionRec
    <2>3. m * (1 + collisions[s]) = m * collisions[s] + m /\ m * collisions[s] \in Nat
        BY <2>1
    <2>4. CASE collisions[s] < MaxCollisions
        <3>1. guesses[s] <= m * collisions[s] + tried(s)
            BY <2>4 DEF CollisionInv, Accounted
        <3> QED BY <2>1, <2>2, <2>3, <3>1
    <2>5. CASE collisions[s] = MaxCollisions
        BY <2>1, <2>3, <2>5
    <2> QED BY <2>1, <2>4, <2>5
<1>2. QED
    BY <1>1, TypeCorrect, CollisionsAccountForAll, PTL

-----------------------------------------------------------------------------
(* Decided sessions stay decided, but for collisions.                      *)

Final(s) ==
    store[s] # None /\ store'[s] # None /\ store[s].state \in Terminal =>
        store'[s].state = store[s].state \/ Collides(s)

\* A handler that leaves a terminal state collides.
LEMMA FinalStep ==
    ASSUME TypeOK, Provenance, Next, NEW x \in Sessions
    PROVE  Final(x)
<1>1. ASSUME NEW w \in Workers, Serve(w)
      PROVE  Final(x)
    <2>1. PICK s \in Sessions, c \in SessionRec, d \in SessionRec,
               wrong \in BOOLEAN, released \in BOOLEAN :
            Ends(w, s, c, d, wrong, released)
        BY <1>1, ServeEnds
    <2>2. /\ x # s => store'[x] = store[x]
          /\ Effect(s, c, d, wrong, released)
        BY <2>1, EndsFrame
    <2>3. c.state \in Terminal => d.state = c.state
        BY <2>1 DEF Ends, Advances, Forward, Terminal
    <2>4. collisions'[s] = Count(collisions[s], MaxCollisions) => Collides(s)
        <3>1. collisions[s] \in 0..MaxCollisions /\ MaxCollisions \in Nat
            BY EnvironmentAssumption DEF TypeOK
        <3> QED BY <3>1 DEF Collides, Count
    <2> QED BY <2>2, <2>3, <2>4 DEF Final, Effect
<1>2. CASE Start
    <2>1. \A s \in Sessions : store[s] # None => started[s] # None
        BY DEF Provenance, StoredTraced, Traced
    <2> QED BY <1>2, <2>1 DEF Start, handleStart, mayStart, Final, TypeOK
<1>3. ASSUME NEW w \in Workers, Arrive(w)
      PROVE  Final(x)
    BY <1>3
    DEF Arrive, BeginVerify, BeginCallback, BeginApprove, BeginPoll, Begin, Final
<1>4. CASE startRefused \/ notFound \/ Sweep \/ Tick \/ Crash
    BY <1>4 DEF startRefused, notFound, Sweep, Tick, Crash, Final, TypeOK
<1>5. QED
    BY <1>1, <1>2, <1>3, <1>4 DEF Next

\* A session leaves approved, denied or expired only by a collision, whatever
\* overlaps and whatever fails (isTerminal, Memory.Update).
THEOREM TerminalStaysTerminal == Spec => TerminalIsFinal
<1> DEFINE Kept == \A s \in Sessions :
                     store[s] # None /\ store'[s] # None /\ store[s].state \in Terminal =>
                       store'[s].state = store[s].state \/ Collides(s)
<1>1. TypeOK /\ Provenance /\ [Next]_vars => [Kept]_vars
    BY FinalStep DEF Final
<1>2. QED
    BY <1>1, TypeCorrect, ProvenanceHolds, PTL DEF Spec, TerminalIsFinal

-----------------------------------------------------------------------------
(* The handlers implement SingleUseLogin.                                  *)

PhaseOf(c) == IF c.consumed THEN "consumed" ELSE c.state

Later == {"pending", "awaiting_approval", "approved", "consumed", "denied", "expired"}

\* The phase of a session is that of the stored one.
LEMMA PhaseIs ==
    ASSUME TypeOK, Provenance, NEW s \in Sessions
    PROVE  /\ started[s] = None => Phase(s) = "new" /\ store[s] = None
           /\ store[s] # None => /\ Phase(s) = PhaseOf(store[s])
                                 /\ Phase(s) \in Later
           /\ started[s] # None /\ store[s] = None => Phase(s) = "gone"
<1>1. store[s] # None => started[s] # None /\ store[s] \in SessionRec
    BY DEF Provenance, StoredTraced, Traced, TypeOK
<1>2. store[s] # None => PhaseOf(store[s]) \in Later
    BY <1>1 DEF PhaseOf, SessionRec, States, Later
<1>3. QED
    BY <1>1, <1>2 DEF Phase, PhaseOf

\* Steps that forget sessions, or change no phase at all.
Forgets ==
    /\ \A x \in Sessions :
         Phase(x)' = Phase(x) \/ (Phase(x)' = "gone" /\ Phase(x) # "new")
    /\ uses' = uses
    /\ collisions' = collisions

\* Such a step is a Forget of SingleUseLogin.
LEMMA ForgetsMapped == ASSUME Forgets PROVE Login!ANext
<1> DEFINE S == {x \in Sessions : Phase(x)' # Phase(x)}
<1>1. S \in SUBSET Sessions
    OBVIOUS
<1>2. \A x \in S : [s \in Sessions |-> Phase(s)][x] # "new"
    BY DEF Forgets
<1>3. [s \in Sessions |-> Phase(s)]' =
        [s \in Sessions |-> IF s \in S THEN "gone"
                            ELSE [x \in Sessions |-> Phase(x)][s]]
    BY DEF Forgets
<1>4. Login!Forget(S)
    BY <1>2, <1>3 DEF Login!Forget, Forgets
<1>5. QED
    BY <1>1, <1>4 DEF Login!ANext

\* A step that moves one session on.
Moves(s, to) ==
    /\ Phase(s)' = to
    /\ \A x \in Sessions : x # s => Phase(x)' = Phase(x)

\* It is a Move of SingleUseLogin.
LEMMA MovesMapped ==
    ASSUME NEW s \in Sessions, NEW from, NEW to, Phase(s) \in from, Moves(s, to)
    PROVE  Login!Move(s, from, to)
BY DEF Moves, Login!Move

\* A session nobody writes keeps its phase.
LEMMA PhaseKept ==
    ASSUME NEW x \in Sessions, started'[x] = started[x], store'[x] = store[x]
    PROVE  Phase(x)' = Phase(x)
BY DEF Phase

\* A collision is one of SingleUseLogin.
LEMMA CollideMapped ==
    ASSUME TypeOK, NEW s \in Sessions,
           Phase(s) # "new", Moves(s, Phase(s)'),
           Phase(s)' = Phase(s) \/ (Phase(s) \in Later /\ Phase(s)' \in Later),
           \/ uses' = uses
           \/ uses' = [uses EXCEPT ![s] = Count(@, MaxUses)],
           collisions' = [collisions EXCEPT ![s] = Count(@, MaxCollisions)]
    PROVE  Login!ANext
<1> DEFINE ph == [x \in Sessions |-> Phase(x)]
<1>1. ph[s] # "new"
    OBVIOUS
<1>2. \/ UNCHANGED ph
      \/ ph[s] # "gone" /\ \E to \in Login!Phases \ {"new", "gone"} :
           Login!Move(s, Login!Phases, to)
    <2>1. CASE Phase(s)' = Phase(s)
        <3>1. \A x \in Sessions : Phase(x)' = Phase(x)
            BY <2>1 DEF Moves
        <3> QED BY <3>1
    <2>2. CASE Phase(s) \in Later /\ Phase(s)' \in Later
        <3>1. Phase(s) \in Login!Phases /\ Phase(s) # "gone"
            BY <2>2 DEF Later, Login!Phases
        <3>2. Phase(s)' \in Login!Phases \ {"new", "gone"}
            BY <2>2 DEF Later, Login!Phases
        <3>3. Login!Move(s, Login!Phases, Phase(s)')
            BY <3>1, MovesMapped
        <3> QED BY <3>1, <3>2, <3>3
    <2> QED BY <2>1, <2>2
<1>3. uses' \in {uses, [uses EXCEPT ![s] = Login!One(@)]}
    <2>1. Count(uses[s], MaxUses) = Login!One(uses[s])
        <3>1. uses[s] \in Nat /\ MaxUses = MaxCollisions + 1 /\ MaxCollisions \in Nat
            BY MaximaType, EnvironmentAssumption DEF TypeOK
        <3> QED BY <3>1 DEF Count, Login!One
    <2> QED BY <2>1 DEF TypeOK
<1>4. collisions' = [collisions EXCEPT ![s] = IF @ < MaxCollisions THEN @ + 1 ELSE @]
    BY DEF Count
<1>5. Login!Collide(s)
    <2> HIDE DEF ph
    <2>1. /\ ph[s] # "new"
          /\ \/ ph[s] # "gone" /\ \E to \in Login!Phases \ {"new", "gone"} :
                  Login!Move(s, Login!Phases, to)
             \/ UNCHANGED ph
          /\ uses' \in {uses, [uses EXCEPT ![s] = Login!One(@)]}
          /\ collisions' = [collisions EXCEPT ![s] = IF @ < MaxCollisions THEN @ + 1 ELSE @]
        BY <1>1, <1>2, <1>3, <1>4
    <2> QED BY <2>1 DEF Login!Collide, ph
<1>6. QED BY <1>5 DEF Login!ANext

\* The end of a handler: one step forward, a collision, or nothing.
LEMMA ServeMapped ==
    ASSUME TypeOK, TypeOK', Provenance, Provenance', NEW w \in Workers, Serve(w)
    PROVE  Login!ANext
<1>1. PICK s \in Sessions, c \in SessionRec, d \in SessionRec,
           wrong \in BOOLEAN, released \in BOOLEAN :
        Ends(w, s, c, d, wrong, released)
    BY ServeEnds
<1>2. /\ \A x \in Sessions : x # s => store'[x] = store[x]
      /\ Effect(s, c, d, wrong, released)
    BY <1>1, EndsFrame
<1>3. /\ reqs[w] # None /\ reqs[w].sess = s /\ reqs[w].copy = c
      /\ started' = started
      /\ Advances(c, d, wrong, released)
      /\ uses' = [uses EXCEPT ![s] = IF released THEN Count(@, MaxUses) ELSE @]
    BY <1>1 DEF Ends
<1>4. started[s] # None /\ (c.consumed => c.state = "approved")
    BY <1>3 DEF Provenance, ServedTraced, Traced
<1>5. /\ c # None /\ d # None
      /\ c.state \in States /\ d.state \in States
      /\ c.consumed \in BOOLEAN /\ d.consumed \in BOOLEAN
    BY EnvironmentAssumption DEF SessionRec
<1>6. \A x \in Sessions : x # s => Phase(x)' = Phase(x)
    BY <1>2, <1>3, PhaseKept
<1>7. /\ Phase(s) = IF store[s] = None THEN "gone" ELSE PhaseOf(store[s])
      /\ Phase(s)' = IF store'[s] = None THEN "gone" ELSE PhaseOf(store'[s])
      /\ store[s] # None => Phase(s) \in Later
      /\ store'[s] # None => Phase(s)' \in Later
    <2>1. /\ Phase(s) = IF store[s] = None THEN "gone" ELSE PhaseOf(store[s])
          /\ store[s] # None => Phase(s) \in Later
        BY <1>4, PhaseIs
    <2>2. /\ Phase(s)' = IF store'[s] = None THEN "gone" ELSE PhaseOf(store'[s])
          /\ store'[s] # None => Phase(s)' \in Later
        <3>1. started'[s] # None
            BY <1>3, <1>4
        <3>2. store'[s] # None => store'[s] \in SessionRec
            BY DEF TypeOK
        <3>3. store'[s] # None => PhaseOf(store'[s]) \in Later
            BY <3>2 DEF PhaseOf, SessionRec, States, Later
        <3> QED BY <3>1, <3>3 DEF Phase, PhaseOf
    <2> QED BY <2>1, <2>2
<1>8. Phase(s) # "new"
    BY <1>7 DEF Later
<1>9. \/ collisions'[s] = collisions[s] /\ collisions' = collisions
      \/ collisions' = [collisions EXCEPT ![s] = Count(@, MaxCollisions)]
    <2>1. CASE Saved(s, c, d)
        <3>1. \/ collisions' = [collisions EXCEPT ![s] = @]
              \/ collisions' = [collisions EXCEPT ![s] = Count(@, MaxCollisions)]
            BY <2>1 DEF Saved
        <3>2. [collisions EXCEPT ![s] = @] = collisions
            BY DEF TypeOK
        <3> QED BY <3>1, <3>2
    <2>2. CASE UNCHANGED <<store, collisions>>
        BY <2>2
    <2> QED BY <1>1, <2>1, <2>2 DEF Ends
<1>10. uses' = uses \/ (released /\ uses' = [uses EXCEPT ![s] = Count(@, MaxUses)])
    BY <1>3 DEF TypeOK
<1>11. CASE collisions' = [collisions EXCEPT ![s] = Count(@, MaxCollisions)]
    <2>1. Phase(s)' = Phase(s) \/ (Phase(s) \in Later /\ Phase(s)' \in Later)
        <3>1. store'[s] = store[s] \/ (store[s] # None /\ store'[s] # None)
            BY <1>2, <1>5 DEF Effect
        <3> QED BY <1>7, <3>1
    <2>2. Moves(s, Phase(s)')
        BY <1>6 DEF Moves
    <2> QED BY <1>8, <1>10, <1>11, <2>1, <2>2, CollideMapped
<1>12. CASE collisions' = collisions
             /\ collisions' # [collisions EXCEPT ![s] = Count(@, MaxCollisions)]
    <2>1. \/ store[s] = c /\ store'[s] = d
          \/ store'[s] = store[s] /\ ~released
        <3>1. collisions'[s] # Count(collisions[s], MaxCollisions)
            BY <1>12 DEF TypeOK
        <3> QED BY <1>2, <3>1 DEF Effect
    <2>2. CASE store'[s] = store[s] /\ ~released
        <3>1. Phase(s)' = Phase(s) /\ uses' = uses
            BY <1>7, <1>10, <2>2
        <3> QED BY <1>6, <1>12, <3>1, ForgetsMapped DEF Forgets
    <2>3. CASE store[s] = c /\ store'[s] = d
        <3>1. Phase(s) = PhaseOf(c) /\ Phase(s)' = PhaseOf(d)
            BY <1>5, <1>7, <2>3
        <3>2. CASE released
            <4>1. Phase(s) = "approved" /\ Phase(s)' = "consumed"
                BY <1>3, <3>1, <3>2 DEF Advances, PhaseOf
            <4>2. Login!Move(s, {"approved"}, "consumed")
                BY <1>6, <4>1, MovesMapped DEF Moves
            <4>3. uses' = [uses EXCEPT ![s] = Login!One(@)]
                <5>1. Count(uses[s], MaxUses) = Login!One(uses[s])
                    <6>1. uses[s] \in Nat /\ MaxUses = MaxCollisions + 1 /\ MaxCollisions \in Nat
                        BY MaximaType, EnvironmentAssumption DEF TypeOK
                    <6> QED BY <6>1 DEF Count, Login!One
                <5> QED BY <1>3, <3>2, <5>1
            <4> QED BY <1>12, <4>2, <4>3 DEF Login!HandOut, Login!ANext
        <3>3. CASE ~released
            <4>1. uses' = uses
                BY <1>10, <3>3
            <4>2. CASE Phase(s)' = Phase(s)
                BY <1>6, <1>12, <4>1, <4>2, ForgetsMapped DEF Forgets
            <4>3. CASE Phase(s)' # Phase(s)
                <5>1. ~c.consumed /\ ~d.consumed
                    BY <1>3, <1>4, <1>5, <3>1, <3>3, <4>3 DEF PhaseOf, Advances, Forward
                <5>2. Phase(s) = c.state /\ Phase(s)' = d.state /\ c.state # d.state
                    BY <3>1, <4>3, <5>1 DEF PhaseOf
                <5>3. Moves(s, d.state)
                    BY <1>6, <5>2 DEF Moves
                <5>4. \/ c.state = "pending" /\ d.state = "awaiting_approval"
                      \/ c.state = "awaiting_approval" /\ d.state = "approved"
                      \/ c.state \in {"pending", "awaiting_approval"} /\ d.state = "denied"
                      \/ c.state \in {"pending", "awaiting_approval"} /\ d.state = "expired"
                    BY <1>3, <5>2 DEF Advances, Forward
                <5>5. \/ Login!Move(s, {"pending"}, "awaiting_approval")
                      \/ Login!Move(s, {"pending", "awaiting_approval"}, "denied")
                      \/ Login!Move(s, {"awaiting_approval"}, "approved")
                      \/ Login!Move(s, {"pending", "awaiting_approval"}, "expired")
                    BY <5>2, <5>3, <5>4, MovesMapped
                <5> QED BY <1>12, <4>1, <5>5 DEF Login!Forward, Login!ANext
            <4> QED BY <4>2, <4>3
        <3> QED BY <3>2, <3>3
    <2> QED BY <2>1, <2>2, <2>3
<1>13. QED BY <1>9, <1>11, <1>12

\* handleStart opens a session.
LEMMA StartMapped ==
    ASSUME TypeOK, Provenance, Start
    PROVE  Login!ANext
<1>1. PICK s \in Sessions, hint \in Names, verifier \in Verifiers, code \in UserCodes :
        handleStart(s, hint, verifier, code)
    BY DEF Start
<1>2. PICK c \in SessionRec : c = newSession(hint, S256(verifier), code, now)
    BY NewType DEF TypeOK
<1>3. /\ started[s] = None
      /\ store' = [store EXCEPT ![s] = c]
      /\ started' = [started EXCEPT ![s] = c]
      /\ UNCHANGED <<uses, collisions>>
    BY <1>1, <1>2 DEF handleStart, mayStart
<1>4. Phase(s) = "new"
    BY <1>3 DEF Phase
<1>5. Phase(s)' = "pending"
    <2>1. store'[s] = c /\ started'[s] = c /\ c # None
        BY <1>3, EnvironmentAssumption DEF TypeOK
    <2>2. ~c.consumed /\ c.state = "pending"
        BY <1>2 DEF newSession
    <2> QED BY <2>1, <2>2 DEF Phase
<1>6. ASSUME NEW x \in Sessions, x # s
      PROVE  Phase(x)' = Phase(x)
    <2>1. started'[x] = started[x] /\ store'[x] = store[x]
        BY <1>3, <1>6 DEF TypeOK
    <2> QED BY <2>1, PhaseKept
<1>7. Login!Move(s, {"new"}, "pending")
    BY <1>4, <1>5, <1>6, MovesMapped DEF Moves
<1>8. QED
    BY <1>3, <1>7 DEF Login!Forward, Login!ANext

\* The sweeper and a restart forget sessions; the other steps change no phase.
LEMMA OtherMapped ==
    ASSUME TypeOK, Provenance,
           \/ startRefused \/ notFound \/ Sweep \/ Tick \/ Crash \/ UNCHANGED vars
           \/ \E w \in Workers : Arrive(w)
    PROVE  Login!ANext
<1>1. /\ \A s \in Sessions : store'[s] = store[s] \/ store'[s] = None
      /\ UNCHANGED <<started, uses, collisions>>
    <2>1. CASE startRefused \/ notFound \/ Sweep \/ Tick \/ Crash \/ UNCHANGED vars
        BY <2>1 DEF startRefused, notFound, Sweep, Tick, Crash, vars, historyVars, TypeOK
    <2>2. CASE \E w \in Workers : Arrive(w)
        BY <2>2
        DEF Arrive, BeginVerify, BeginCallback, BeginApprove, BeginPoll, Begin, historyVars
    <2> QED BY <2>1, <2>2
<1>2. ASSUME NEW x \in Sessions
      PROVE  Phase(x)' = Phase(x) \/ (Phase(x)' = "gone" /\ Phase(x) # "new")
    <2>1. CASE store'[x] = store[x]
        BY <1>1, <2>1, PhaseKept
    <2>2. CASE store'[x] = None /\ store[x] # None
        <3>1. started[x] # None
            BY <2>2, PhaseIs
        <3>2. Phase(x)' = "gone"
            BY <1>1, <2>2, <3>1 DEF Phase
        <3>3. Phase(x) # "new"
            BY <2>2, PhaseIs DEF Later
        <3> QED BY <3>2, <3>3
    <2> QED BY <1>1, <2>1, <2>2
<1>3. QED
    BY <1>1, <1>2, ForgetsMapped DEF Forgets

\* No session has begun at first.
LEMMA InitMapped == Init => Login!AInit
BY DEF Init, Phase, Login!AInit

\* The concurrent handlers over a store that may fail implement the abstract
\* single-use login, in which a collision may set a session back and is worth
\* one more release at most; sweeps and restarts come at any moment.
THEOREM RefinesSingleUseLogin == Spec => ImplementsSingleUseLogin
<1>1. TypeOK /\ TypeOK' /\ Provenance /\ Provenance' /\ [Next]_vars
      => [Login!ANext]_(Login!avars)
    BY ServeMapped, StartMapped, OtherMapped DEF Next
<1>2. QED
    BY <1>1, InitMapped, TypeCorrect, ProvenanceHolds, PTL
    DEF Spec, ImplementsSingleUseLogin, Login!ASpec
=============================================================================
