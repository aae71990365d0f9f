----------------------------- MODULE IdPProofs -----------------------------
(***************************************************************************)
(* The broker's start and its leg to the identity provider: what the runs  *)
(* check of Discovery and IdPLeg, for every backoff, deadline and attempt  *)
(* time, and any number of sessions, logins and answers.                   *)
(***************************************************************************)
EXTENDS IdPLeg, TLAPS

vars == <<bootVars, legVars>>

-----------------------------------------------------------------------------
(* retryDiscovery.                                                         *)

\* A sleep begins by the deadline, so that it and the attempt after it end in
\* bounded time.
ClockBounded ==
    /\ boot = "trying" => clock <= Deadline + maxBackoff - 1 + took
    /\ boot = "sleeping" => clock + left <= Deadline + maxBackoff - 1

\* An attempt that misses an IdP which came up in time began before it did,
\* and returns by the deadline.
MissedAttempt ==
    boot = "trying" /\ ~good /\ upInTime => clock + AttemptTime - took <= Deadline

\* The IdP stays up.
UpStays == (good => up) /\ (upInTime => up)

BootInv == BootTypeOK /\ ClockBounded /\ MissedAttempt /\ UpStays /\ SlowIdPIsFound

\* The start satisfies the invariant.
LEMMA BootInitInv == BootInit => BootInv
BY DiscoveryAssumption
DEF BootInit, BootInv, BootTypeOK, ClockBounded, MissedAttempt, UpStays,
    SlowIdPIsFound, maxBackoff, Latest

\* Every step of retryDiscovery and of the IdP's own start keeps it.
LEMMA BootStep == ASSUME BootInv, BootNext PROVE BootInv'
<1> USE DiscoveryAssumption
    DEF BootInv, BootTypeOK, ClockBounded, MissedAttempt, UpStays,
        SlowIdPIsFound, maxBackoff, Latest
<1>1. CASE Found
    <2>1. /\ boot' = "ready"
          /\ clock' = 0 /\ backoff' = FirstBackoff /\ left' = 0 /\ took' = 0
          /\ good' = FALSE /\ upInTime' = TRUE
          /\ up' = up
        BY <1>1 DEF Found
    <2>2. good /\ UpStays /\ up \in BOOLEAN
        BY <1>1 DEF Found
    <2>3. UpStays'
        BY <2>1, <2>2 DEF UpStays
    <2>4. BootTypeOK'
        <3>1. /\ clock' \in 0..Latest /\ backoff' \in 1..(maxBackoff - 1)
              /\ left' \in 0..backoff' /\ took' \in 0..AttemptTime
            BY <2>1
        <3>2. up' \in BOOLEAN /\ good' \in BOOLEAN /\ upInTime' \in BOOLEAN
            BY <2>1, <2>2
        <3> HIDE DEF BootInv, Latest, maxBackoff
        <3> QED BY <2>1, <3>1, <3>2, Zenon DEF BootTypeOK
    <2>5. ClockBounded' /\ MissedAttempt' /\ SlowIdPIsFound'
        BY <2>1
    <2> HIDE DEF BootTypeOK, ClockBounded, MissedAttempt, UpStays, SlowIdPIsFound
    <2> QED BY <2>3, <2>4, <2>5
<1>2. CASE Failed
    BY <1>2 DEF Failed, pastDeadline
<1>3. CASE Retry
    <2>1. backoff' \in 1..(maxBackoff - 1) /\ left' = 0 /\ backoff' \in Nat
        BY <1>3 DEF Retry, nextBackoff
    <2> QED BY <1>3, <2>1 DEF Retry
<1>4. CASE Interrupted
    BY <1>4 DEF Interrupted
<1>5. CASE IdPUp
    BY <1>5 DEF IdPUp
<1>6. CASE BootTick
    BY <1>6 DEF BootTick
<1>7. CASE Hang
    BY <1>7 DEF Hang
<1>8. QED
    BY <1>1, <1>2, <1>3, <1>4, <1>5, <1>6, <1>7 DEF BootNext

\* Steps of the other half of the system leave it alone.
LEMMA BootStutter == ASSUME BootInv, UNCHANGED bootVars PROVE BootInv'
BY DEF BootInv, BootTypeOK, ClockBounded, MissedAttempt, UpStays, SlowIdPIsFound,
       bootVars

\* The start of the broker keeps its invariant whatever else happens.
THEOREM BootHolds == Spec => []BootInv
<1>1. Init => BootInv
    BY BootInitInv DEF Init
<1>2. BootInv /\ [Next]_vars => BootInv'
    BY BootStep, BootStutter DEF Next, vars
<1>3. QED
    BY <1>1, <1>2, PTL DEF Spec, vars

\* retryDiscovery never gives up on an IdP that was up one attempt before the
\* deadline, whatever the backoff, the deadline and the attempt time are.
THEOREM SlowIdPFound == Spec => []SlowIdPIsFound
<1>1. BootInv => SlowIdPIsFound
    BY DEF BootInv
<1>2. QED
    BY <1>1, BootHolds, PTL

-----------------------------------------------------------------------------
(* BeginLogin and CompleteLogin.                                           *)

\* Every request carries the draws of its own number.
LegsDrawn == \A i \in DOMAIN begun : begun[i].leg = drawLeg(i)

\* A session carries the draws of a request made for it, or none.
LegsHeld == \A s \in Sessions : leg[s] \in held(s)

\* The IdP answers what it was asked, or nothing.
AnswersAsked == \A a \in answers : a.req \in DOMAIN begun \cup {Unsolicited}

LegTypeOK ==
    /\ provider \in Providers
    /\ leg \in [Sessions -> Legs]
    /\ begun \in Seq([sess : Sessions, leg : Legs])
    /\ answers \subseteq Answer
    /\ out = None \/ out \in [sess : Sessions, answer : Answer]

LegInv == LegTypeOK /\ LegsDrawn /\ LegsHeld /\ AnswersAsked /\ AnswersOwnLogin

\* The numbers of a login's draws: its own, whatever the protocol.
LEMMA DrawsDiffer ==
    ASSUME provider \in Providers, NEW m \in Nat \ {0}, NEW n \in Nat \ {0}
    PROVE  /\ provider.protocol = "oidc" => (drawLeg(m).nonce = drawLeg(n).nonce => m = n)
           /\ provider.protocol = "saml" =>
                (drawLeg(m).requestID = drawLeg(n).requestID => m = n)
           /\ provider.protocol = "oidc" => drawLeg(m).state = m
           /\ provider.protocol = "saml" => drawLeg(m).requestID = m
BY DEF drawLeg, NoLeg, Providers

\* Draws fit their type.
LEMMA DrawType ==
    ASSUME NEW n \in Nat, n <= MaxDraws
    PROVE  drawLeg(n) \in Legs /\ NoLeg \in Legs
BY MethodsAssumption DEF drawLeg, NoLeg, Legs, NoToken

\* No login has begun at first.
LEMMA LegInitInv == LegInit => LegInv
<1> SUFFICES ASSUME LegInit PROVE LegInv
    OBVIOUS
<1>1. NoLeg \in Legs
    BY MethodsAssumption DEF NoLeg, Legs, NoToken
<1>2. LegTypeOK
    BY <1>1 DEF LegInit, LegTypeOK
<1>3. LegsDrawn /\ LegsHeld /\ AnswersAsked /\ AnswersOwnLogin
    BY DEF LegInit, LegsDrawn, LegsHeld, held, AnswersAsked, AnswersOwnLogin
<1>4. QED BY <1>2, <1>3 DEF LegInv

\* BeginLogin keeps the invariant: the new draws are nobody else's.
LEMMA BeginLoginInv ==
    ASSUME LegInv, NEW s \in Sessions, BeginLogin(s)
    PROVE  LegInv'
<1> DEFINE n == Len(begun) + 1
           q == [sess |-> s, leg |-> drawLeg(n)]
           R == [sess : Sessions, leg : Legs]
<1>1. /\ LegTypeOK /\ LegsDrawn /\ LegsHeld /\ AnswersAsked
      /\ begun \in Seq(R)
    BY DEF LegInv, LegTypeOK
<1>2. n \in Nat /\ n <= MaxDraws /\ Len(begun) \in Nat
    BY <1>1 DEF BeginLogin
<1>3. drawLeg(n) \in Legs
    BY <1>2, DrawType
<1>4. q \in R
    BY <1>3
<1>5. /\ leg' = [leg EXCEPT ![s] = drawLeg(n)]
      /\ begun' = Append(begun, q)
      /\ out' = None
      /\ provider' = provider
      /\ answers' = answers
    BY DEF BeginLogin
<1> HIDE DEF q, R
<1>6. /\ begun' \in Seq(R)
      /\ DOMAIN begun = 1..Len(begun)
      /\ DOMAIN begun' = 1..n
      /\ begun'[n] = q
      /\ \A i \in DOMAIN begun : begun'[i] = begun[i]
    BY <1>1, <1>2, <1>4, <1>5
<1>7. q.sess = s /\ q.leg = drawLeg(n)
    BY DEF q
<1>8. LegTypeOK'
    BY <1>1, <1>3, <1>5, <1>6 DEF LegTypeOK, R
<1>9. \A i : drawLeg(i)' = drawLeg(i)
    BY <1>5 DEF drawLeg
<1>10. LegsDrawn'
    BY <1>1, <1>2, <1>6, <1>7, <1>9 DEF LegsDrawn
<1>11. \A x \in Sessions : held(x) \subseteq held(x)'
    BY <1>2, <1>6 DEF held
<1>12. drawLeg(n) \in held(s)'
    BY <1>2, <1>6, <1>7 DEF held
<1>13. LegsHeld'
    BY <1>1, <1>5, <1>11, <1>12 DEF LegsHeld, LegTypeOK
<1>14. AnswersAsked'
    BY <1>1, <1>2, <1>5, <1>6 DEF AnswersAsked, Unsolicited
<1>15. AnswersOwnLogin'
    BY <1>5 DEF AnswersOwnLogin
<1>16. QED
    BY <1>8, <1>10, <1>13, <1>14, <1>15 DEF LegInv

\* A stale write puts back draws of the same session.
LEMMA StaleUpdateInv ==
    ASSUME LegInv, NEW s \in Sessions, StaleUpdate(s)
    PROVE  LegInv'
<1>1. PICK l \in held(s) : leg' = [leg EXCEPT ![s] = l]
    BY DEF StaleUpdate
<1>2. UNCHANGED <<provider, begun, answers>> /\ out' = None
    BY DEF StaleUpdate
<1>3. LegTypeOK
    BY DEF LegInv
<1>4. l \in Legs
    <2>1. NoLeg \in Legs
        BY MethodsAssumption DEF NoLeg, Legs, NoToken
    <2>2. \A j \in DOMAIN begun : begun[j].leg \in Legs
        <3> DEFINE R == [sess : Sessions, leg : Legs]
        <3>1. begun \in Seq(R)
            BY <1>3 DEF LegTypeOK
        <3> HIDE DEF R
        <3>2. \A j \in DOMAIN begun : begun[j] \in R
            BY <3>1
        <3> QED BY <3>2 DEF R
    <2> QED BY <1>1, <2>1, <2>2 DEF held
<1>5. LegTypeOK'
    BY <1>1, <1>2, <1>3, <1>4 DEF LegTypeOK
<1>6. LegsDrawn' /\ AnswersAsked' /\ AnswersOwnLogin'
    BY <1>2 DEF LegInv, LegsDrawn, drawLeg, AnswersAsked, AnswersOwnLogin
<1>7. LegsHeld'
    BY <1>1, <1>2, <1>3 DEF LegInv, LegsHeld, held, LegTypeOK
<1>8. QED
    BY <1>5, <1>6, <1>7 DEF LegInv

\* A sign-in answers one of the requests or none.
LEMMA SignInInv ==
    ASSUME LegInv, NEW a \in Answer, SignIn(a)
    PROVE  LegInv'
<1>1. /\ answers' = answers \cup {a}
      /\ a.req \in DOMAIN begun \cup {Unsolicited}
      /\ out' = None
      /\ UNCHANGED <<provider, leg, begun>>
    BY DEF SignIn
<1>2. LegTypeOK'
    BY <1>1 DEF LegInv, LegTypeOK
<1>3. LegsDrawn' /\ LegsHeld' /\ AnswersOwnLogin'
    BY <1>1 DEF LegInv, LegsDrawn, drawLeg, LegsHeld, held, AnswersOwnLogin
<1>4. AnswersAsked'
    BY <1>1 DEF LegInv, AnswersAsked
<1>5. QED
    BY <1>2, <1>3, <1>4 DEF LegInv

\* An accepted answer to a request is to the one whose draws the session
\* carries: the nonce, or the SAML request id, tells them apart.
LEMMA AcceptedIsOwn ==
    ASSUME LegInv, NEW s \in Sessions, NEW r, NEW n, NEW a \in answers,
           a.req # Unsolicited,
           \/ provider.protocol = "oidc" /\ oidcAccepts(s, n, a)
           \/ provider.protocol = "saml" /\ samlAccepts(s, r, a)
    PROVE  /\ a.req \in DOMAIN begun
           /\ begun[a.req].sess = s
           /\ begun[a.req].leg = leg[s]
<1>1. PICK k \in Nat \ {0} : k = a.req /\ k \in DOMAIN begun /\ begun[k].leg = drawLeg(k)
    BY DEF LegInv, AnswersAsked, LegTypeOK, LegsDrawn
<1>2. provider \in Providers
    BY DEF LegInv, LegTypeOK
<1>3. request(a) = drawLeg(k)
    BY <1>1 DEF request
<1>4. leg[s] # NoLeg
    <2>1. drawLeg(k).requestID = NoToken => provider.protocol # "saml"
        BY <1>1, <1>2, DrawsDiffer DEF NoToken
    <2> QED
        BY <1>3, <2>1
        DEF oidcAccepts, samlAccepts, inResponseTo, NoLeg, NoToken
<1>5. PICK i \in DOMAIN begun : begun[i].sess = s /\ leg[s] = begun[i].leg
    BY <1>4 DEF LegInv, LegsHeld, held
<1>6. i \in Nat \ {0} /\ leg[s] = drawLeg(i)
    BY <1>5 DEF LegInv, LegsDrawn, LegTypeOK
<1>7. i = k
    <2>1. CASE provider.protocol = "oidc" /\ oidcAccepts(s, n, a)
        <3>1. drawLeg(k).nonce = drawLeg(i).nonce
            BY <1>3, <1>6, <2>1 DEF oidcAccepts, Exchange, nonceOf
        <3> QED BY <1>1, <1>2, <1>6, <2>1, <3>1, DrawsDiffer
    <2>2. CASE provider.protocol = "saml" /\ samlAccepts(s, r, a)
        <3>1. drawLeg(k).requestID = drawLeg(i).requestID
            BY <1>3, <1>6, <2>2 DEF samlAccepts, inResponseTo
        <3> QED BY <1>1, <1>2, <1>6, <2>2, <3>1, DrawsDiffer
    <2> QED BY <2>1, <2>2
<1>8. QED
    BY <1>1, <1>5, <1>7

\* An answer to no request is never accepted by OIDC, where state and nonce are
\* drawn together, and by SAML only without a request id.
LEMMA UnsolicitedNeedsErased ==
    ASSUME LegInv, NEW s \in Sessions, NEW r, NEW n, NEW a \in answers,
           a.req = Unsolicited,
           \/ provider.protocol = "oidc" /\ oidcAccepts(s, n, a)
           \/ provider.protocol = "saml" /\ samlAccepts(s, r, a)
    PROVE  provider.protocol = "saml" /\ leg[s] = NoLeg
<1>1. request(a) = NoLeg
    BY DEF request
<1>2. provider \in Providers
    BY DEF LegInv, LegTypeOK
<1>3. SUFFICES ASSUME leg[s] # NoLeg PROVE FALSE
    BY <1>1 DEF oidcAccepts, NoLeg, NoToken
<1>4. PICK i \in DOMAIN begun : leg[s] = begun[i].leg
    BY <1>3 DEF LegInv, LegsHeld, held
<1>5. i \in Nat \ {0} /\ leg[s] = drawLeg(i)
    BY <1>4 DEF LegInv, LegsDrawn, LegTypeOK
<1>6. CASE provider.protocol = "oidc" /\ oidcAccepts(s, n, a)
    <2>1. leg[s].nonce = NoToken
        BY <1>1, <1>6 DEF oidcAccepts, Exchange, nonceOf, NoLeg
    <2>2. leg[s].nonce = i
        BY <1>5, <1>6 DEF drawLeg
    <2> QED BY <1>5, <2>1, <2>2 DEF NoToken
<1>7. CASE provider.protocol = "saml" /\ samlAccepts(s, r, a)
    <2>1. leg[s].requestID = NoToken
        BY <1>1, <1>7 DEF samlAccepts, inResponseTo, NoLeg
    <2>2. leg[s].requestID = i
        BY <1>2, <1>5, <1>7, DrawsDiffer
    <2> QED BY <1>5, <2>1, <2>2 DEF NoToken
<1>8. QED
    BY <1>6, <1>7

\* CompleteLogin keeps the invariant.
LEMMA CompleteLoginInv ==
    ASSUME LegInv, NEW s \in Sessions, NEW r \in Sessions, NEW n, NEW a \in answers,
           CompleteLogin(s, n, r, a)
    PROVE  LegInv'
<1> DEFINE Accepts == \/ provider.protocol = "oidc" /\ oidcAccepts(s, n, a)
                      \/ provider.protocol = "saml" /\ samlAccepts(s, r, a)
<1>1. /\ out' = IF Accepts THEN [sess |-> s, answer |-> a] ELSE None
      /\ UNCHANGED <<provider, leg, begun, answers>>
    BY DEF CompleteLogin
<1>2. a \in Answer
    BY DEF LegInv, LegTypeOK
<1>3. LegTypeOK'
    <2> HIDE DEF Accepts
    <2> QED BY <1>1, <1>2 DEF LegInv, LegTypeOK
<1>4. LegsDrawn' /\ LegsHeld' /\ AnswersAsked'
    BY <1>1 DEF LegInv, LegsDrawn, drawLeg, LegsHeld, held, AnswersAsked
<1>5. AnswersOwnLogin'
    <2> SUFFICES ASSUME out' # None
                 PROVE  AnswersOwnLogin'
        BY DEF AnswersOwnLogin
    <2>1. Accepts /\ out'.sess = s /\ out'.answer = a
        <3> HIDE DEF Accepts
        <3> QED BY <1>1
    <2>2. /\ a.name # Missing
          /\ provider.protocol = "oidc" /\ RequiredAMR # {}
               => \E m \in RequiredAMR : m \in a.amr
        BY <2>1
        DEF oidcAccepts, samlAccepts, Exchange, amrSatisfies, identityFromAssertion
    <2>3. CASE a.req # Unsolicited
        <3>1. a.req \in DOMAIN begun /\ begun[a.req].sess = s /\ begun[a.req].leg = leg[s]
            BY <2>1, <2>3, AcceptedIsOwn
        <3> QED BY <1>1, <2>1, <2>2, <3>1 DEF AnswersOwnLogin
    <2>4. CASE a.req = Unsolicited
        <3>1. provider.protocol = "saml" /\ leg[s] = NoLeg
            BY <2>1, <2>4, UnsolicitedNeedsErased
        <3> QED BY <1>1, <2>1, <2>2, <2>4, <3>1 DEF AnswersOwnLogin
    <2> QED BY <2>3, <2>4
<1>6. QED
    BY <1>3, <1>4, <1>5 DEF LegInv

\* Every step keeps the invariant of the leg.
LEMMA LegStep == ASSUME LegInv, [Next]_vars PROVE LegInv'
<1>1. CASE UNCHANGED legVars
    BY <1>1
    DEF legVars, LegInv, LegTypeOK, LegsDrawn, drawLeg, LegsHeld, held,
        AnswersAsked, AnswersOwnLogin
<1>2. CASE LegNext
    BY <1>2, BeginLoginInv, StaleUpdateInv, SignInInv, CompleteLoginInv DEF LegNext
<1>3. QED
    BY <1>1, <1>2 DEF Next, vars

\* The draws stay apart, and nobody is answered for another's login.
THEOREM LegHolds == Spec => []LegInv
<1>1. Init => LegInv
    BY LegInitInv DEF Init
<1>2. LegInv /\ [Next]_vars => LegInv'
    BY LegStep
<1>3. QED
    BY <1>1, <1>2, PTL DEF Spec, vars

\* Boot and leg keep their types: the clock of retryDiscovery never passes the
\* deadline by more than one longest sleep and one attempt.
THEOREM IdPTypeCorrect == Spec => []IdPTypeOK
<1>1. BootInv /\ LegInv => IdPTypeOK
    BY DEF BootInv, LegInv, LegTypeOK, IdPTypeOK
<1>2. QED
    BY <1>1, BootHolds, LegHolds, PTL

\* CompleteLogin accepts only the answer to the session's own login, with a
\* required method, however many sessions, requests and answers there are, and
\* even if the IdP checks no PKCE.
THEOREM AnswerIsOwn == Spec => []AnswersOwnLogin
<1>1. LegInv => AnswersOwnLogin
    BY DEF LegInv
<1>2. QED
    BY <1>1, LegHolds, PTL
=============================================================================
