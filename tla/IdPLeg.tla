------------------------------- MODULE IdPLeg -------------------------------
(***************************************************************************)
(* The broker's own leg to the identity provider: BeginLogin and           *)
(* CompleteLogin of internal/oidc and internal/saml, with the IdP and the  *)
(* browser between them.  Broker takes everything a login draws (state,    *)
(* nonce, PKCE verifier, or SAML request id) for one draw and an answer    *)
(* for one of such a draw; here they are apart, and the browser may return *)
(* any of what it has seen in any combination.                             *)
(*                                                                         *)
(* The IdP is external: it answers requests the broker made, or sends an   *)
(* answer nobody asked for, signs what it says, and may or may not check   *)
(* the PKCE verifier.                                                      *)
(***************************************************************************)
EXTENDS Discovery, Sequences, FiniteSets

CONSTANTS
    Sessions,
    Names,         \* values of the identity claim or attribute
    Missing,       \* no such claim, attribute or NameID
    Empty,         \* an empty one
    Methods,       \* amr values
    RequiredAMR,   \* Config.RequiredAMR, empty for none
    MaxDraws,      \* bound: logins begun
    MaxAnswers,    \* bound: sign-ins at the IdP
    None

ASSUME MethodsAssumption ==
    /\ RequiredAMR \subseteq Methods
    /\ {Missing, Empty} \cap Names = {}
    /\ MaxDraws \in Nat

VARIABLES
    provider,   \* the configuration, and whether the IdP checks PKCE
    leg,        \* session -> the fields BeginLogin sets on it
    begun,      \* the requests sent to the IdP by way of the browser
    answers,    \* what the IdP has vouched for: codes or signed responses
    out         \* the answer CompleteLogin just accepted, and for whom

legVars == <<provider, leg, begun, answers, out>>

-----------------------------------------------------------------------------
NoToken == 0
NoLeg == [state |-> NoToken, nonce |-> NoToken, verifier |-> NoToken,
          requestID |-> NoToken]
Legs == [state : 0..MaxDraws, nonce : 0..MaxDraws, verifier : 0..MaxDraws,
         requestID : 0..MaxDraws]
S256(v) == <<"S256", v>>

\* req is the request answered, Unsolicited for an answer to none.
Unsolicited == 0
Answer == [req : 0..MaxDraws, name : Names \cup {Missing, Empty},
           amr : SUBSET Methods]
\* byAttribute: a SAML IdentityAttribute is configured.
Providers == [protocol : {"oidc", "saml"}, checksPKCE : BOOLEAN,
              byAttribute : BOOLEAN]

IdPTypeOK ==
    /\ BootTypeOK
    /\ provider \in Providers
    /\ leg \in [Sessions -> Legs]
    /\ begun \in Seq([sess : Sessions, leg : Legs])
    /\ answers \subseteq Answer
    /\ out = None \/ out \in [sess : Sessions, answer : Answer]

\* The IdP sees the request's nonce, challenge or id, never the verifier.  What
\* nobody asked for carries none of them.
request(a) == IF a.req = Unsolicited THEN NoLeg ELSE begun[a.req].leg
nonceOf(a) == request(a).nonce
challengeOf(a) == S256(request(a).verifier)
inResponseTo(a) == request(a).requestID

\* The IdP redeems a code, against the challenge it keeps with it if it does.
redeems(verifier, a) ==
    provider.checksPKCE /\ a.req # Unsolicited => S256(verifier) = challengeOf(a)

\* The n-th login's draws.  (A SAML RelayState is the session id.)
drawLeg(n) ==
    IF provider.protocol = "oidc"
    THEN [state |-> n, nonce |-> n, verifier |-> n, requestID |-> NoToken]
    ELSE [NoLeg EXCEPT !.requestID = n]

\* BeginLogin; the redirect goes out once the session is stored.
BeginLogin(s) ==
    LET n == Len(begun) + 1
    IN  /\ boot = "ready"
        /\ n <= MaxDraws
        /\ leg' = [leg EXCEPT ![s] = drawLeg(n)]
        /\ begun' = Append(begun, [sess |-> s, leg |-> drawLeg(n)])
        /\ out' = None
        /\ UNCHANGED <<provider, answers>>

\* Another handler writes back a copy it took earlier.
held(s) == {NoLeg} \cup {begun[i].leg : i \in {j \in DOMAIN begun : begun[j].sess = s}}

StaleUpdate(s) ==
    /\ boot = "ready"
    /\ \E l \in held(s) : leg' = [leg EXCEPT ![s] = l]
    /\ out' = None
    /\ UNCHANGED <<provider, begun, answers>>

\* Somebody signs in at the IdP, for one of the requests or for none.
SignIn(a) ==
    /\ boot = "ready"
    /\ a.req \in DOMAIN begun \cup {Unsolicited}
    /\ Cardinality(answers) < MaxAnswers
    /\ answers' = answers \cup {a}
    /\ out' = None
    /\ UNCHANGED <<provider, leg, begun>>

-----------------------------------------------------------------------------
amrSatisfies(amr) == amr \cap RequiredAMR # {}

\* Exchange: the IdP redeems the code, then the checks on the token.
anyNonce(l, a) ==                                              \* mutant
    /\ redeems(l.verifier, a)
    /\ RequiredAMR # {} => amrSatisfies(a.amr)
    /\ a.name \notin {Missing, Empty}
Exchange(l, a) ==
    /\ redeems(l.verifier, a)
    /\ nonceOf(a) = l.nonce
    /\ RequiredAMR # {} => amrSatisfies(a.amr)
    /\ a.name \notin {Missing, Empty}

oidcAccepts(s, state, a) ==
    /\ state # NoToken
    /\ state = leg[s].state
    /\ Exchange(leg[s], a)

\* A NameID may be empty, an attribute may not.
identityFromAssertion(a) ==
    a.name \notin IF provider.byAttribute THEN {Missing, Empty} ELSE {Missing}

\* ParseResponse compares InResponseTo with the one id it is given, which is
\* empty if the session has none; so is an unsolicited response's.
samlAccepts(s, relayState, a) ==
    /\ relayState = s
    /\ inResponseTo(a) = leg[s].requestID
    /\ identityFromAssertion(a)

\* The callback for session s with a state or a RelayState and an answer.  The
\* cookie that names s comes with a login begun for it.
CompleteLogin(s, state, relayState, a) ==
    /\ \E i \in DOMAIN begun : begun[i].sess = s
    /\ out' = IF \/ provider.protocol = "oidc" /\ oidcAccepts(s, state, a)
                 \/ provider.protocol = "saml" /\ samlAccepts(s, relayState, a)
              THEN [sess |-> s, answer |-> a] ELSE None
    /\ UNCHANGED <<provider, leg, begun, answers>>

LegInit ==
    /\ provider \in Providers
    /\ leg = [s \in Sessions |-> NoLeg]
    /\ begun = <<>>
    /\ answers = {}
    /\ out = None

LegNext ==
    \/ \E s \in Sessions : BeginLogin(s) \/ StaleUpdate(s)
    \/ \E a \in Answer : SignIn(a)
    \/ \E s, r \in Sessions, n \in 0..MaxDraws, a \in answers : CompleteLogin(s, n, r, a)

Init == BootInit /\ LegInit
Next ==
    \/ BootNext /\ UNCHANGED legVars
    \/ LegNext /\ UNCHANGED bootVars

Spec == Init /\ [][Next]_<<bootVars, legVars>>
FairSpec == Spec /\ BootFairness

-----------------------------------------------------------------------------
\* An identity is accepted for a session only from the login the broker began
\* for that session and that its stored state belongs to, with a required
\* method if there is one, however the browser combines states, codes and
\* sessions, and even if the IdP does not check PKCE (CompleteLogin, Exchange).
\* An answer to no request at all gets through in one way: by SAML, to a session
\* whose request id another handler has erased (saml.go, StaleUpdate); the
\* README says that InResponseTo is checked against the broker's own request.
AnswersOwnLogin ==
    out # None =>
        LET a == out.answer
            own == /\ a.req \in DOMAIN begun
                   /\ begun[a.req].sess = out.sess
                   /\ begun[a.req].leg = leg[out.sess]
            erased == /\ a.req = Unsolicited
                      /\ provider.protocol = "saml"
                      /\ leg[out.sess] = NoLeg
        IN  /\ own \/ erased
            /\ a.name # Missing
            /\ provider.protocol = "oidc" /\ RequiredAMR # {}
                 => \E m \in RequiredAMR : m \in a.amr
=============================================================================
