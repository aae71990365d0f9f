------------------------------ MODULE Session ------------------------------
(***************************************************************************)
(* The pure session state machine of internal/broker/session.go: every     *)
(* operation takes a session and a clock reading and returns the changed   *)
(* session together with the error or the poll status it reports.  No      *)
(* operation here touches the store; Broker.tla reads, applies one of      *)
(* these and writes back, as handlers.go does.                             *)
(*                                                                         *)
(* Durations and times are naturals.  Random tokens (CSRF token, approval  *)
(* secret, IdP state) are positive numbers drawn from a counter, so that   *)
(* two draws never coincide; NoToken is the empty string.                  *)
(***************************************************************************)
EXTENDS Integers

CONSTANTS
    Names,              \* spellings of identities: login hints and IdP claims
    normalize,          \* Config.IdentityNormalizer, a function on Names
    Verifiers,          \* PKCE code verifiers
    TypedCodes,         \* user codes as they may be typed into the form
    UserCodes,          \* the codes GenerateUserCode may return
    normalizeUserCode,  \* a function on TypedCodes
    SessionTTL,         \* Config.SessionTTL
    PollInterval,       \* Config.PollInterval
    ArtifactTTL,        \* Config.ArtifactTTL
    maxApproveAttempts, \* 5 in the code
    None                \* nil, the empty string, no session

ASSUME NamesAssumption ==
    /\ None \notin Names
    /\ DOMAIN normalize = Names
ASSUME CodesAssumption ==
    /\ UserCodes \subseteq TypedCodes
    /\ DOMAIN normalizeUserCode = TypedCodes
ASSUME VerifiersAssumption == None \notin Verifiers
\* applyDefaults replaces a duration that is not positive.
ASSUME DurationsAssumption ==
    /\ SessionTTL \in Nat \ {0}
    /\ PollInterval \in Nat \ {0}
    /\ ArtifactTTL \in Nat \ {0}
ASSUME AttemptsAssumption == maxApproveAttempts \in Nat \ {0}

-----------------------------------------------------------------------------
NoToken == 0
Never == -1      \* the zero time.Time

States == {"pending", "awaiting_approval", "approved", "denied", "expired"}
Terminal == {"approved", "denied", "expired"}

forgetsApproved(st) == st \in {"denied", "expired"}             \* mutant
isTerminal(st) == st \in Terminal

\* SHA-256 as an injective constructor.
S256(v) == <<"S256", v>>
hashBinding(secret) == <<"sha256", secret>>
Hashes == {"sha256"} \X Nat

\* The fields the four checks and the handlers read.  ExpiresAt and Interval
\* are functions of the configuration; ClientKind, ClientHost, ClientIP and
\* VerifiedClient are shown to the user and never tested.
SessionRec ==
    [ hint : Names,
      challenge : {"S256"} \X Verifiers,
      userCode : UserCodes,
      createdAt : Nat,
      idpState : Nat,
      identity : Names \cup {None},
      identityAt : Nat \cup {Never},
      approveAttempts : Nat,
      csrfToken : Nat,
      approvalBindingHash : Hashes \cup {None},
      lastPollAt : Nat \cup {Never},
      state : States,
      consumed : BOOLEAN ]

newSession(hint, challenge, code, t) ==
    [ hint |-> hint,
      challenge |-> challenge,
      userCode |-> code,
      createdAt |-> t,
      idpState |-> NoToken,
      identity |-> None,
      identityAt |-> Never,
      approveAttempts |-> 0,
      csrfToken |-> NoToken,
      approvalBindingHash |-> None,
      lastPollAt |-> Never,
      state |-> "pending",
      consumed |-> FALSE ]

ExpiresAt(s) == s.createdAt + SessionTTL

expiresLate(s, t) == t > ExpiresAt(s) + SessionTTL             \* mutant
isExpired(s, t) == t > ExpiresAt(s)

\* The session after the lazy expiry check; the check reports true exactly
\* when the state is then "expired".
expireIfNeeded(s, t) ==
    IF ~isTerminal(s.state) /\ isExpired(s, t)
    THEN [s EXCEPT !.state = "expired"]
    ELSE s

-----------------------------------------------------------------------------
(* Check 4: the identity the IdP returned against login_hint.             *)

anyIdentity(s, name) == TRUE                                   \* mutant
identityMatches(s, name) == normalize[name] = normalize[s.hint]

\* n is the fresh draw that names both the CSRF token and the approval
\* secret, of which the session keeps the hash.
keepsSecret(s, n) ==                                           \* mutant
    [s EXCEPT !.csrfToken = n, !.approvalBindingHash = <<"plain", n>>,
              !.state = "awaiting_approval"]
awaitApproval(s, n) ==
    [s EXCEPT !.csrfToken = n, !.approvalBindingHash = hashBinding(n),
              !.state = "awaiting_approval"]

tokensFirst(s, name, t, n) ==                                  \* mutant
    [sess |-> IF identityMatches(s, name)
              THEN awaitApproval([s EXCEPT !.identity = name, !.identityAt = t], n)
              ELSE [awaitApproval([s EXCEPT !.identity = name, !.identityAt = t], n)
                      EXCEPT !.state = "denied"],
     err |-> IF identityMatches(s, name) THEN "nil" ELSE "ErrIdentityMismatch"]
bindIdentity(s, name, t, n) ==
    LET e == expireIfNeeded(s, t)
        bound == [e EXCEPT !.identity = name, !.identityAt = t]
    IN  IF e.state = "expired" THEN [sess |-> e, err |-> "ErrExpired"]
        ELSE IF e.state # "pending" THEN [sess |-> e, err |-> "ErrWrongState"]
        ELSE IF ~identityMatches(s, name)
             THEN [sess |-> [bound EXCEPT !.state = "denied"],
                   err |-> "ErrIdentityMismatch"]
        ELSE [sess |-> awaitApproval(bound, n), err |-> "nil"]

(* Check 2: number matching, from the browser that signed in.              *)

codesEqual(submitted, expected) ==
    normalizeUserCode[submitted] = normalizeUserCode[expected]

anyBrowser(s, presentedBinding) == TRUE                        \* mutant
boundTo(s, presentedBinding) ==
    /\ s.approvalBindingHash # None
    /\ hashBinding(presentedBinding) = s.approvalBindingHash

oneMoreAttempt(n) == n > maxApproveAttempts                    \* mutant
tooManyAttempts(n) == n >= maxApproveAttempts

deniedMayApprove(s) == s.state \in {"awaiting_approval", "denied"}  \* mutant
approvable(s) == s.state = "awaiting_approval"

approve(s, code, decisionApprove, t, presentedBinding) ==
    LET e == expireIfNeeded(s, t)
        tries == s.approveAttempts + 1
    IN  IF e.state = "expired" THEN [sess |-> e, err |-> "ErrExpired"]
        ELSE IF ~approvable(e) THEN [sess |-> e, err |-> "ErrWrongState"]
        ELSE IF ~boundTo(e, presentedBinding)
             THEN [sess |-> e, err |-> "ErrApprovalNotBound"]
        ELSE IF ~decisionApprove
             THEN [sess |-> [e EXCEPT !.state = "denied"], err |-> "nil"]
        ELSE IF codesEqual(code, e.userCode)
             THEN [sess |-> [e EXCEPT !.state = "approved"], err |-> "nil"]
        ELSE [sess |-> [e EXCEPT !.approveAttempts = tries,
                                 !.state = IF tooManyAttempts(tries)
                                           THEN "denied" ELSE @],
              err |-> "incorrect code"]

(* Check 1 (PKCE) and single-use consumption of the approved artifact.     *)

verifyClientPKCE(verifier, challenge) ==
    verifier # None /\ S256(verifier) = challenge

PollStatuses ==
    {"pending", "approved", "denied", "expired", "slow_down", "invalid_verifier"}

keepsArtifact(s) == s                                          \* mutant
consume(s) == [s EXCEPT !.consumed = TRUE]

consumesFirst(s, verifier, t) ==                               \* mutant
    IF s.state = "approved"
    THEN [sess |-> consume(s),
          status |-> IF s.consumed THEN "expired"
                     ELSE IF verifyClientPKCE(verifier, s.challenge)
                     THEN "approved" ELSE "invalid_verifier"]
    ELSE [sess |-> s, status |-> "pending"]
poll(s, verifier, t) ==
    LET e == expireIfNeeded(s, t)
        tooSoon == e.lastPollAt # Never /\ t - e.lastPollAt < PollInterval
    IN  IF \/ e.state = "expired"
           \/ e.state = "approved" /\ e.consumed
        THEN [sess |-> e, status |-> "expired"]
        ELSE IF ~verifyClientPKCE(verifier, e.challenge)
             THEN [sess |-> e, status |-> "invalid_verifier"]
        ELSE IF e.state = "approved"
             THEN [sess |-> consume(e), status |-> "approved"]
        ELSE IF tooSoon THEN [sess |-> e, status |-> "slow_down"]
        ELSE [sess |-> [e EXCEPT !.lastPollAt = t],
              status |-> IF e.state = "denied" THEN "denied" ELSE "pending"]

\* What an approved poll releases.
Artifact(s) ==
    [ identity |-> s.identity,
      approvedAt |-> s.identityAt,
      expiresAt |-> s.identityAt + ArtifactTTL ]
=============================================================================
