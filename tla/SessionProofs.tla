--------------------------- MODULE SessionProofs ---------------------------
(***************************************************************************)
(* Facts about the pure operations of Session.tla, for every session and   *)
(* every clock reading.                                                    *)
(***************************************************************************)
EXTENDS Session, TLAPS

\* The lazy expiry check yields a session: the same one, or one that differs
\* in its state only, which is then "expired" (expireIfNeeded).
LEMMA ExpireType ==
    ASSUME NEW s \in SessionRec, NEW t \in Nat
    PROVE  expireIfNeeded(s, t) \in SessionRec
<1>1. CASE ~isTerminal(s.state) /\ isExpired(s, t)
    BY <1>1 DEF expireIfNeeded, SessionRec, States
<1>2. CASE ~(~isTerminal(s.state) /\ isExpired(s, t))
    BY <1>2 DEF expireIfNeeded
<1>3. QED BY <1>1, <1>2

\* What the lazy expiry check does, for use without its definition.
LEMMA ExpireCases ==
    ASSUME NEW s \in SessionRec, NEW t \in Nat
    PROVE  LET e == expireIfNeeded(s, t)
           IN  \/ e = s /\ (isTerminal(s.state) \/ ~isExpired(s, t))
               \/ /\ e = [s EXCEPT !.state = "expired"]
                  /\ ~isTerminal(s.state)
BY DEF expireIfNeeded

\* bindIdentity returns a session.
LEMMA BindType ==
    ASSUME NEW s \in SessionRec, NEW name \in Names, NEW t \in Nat,
           NEW n \in Nat
    PROVE  bindIdentity(s, name, t, n).sess \in SessionRec
<1> DEFINE e == expireIfNeeded(s, t)
           bound == [e EXCEPT !.identity = name, !.identityAt = t]
<1>1. e \in SessionRec
    BY ExpireType
<1>2. bound \in SessionRec
    <2> HIDE DEF e
    <2> QED BY <1>1 DEF SessionRec
<1>3. [bound EXCEPT !.state = "denied"] \in SessionRec
    <2> HIDE DEF bound
    <2> QED BY <1>2 DEF SessionRec, States
<1>4. awaitApproval(bound, n) \in SessionRec
    <2> HIDE DEF bound
    <2>1. hashBinding(n) \in Hashes
        BY DEF hashBinding, Hashes
    <2> QED BY <1>2, <2>1 DEF awaitApproval, SessionRec, States
<1> HIDE DEF bound
<1>5. QED
    BY <1>1, <1>3, <1>4 DEF bindIdentity, bound

\* approve returns a session.
LEMMA ApproveType ==
    ASSUME NEW s \in SessionRec, NEW code, NEW d, NEW t \in Nat,
           NEW secret \in Nat
    PROVE  approve(s, code, d, t, secret).sess \in SessionRec
<1> DEFINE e == expireIfNeeded(s, t)
           tries == s.approveAttempts + 1
<1>1. e \in SessionRec
    BY ExpireType
<1>2. tries \in Nat
    BY DEF SessionRec
<1> HIDE DEF e, tries
<1>3. /\ [e EXCEPT !.state = "denied"] \in SessionRec
      /\ [e EXCEPT !.state = "approved"] \in SessionRec
    BY <1>1 DEF SessionRec, States
<1>4. [e EXCEPT !.approveAttempts = tries,
                !.state = IF tooManyAttempts(tries) THEN "denied" ELSE @]
         \in SessionRec
    <2> DEFINE st == IF tooManyAttempts(tries) THEN "denied" ELSE e.state
    <2>1. st \in States
        BY <1>1 DEF SessionRec, States
    <2> HIDE DEF st
    <2>2. [e EXCEPT !.approveAttempts = tries, !.state = st] \in SessionRec
        BY <1>1, <1>2, <2>1 DEF SessionRec
    <2> QED BY <2>2 DEF st
<1>5. QED
    BY <1>1, <1>3, <1>4 DEF approve, e, tries

\* poll returns a session.
LEMMA PollType ==
    ASSUME NEW s \in SessionRec, NEW verifier, NEW t \in Nat
    PROVE  poll(s, verifier, t).sess \in SessionRec
<1> DEFINE e == expireIfNeeded(s, t)
<1>1. e \in SessionRec
    BY ExpireType
<1> HIDE DEF e
<1>2. consume(e) \in SessionRec
    BY <1>1 DEF consume, SessionRec
<1>3. [e EXCEPT !.lastPollAt = t] \in SessionRec
    BY <1>1 DEF SessionRec
<1>4. QED
    BY <1>1, <1>2, <1>3 DEF poll, e

\* handleStart creates a session.
LEMMA NewType ==
    ASSUME NEW hint \in Names, NEW v \in Verifiers, NEW code \in UserCodes,
           NEW t \in Nat
    PROVE  newSession(hint, S256(v), code, t) \in SessionRec
BY DEF newSession, S256, SessionRec, States, NoToken, Never

\* What a bindIdentity on a pending copy that has not expired returns.
BindReturns(res, c, name, t, n) ==
    LET bound == [c EXCEPT !.identity = name, !.identityAt = t]
    IN  /\ res.err = "nil" =>
             /\ c.state = "pending"
             /\ t <= ExpiresAt(c)
             /\ identityMatches(c, name)
             /\ res.sess = awaitApproval(bound, n)
        /\ res.err = "ErrIdentityMismatch" =>
             /\ c.state = "pending"
             /\ res.sess = [bound EXCEPT !.state = "denied"]

\* bindIdentity binds only the hinted identity, to a pending session, in time.
LEMMA BindCases ==
    ASSUME NEW c \in SessionRec, NEW name \in Names, NEW t \in Nat, NEW n \in Nat
    PROVE  BindReturns(bindIdentity(c, name, t, n), c, name, t, n)
<1> USE DEF BindReturns
<1> DEFINE e == expireIfNeeded(c, t)
<1>1. \/ e = c /\ (isTerminal(c.state) \/ ~isExpired(c, t))
      \/ e.state = "expired"
    BY DEF expireIfNeeded, SessionRec
<1>2. c.createdAt \in Nat /\ ExpiresAt(c) \in Nat
    BY DurationsAssumption DEF SessionRec, ExpiresAt
<1>3. CASE e.state = "expired"
    <2> HIDE DEF e
    <2>1. bindIdentity(c, name, t, n) = [sess |-> e, err |-> "ErrExpired"]
        BY <1>3 DEF bindIdentity, e
    <2> QED BY <2>1
<1>4. CASE e = c /\ c.state # "pending" /\ e.state # "expired"
    <2> HIDE DEF e
    <2>1. bindIdentity(c, name, t, n) = [sess |-> e, err |-> "ErrWrongState"]
        BY <1>4 DEF bindIdentity, e
    <2> QED BY <2>1
<1>5. CASE e = c /\ c.state = "pending"
    <2>1. t <= ExpiresAt(c)
        BY <1>1, <1>2, <1>5 DEF isTerminal, Terminal, isExpired
    <2> HIDE DEF e
    <2> DEFINE bound == [c EXCEPT !.identity = name, !.identityAt = t]
    <2>2. bindIdentity(c, name, t, n) =
            IF ~identityMatches(c, name)
            THEN [sess |-> [bound EXCEPT !.state = "denied"],
                  err |-> "ErrIdentityMismatch"]
            ELSE [sess |-> awaitApproval(bound, n), err |-> "nil"]
        BY <1>5 DEF bindIdentity, e
    <2> HIDE DEF bound
    <2>3. QED BY <1>5, <2>1, <2>2 DEF bound
<1>6. QED BY <1>1, <1>3, <1>4, <1>5

\* What approve returns: a decision or a wrong code only from a session that
\* awaits approval, with the right browser secret; else the expired check.
ApproveReturns(res, c, code, t, secret) ==
    /\ res.err \in {"nil", "incorrect code"} =>
         /\ c.state = "awaiting_approval"
         /\ boundTo(c, secret)
         /\ \E k \in Nat, st \in {"awaiting_approval", "approved", "denied"} :
              /\ res.sess = [c EXCEPT !.approveAttempts = k, !.state = st]
              /\ st = "approved" =>
                   res.err = "nil" /\ codesEqual(code, c.userCode)
    /\ res.err \notin {"nil", "incorrect code"} =>
         res.sess = expireIfNeeded(c, t)

\* approve decides for a session awaiting approval and its own browser only.
LEMMA ApproveCases ==
    ASSUME NEW c \in SessionRec, NEW code, NEW d, NEW t \in Nat, NEW secret
    PROVE  ApproveReturns(approve(c, code, d, t, secret), c, code, t, secret)
<1> USE DEF ApproveReturns
<1> DEFINE e == expireIfNeeded(c, t)
           tries == c.approveAttempts + 1
           k0 == c.approveAttempts
<1>1. e = c \/ e.state = "expired"
    BY DEF expireIfNeeded, SessionRec
<1>2. k0 \in Nat /\ tries \in Nat
    BY DEF SessionRec
<1>3. CASE e.state = "expired"
    <2> HIDE DEF e
    <2>1. approve(c, code, d, t, secret) = [sess |-> e, err |-> "ErrExpired"]
        BY <1>3 DEF approve, e
    <2> QED BY <2>1 DEF e
<1>4. CASE e = c /\ e.state # "expired" /\ ~approvable(e)
    <2> HIDE DEF e
    <2>1. approve(c, code, d, t, secret) = [sess |-> e, err |-> "ErrWrongState"]
        BY <1>4 DEF approve, e
    <2> QED BY <2>1 DEF e
<1>5. CASE e = c /\ e.state # "expired" /\ approvable(e) /\ ~boundTo(e, secret)
    <2> HIDE DEF e
    <2>1. approve(c, code, d, t, secret) = [sess |-> e, err |-> "ErrApprovalNotBound"]
        BY <1>5 DEF approve, e
    <2> QED BY <2>1 DEF e
<1>6. CASE e = c /\ approvable(e) /\ boundTo(e, secret) /\ e.state # "expired"
    <2>1. c.state = "awaiting_approval" /\ boundTo(c, secret)
        BY <1>6 DEF approvable
    <2> HIDE DEF e
    <2>2. approve(c, code, d, t, secret) =
            IF ~d THEN [sess |-> [c EXCEPT !.state = "denied"], err |-> "nil"]
            ELSE IF codesEqual(code, c.userCode)
            THEN [sess |-> [c EXCEPT !.state = "approved"], err |-> "nil"]
            ELSE [sess |-> [c EXCEPT !.approveAttempts = tries,
                                     !.state = IF tooManyAttempts(tries)
                                               THEN "denied" ELSE @],
                  err |-> "incorrect code"]
        BY <1>6, <2>1 DEF approve, e
    <2>3. \A st : [c EXCEPT !.state = st] =
                  [c EXCEPT !.approveAttempts = k0, !.state = st]
        BY DEF SessionRec
    <2> DEFINE res == approve(c, code, d, t, secret)
               Goal == \E k \in Nat, st \in {"awaiting_approval", "approved", "denied"} :
                         /\ res.sess = [c EXCEPT !.approveAttempts = k, !.state = st]
                         /\ st = "approved" =>
                              res.err = "nil" /\ codesEqual(code, c.userCode)
    <2>4. ASSUME NEW k \in Nat, NEW st \in {"awaiting_approval", "approved", "denied"},
                 NEW er \in {"nil", "incorrect code"},
                 res = [sess |-> [c EXCEPT !.approveAttempts = k, !.state = st],
                        err |-> er],
                 st = "approved" => er = "nil" /\ codesEqual(code, c.userCode)
          PROVE  res.err \in {"nil", "incorrect code"} /\ Goal
        <3> HIDE DEF res
        <3>1. /\ res.sess = [c EXCEPT !.approveAttempts = k, !.state = st]
              /\ res.err = er
            BY <2>4
        <3>2. Goal
            BY <2>4, <3>1
        <3> QED BY <3>1, <3>2
    <2>5. CASE ~d
        <3>1. approve(c, code, d, t, secret) =
                [sess |-> [c EXCEPT !.approveAttempts = k0, !.state = "denied"],
                 err |-> "nil"]
            BY <2>2, <2>3, <2>5
        <3> HIDE DEF k0, Goal
        <3>2. res.err \in {"nil", "incorrect code"} /\ Goal
            BY <1>2, <2>4, <3>1
        <3> QED BY <2>1, <3>2 DEF Goal
    <2>6. CASE d /\ codesEqual(code, c.userCode)
        <3>1. approve(c, code, d, t, secret) =
                [sess |-> [c EXCEPT !.approveAttempts = k0, !.state = "approved"],
                 err |-> "nil"]
            BY <2>2, <2>3, <2>6
        <3> HIDE DEF k0, Goal
        <3>2. res.err \in {"nil", "incorrect code"} /\ Goal
            BY <1>2, <2>6, <2>4, <3>1
        <3> QED BY <2>1, <3>2 DEF Goal
    <2>7. CASE d /\ ~codesEqual(code, c.userCode)
        <3> DEFINE st == IF tooManyAttempts(tries) THEN "denied" ELSE c.state
        <3>1. approve(c, code, d, t, secret) =
                [sess |-> [c EXCEPT !.approveAttempts = tries, !.state = st],
                 err |-> "incorrect code"]
            BY <2>2, <2>7
        <3>2. st \in {"awaiting_approval", "denied"}
            BY <2>1
        <3> HIDE DEF st, tries, Goal
        <3>3. res.err \in {"nil", "incorrect code"} /\ Goal
            BY <1>2, <2>4, <3>1, <3>2
        <3> QED BY <2>1, <3>3 DEF Goal
    <2> QED BY <2>5, <2>6, <2>7
<1>7. QED BY <1>1, <1>3, <1>4, <1>5, <1>6

\* What poll returns: the artifact only of an approved, unconsumed session and
\* against its PKCE challenge, and then marked consumed.
PollReturns(res, c, verifier, t) ==
    LET e == expireIfNeeded(c, t)
    IN  /\ res.status = "approved" =>
             /\ c.state = "approved"
             /\ ~c.consumed
             /\ verifyClientPKCE(verifier, c.challenge)
             /\ res.sess = consume(c)
        /\ res.status # "approved" =>
             res.sess = e \/ res.sess = [e EXCEPT !.lastPollAt = t]

\* poll releases what is approved and unconsumed, and consumes it.
LEMMA PollCases ==
    ASSUME NEW c \in SessionRec, NEW verifier, NEW t \in Nat
    PROVE  PollReturns(poll(c, verifier, t), c, verifier, t)
<1> USE DEF PollReturns
<1> DEFINE e == expireIfNeeded(c, t)
           later == [e EXCEPT !.lastPollAt = t]
           used == consume(e)
<1>1. e = c \/ e.state = "expired"
    BY DEF expireIfNeeded, SessionRec
<1>2. CASE e.state = "approved" /\ ~e.consumed /\ verifyClientPKCE(verifier, e.challenge)
    <2>1. e = c
        BY <1>1, <1>2
    <2> HIDE DEF e
    <2>2. poll(c, verifier, t) = [sess |-> used, status |-> "approved"]
        BY <1>2 DEF poll, e
    <2> QED BY <1>2, <2>1, <2>2
<1>3. CASE ~(e.state = "approved" /\ ~e.consumed /\ verifyClientPKCE(verifier, e.challenge))
    <2> HIDE DEF e, later, used
    <2>1. \/ poll(c, verifier, t) = [sess |-> e, status |-> "expired"]
          \/ poll(c, verifier, t) = [sess |-> e, status |-> "invalid_verifier"]
          \/ poll(c, verifier, t) = [sess |-> e, status |-> "slow_down"]
          \/ poll(c, verifier, t) = [sess |-> later, status |-> "denied"]
          \/ poll(c, verifier, t) = [sess |-> later, status |-> "pending"]
        BY <1>3 DEF poll, e, later
    <2> QED BY <2>1 DEF e, later
<1>4. QED BY <1>2, <1>3

-----------------------------------------------------------------------------
(* One operation of a session, whichever it is: how far it moves the       *)
(* session.  wrong says that it compared a wrong code, released that it    *)
(* handed the artifact out.                                                *)

Forward(from, to) ==
    \/ to = from
    \/ from = "pending" /\ to = "awaiting_approval"
    \/ from = "awaiting_approval" /\ to = "approved"
    \/ from \in {"pending", "awaiting_approval"} /\ to \in {"denied", "expired"}

Advances(c, d, wrong, released) ==
    /\ Forward(c.state, d.state)
    /\ ~released => d.consumed = c.consumed
    /\ released => /\ c.state = "approved" /\ ~c.consumed
                   /\ d.state = "approved" /\ d.consumed
    /\ ~wrong => d.approveAttempts = c.approveAttempts
    /\ wrong => /\ c.state = "awaiting_approval"
                /\ d.approveAttempts = c.approveAttempts + 1
                /\ d.state = IF tooManyAttempts(d.approveAttempts)
                             THEN "denied" ELSE "awaiting_approval"

\* The lazy expiry check moves a session forward, if at all.
LEMMA ExpireAdvances ==
    ASSUME NEW c \in SessionRec, NEW t \in Nat
    PROVE  Advances(c, expireIfNeeded(c, t), FALSE, FALSE)
<1>1. c.state \in States
    BY DEF SessionRec
<1>2. CASE expireIfNeeded(c, t) = c
    BY <1>2 DEF Advances, Forward
<1>3. CASE expireIfNeeded(c, t) = [c EXCEPT !.state = "expired"]
           /\ ~isTerminal(c.state)
    <2> DEFINE e == [c EXCEPT !.state = "expired"]
    <2>1. /\ e.state = "expired"
          /\ e.consumed = c.consumed
          /\ e.approveAttempts = c.approveAttempts
        BY DEF SessionRec
    <2> HIDE DEF e
    <2>2. Advances(c, e, FALSE, FALSE)
        BY <1>1, <1>3, <2>1 DEF Advances, Forward, States, isTerminal, Terminal
    <2> QED BY <1>3, <2>2 DEF e
<1>4. QED BY <1>2, <1>3, ExpireCases

\* bindIdentity, when it answers as handleIdPResponse expects, signs the user
\* in or denies.
LEMMA BindAdvances ==
    ASSUME NEW c \in SessionRec, NEW name \in Names, NEW t \in Nat, NEW n \in Nat,
           bindIdentity(c, name, t, n).err \in {"nil", "ErrIdentityMismatch"}
    PROVE  Advances(c, bindIdentity(c, name, t, n).sess, FALSE, FALSE)
<1> DEFINE res == bindIdentity(c, name, t, n)
           bound == [c EXCEPT !.identity = name, !.identityAt = t]
<1>1. BindReturns(res, c, name, t, n)
    BY BindCases
<1>2. /\ bound \in SessionRec
      /\ bound.consumed = c.consumed
      /\ bound.approveAttempts = c.approveAttempts
    BY DEF SessionRec
<1> HIDE DEF res
<1>3. /\ c.state = "pending"
      /\ \/ res.sess = awaitApproval(bound, n)
         \/ res.sess = [bound EXCEPT !.state = "denied"]
    BY <1>1 DEF BindReturns, res
<1> HIDE DEF bound
<1>4. /\ res.sess.state \in {"awaiting_approval", "denied"}
      /\ res.sess.consumed = c.consumed
      /\ res.sess.approveAttempts = c.approveAttempts
    BY <1>2, <1>3 DEF awaitApproval, SessionRec
<1>5. Advances(c, res.sess, FALSE, FALSE)
    BY <1>3, <1>4 DEF Advances, Forward
<1>6. QED BY <1>5 DEF res

\* approve counts every wrong code it compares, and denies at the limit.
LEMMA ApproveAdvances ==
    ASSUME NEW c \in SessionRec, NEW code, NEW d, NEW t \in Nat, NEW secret
    PROVE  LET res == approve(c, code, d, t, secret)
           IN  Advances(c, res.sess, res.err = "incorrect code", FALSE)
<1> DEFINE res == approve(c, code, d, t, secret)
           e == expireIfNeeded(c, t)
           tries == c.approveAttempts + 1
           st == IF tooManyAttempts(tries) THEN "denied" ELSE "awaiting_approval"
           off == [c EXCEPT !.state = "denied"]
           on == [c EXCEPT !.state = "approved"]
           miss == [c EXCEPT !.approveAttempts = tries, !.state = st]
<1>1. e = c \/ e.state = "expired"
    BY DEF expireIfNeeded, SessionRec
<1>2. Advances(c, e, FALSE, FALSE)
    BY ExpireAdvances
<1>3. /\ off.state = "denied" /\ on.state = "approved" /\ miss.state = st
      /\ off.consumed = c.consumed
      /\ on.consumed = c.consumed
      /\ miss.consumed = c.consumed
      /\ off.approveAttempts = c.approveAttempts
      /\ on.approveAttempts = c.approveAttempts
      /\ miss.approveAttempts = tries
    <2> HIDE DEF st, tries
    <2> QED BY DEF SessionRec
<1>4. \/ res.err # "incorrect code" /\ res.sess = e
      \/ /\ c.state = "awaiting_approval"
         /\ \/ res.err = "nil" /\ res.sess = off
            \/ res.err = "nil" /\ res.sess = on
            \/ res.err = "incorrect code" /\ res.sess = miss
    <2> HIDE DEF e
    <2>1. CASE e.state = "expired" \/ ~approvable(e) \/ ~boundTo(e, secret)
        <3>1. PICK er \in {"ErrExpired", "ErrWrongState", "ErrApprovalNotBound"} :
                res = [sess |-> e, err |-> er]
            BY <2>1 DEF approve, e
        <3> HIDE DEF res, off, on, miss
        <3>2. res.err # "incorrect code" /\ res.sess = e
            BY <3>1
        <3> QED BY <3>2
    <2>2. CASE ~(e.state = "expired" \/ ~approvable(e) \/ ~boundTo(e, secret))
        <3>1. e = c /\ c.state = "awaiting_approval"
            BY <1>1, <2>2 DEF approvable
        <3>2. res = IF ~d THEN [sess |-> off, err |-> "nil"]
                    ELSE IF codesEqual(code, c.userCode)
                    THEN [sess |-> on, err |-> "nil"]
                    ELSE [sess |-> [c EXCEPT !.approveAttempts = tries,
                                             !.state = IF tooManyAttempts(tries)
                                                       THEN "denied" ELSE @],
                          err |-> "incorrect code"]
            BY <2>2, <3>1 DEF approve, e
        <3>3. miss = [c EXCEPT !.approveAttempts = tries,
                               !.state = IF tooManyAttempts(tries)
                                         THEN "denied" ELSE @]
            BY <3>1
        <3> HIDE DEF res, off, on, miss
        <3>4. \/ res = [sess |-> off, err |-> "nil"]
              \/ res = [sess |-> on, err |-> "nil"]
              \/ res = [sess |-> miss, err |-> "incorrect code"]
            BY <3>2, <3>3
        <3>5. \/ res.err = "nil" /\ res.sess = off
              \/ res.err = "nil" /\ res.sess = on
              \/ res.err = "incorrect code" /\ res.sess = miss
            <4>1. CASE res = [sess |-> off, err |-> "nil"]
                BY <4>1
            <4>2. CASE res = [sess |-> on, err |-> "nil"]
                BY <4>2
            <4>3. CASE res = [sess |-> miss, err |-> "incorrect code"]
                BY <4>3
            <4> QED BY <3>4, <4>1, <4>2, <4>3
        <3> QED BY <3>1, <3>5
    <2> QED BY <2>1, <2>2
<1> HIDE DEF res, off, on, miss, e
<1>5. Advances(c, res.sess, res.err = "incorrect code", FALSE)
    <2>1. CASE res.err # "incorrect code" /\ res.sess = e
        <3>1. (res.err = "incorrect code") = FALSE
            BY <2>1
        <3> QED BY <1>2, <2>1, <3>1
    <2>2. CASE c.state = "awaiting_approval" /\ res.err = "nil" /\ res.sess \in {off, on}
        <3>1. (res.err = "incorrect code") = FALSE
            BY <2>2
        <3>2. Advances(c, res.sess, FALSE, FALSE)
            BY <1>3, <2>2 DEF Advances, Forward
        <3> QED BY <3>1, <3>2
    <2>3. CASE c.state = "awaiting_approval" /\ res.err = "incorrect code" /\ res.sess = miss
        <3>1. (res.err = "incorrect code") = TRUE
            BY <2>3
        <3>2. Advances(c, res.sess, TRUE, FALSE)
            BY <1>3, <2>3 DEF Advances, Forward
        <3> QED BY <3>1, <3>2
    <2> QED BY <1>4, <2>1, <2>2, <2>3
<1>6. QED BY <1>5 DEF res

\* poll hands out the artifact of an approved session that still has it, and
\* changes no state but by the expiry check.
LEMMA PollAdvances ==
    ASSUME NEW c \in SessionRec, NEW verifier, NEW t \in Nat
    PROVE  LET res == poll(c, verifier, t)
           IN  Advances(c, res.sess, FALSE, res.status = "approved")
<1> DEFINE res == poll(c, verifier, t)
           e == expireIfNeeded(c, t)
           later == [e EXCEPT !.lastPollAt = t]
           used == consume(c)
<1>1. PollReturns(res, c, verifier, t)
    BY PollCases
<1>2. e \in SessionRec /\ Advances(c, e, FALSE, FALSE)
    BY ExpireType, ExpireAdvances
<1>3. used.state = c.state /\ used.consumed /\ used.approveAttempts = c.approveAttempts
    BY DEF consume, SessionRec
<1> HIDE DEF res, e, used
<1>4. Advances(c, later, FALSE, FALSE)
    <2>1. /\ later.state = e.state
          /\ later.consumed = e.consumed
          /\ later.approveAttempts = e.approveAttempts
        BY <1>2 DEF SessionRec
    <2> HIDE DEF later
    <2> QED BY <1>2, <2>1 DEF Advances
<1> HIDE DEF later
<1>5. CASE res.status = "approved"
    <2>1. c.state = "approved" /\ ~c.consumed /\ res.sess = used
        BY <1>1, <1>5 DEF PollReturns, used
    <2>2. Advances(c, res.sess, FALSE, TRUE)
        BY <1>3, <2>1 DEF Advances, Forward
    <2>3. (res.status = "approved") = TRUE
        BY <1>5
    <2> QED BY <2>2, <2>3 DEF res
<1>6. CASE res.status # "approved"
    <2>1. res.sess = e \/ res.sess = later
        BY <1>1, <1>6 DEF PollReturns, e, later
    <2>2. Advances(c, res.sess, FALSE, FALSE)
        BY <1>2, <1>4, <2>1
    <2>3. (res.status = "approved") = FALSE
        BY <1>6
    <2> QED BY <2>2, <2>3 DEF res
<1>7. QED BY <1>5, <1>6

-----------------------------------------------------------------------------
(* What an operation leaves alone.                                         *)

\* Whose session it is, and its place in time.
SameLogin(c, d) ==
    /\ d \in SessionRec
    /\ d.hint = c.hint
    /\ d.userCode = c.userCode
    /\ d.challenge = c.challenge
    /\ d.createdAt = c.createdAt

\* The session is over without having been approved.
GivenUp(c, d) == ~isTerminal(c.state) /\ d.state \in {"denied", "expired"}

\* The lazy expiry check changes the state only.
LEMMA ExpireKeeps ==
    ASSUME NEW c \in SessionRec, NEW t \in Nat
    PROVE  LET e == expireIfNeeded(c, t)
           IN  /\ SameLogin(c, e)
               /\ e.identity = c.identity
               /\ e.lastPollAt = c.lastPollAt
               /\ e.consumed = c.consumed
               /\ e.state = c.state \/ GivenUp(c, e)
<1> DEFINE e == expireIfNeeded(c, t)
<1>1. e \in SessionRec
    BY ExpireType
<1>2. CASE e = c
    BY <1>1, <1>2 DEF SameLogin
<1>3. CASE e = [c EXCEPT !.state = "expired"] /\ ~isTerminal(c.state)
    <2> HIDE DEF e
    <2>1. /\ e.hint = c.hint /\ e.userCode = c.userCode /\ e.challenge = c.challenge
          /\ e.createdAt = c.createdAt /\ e.identity = c.identity
          /\ e.lastPollAt = c.lastPollAt /\ e.consumed = c.consumed
          /\ e.state = "expired"
        BY <1>3 DEF SessionRec
    <2>2. SameLogin(c, e) /\ GivenUp(c, e)
        BY <1>1, <1>3, <2>1 DEF SameLogin, GivenUp
    <2> QED BY <2>1, <2>2 DEF e
<1>4. QED BY <1>2, <1>3, ExpireCases

\* What bindIdentity leaves alone.
BindKept(c, d, name) ==
    /\ SameLogin(c, d)
    /\ d.lastPollAt = c.lastPollAt
    /\ d.consumed = c.consumed
    /\ \/ d.state = c.state /\ d.identity = c.identity
       \/ GivenUp(c, d)
       \/ /\ c.state = "pending" /\ d.state = "awaiting_approval"
          /\ d.identity = name
          /\ identityMatches(c, name)

\* bindIdentity moves a pending session on, for the hinted user.
LEMMA BindKeeps ==
    ASSUME NEW c \in SessionRec, NEW name \in Names, NEW t \in Nat, NEW n \in Nat
    PROVE  BindKept(c, bindIdentity(c, name, t, n).sess, name)
<1> DEFINE e == expireIfNeeded(c, t)
           bound == [e EXCEPT !.identity = name, !.identityAt = t]
           off == [bound EXCEPT !.state = "denied"]
           on == awaitApproval(bound, n)
           res == bindIdentity(c, name, t, n)
<1>1. /\ SameLogin(c, e) /\ e.identity = c.identity
      /\ e.lastPollAt = c.lastPollAt /\ e.consumed = c.consumed
      /\ e.state = c.state \/ GivenUp(c, e)
    BY ExpireKeeps
<1>2. res.sess \in SessionRec
    BY BindType
<1> HIDE DEF e
<1>3. e \in SessionRec
    BY <1>1 DEF SameLogin
<1>4. bound \in SessionRec
      /\ bound.hint = e.hint /\ bound.userCode = e.userCode /\ bound.challenge = e.challenge
      /\ bound.createdAt = e.createdAt /\ bound.identity = name
      /\ bound.lastPollAt = e.lastPollAt /\ bound.consumed = e.consumed
    BY <1>3 DEF SessionRec
<1>5. \/ res.sess = e
      \/ res.sess = off /\ e.state = "pending"
      \/ res.sess = on /\ e.state = "pending" /\ identityMatches(c, name)
    <2> HIDE DEF bound
    <2>1. \/ res = [sess |-> e, err |-> "ErrExpired"]
          \/ res = [sess |-> e, err |-> "ErrWrongState"]
          \/ res = [sess |-> off, err |-> "ErrIdentityMismatch"] /\ e.state = "pending"
          \/ res = [sess |-> on, err |-> "nil"] /\ e.state = "pending"
             /\ identityMatches(c, name)
        BY DEF bindIdentity, e, bound
    <2> HIDE DEF res, off, on
    <2>2. CASE res = [sess |-> e, err |-> "ErrExpired"]
        BY <2>2
    <2>3. CASE res = [sess |-> e, err |-> "ErrWrongState"]
        BY <2>3
    <2>4. CASE res = [sess |-> off, err |-> "ErrIdentityMismatch"] /\ e.state = "pending"
        BY <2>4
    <2>5. CASE res = [sess |-> on, err |-> "nil"] /\ e.state = "pending"
               /\ identityMatches(c, name)
        BY <2>5
    <2> QED BY <2>1, <2>2, <2>3, <2>4, <2>5
<1> HIDE DEF bound, res
<1>6. /\ off.hint = c.hint /\ off.userCode = c.userCode /\ off.challenge = c.challenge
      /\ off.createdAt = c.createdAt
      /\ off.lastPollAt = c.lastPollAt /\ off.consumed = c.consumed
      /\ off.state = "denied"
    BY <1>1, <1>4 DEF SessionRec, SameLogin
<1>7. /\ on.hint = c.hint /\ on.userCode = c.userCode /\ on.challenge = c.challenge
      /\ on.createdAt = c.createdAt /\ on.identity = name
      /\ on.lastPollAt = c.lastPollAt /\ on.consumed = c.consumed
      /\ on.state = "awaiting_approval"
    BY <1>1, <1>4 DEF SessionRec, SameLogin, awaitApproval
<1> HIDE DEF off, on
<1>8. e.state = "pending" => c.state = "pending"
    BY <1>1 DEF GivenUp
<1>9. CASE res.sess = e
    BY <1>1, <1>9 DEF BindKept, res, SameLogin, GivenUp
<1>10. CASE res.sess = off /\ e.state = "pending"
    <2>1. SameLogin(c, off) /\ GivenUp(c, off)
        BY <1>2, <1>6, <1>8, <1>10 DEF SameLogin, GivenUp, isTerminal, Terminal
    <2> QED BY <1>6, <1>10, <2>1 DEF BindKept, res
<1>11. CASE res.sess = on /\ e.state = "pending" /\ identityMatches(c, name)
    <2>1. SameLogin(c, on)
        BY <1>2, <1>7, <1>11 DEF SameLogin
    <2> QED BY <1>7, <1>8, <1>11, <2>1 DEF BindKept, res
<1>12. QED BY <1>5, <1>9, <1>10, <1>11

\* What approve leaves alone.
ApproveKept(c, d, code) ==
    /\ SameLogin(c, d)
    /\ d.identity = c.identity
    /\ d.lastPollAt = c.lastPollAt
    /\ d.consumed = c.consumed
    /\ \/ d.state = c.state
       \/ GivenUp(c, d)
       \/ /\ c.state = "awaiting_approval" /\ d.state = "approved"
          /\ codesEqual(code, c.userCode)

\* approve approves the code that was shown, and nobody else's identity.
LEMMA ApproveKeeps ==
    ASSUME NEW c \in SessionRec, NEW code, NEW d, NEW t \in Nat, NEW secret \in Nat
    PROVE  ApproveKept(c, approve(c, code, d, t, secret).sess, code)
<1> DEFINE res == approve(c, code, d, t, secret)
<1>1. ApproveReturns(res, c, code, t, secret)
    BY ApproveCases
<1>2. res.sess \in SessionRec
    BY ApproveType
<1> HIDE DEF res
<1>3. CASE res.err \notin {"nil", "incorrect code"}
    <2>1. res.sess = expireIfNeeded(c, t)
        BY <1>1, <1>3 DEF ApproveReturns
    <2> QED BY <2>1, ExpireKeeps DEF ApproveKept, res
<1>4. CASE res.err \in {"nil", "incorrect code"}
    <2>1. c.state = "awaiting_approval"
        BY <1>1, <1>4 DEF ApproveReturns
    <2>2. PICK k \in Nat, st \in {"awaiting_approval", "approved", "denied"} :
              /\ res.sess = [c EXCEPT !.approveAttempts = k, !.state = st]
              /\ st = "approved" => res.err = "nil" /\ codesEqual(code, c.userCode)
        BY <1>1, <1>4 DEF ApproveReturns
    <2> DEFINE e == res.sess
    <2>3. /\ e.hint = c.hint /\ e.userCode = c.userCode /\ e.challenge = c.challenge
          /\ e.createdAt = c.createdAt /\ e.identity = c.identity
          /\ e.lastPollAt = c.lastPollAt /\ e.consumed = c.consumed
          /\ e.state = st
        BY <2>2 DEF SessionRec
    <2>4. SameLogin(c, res.sess)
        BY <1>2, <2>3 DEF SameLogin
    <2>5. ApproveKept(c, res.sess, code)
        BY <2>1, <2>2, <2>3, <2>4 DEF ApproveKept, GivenUp, isTerminal, Terminal
    <2> QED BY <2>5 DEF res
<1>5. QED BY <1>3, <1>4

\* What poll leaves alone, and when it says what.
PollKept(c, d, status, t) ==
    /\ SameLogin(c, d)
    /\ d.identity = c.identity
    /\ d.state = c.state \/ GivenUp(c, d)
    /\ status \in PollStatuses
    /\ status = "approved" => c.state = "approved"
    /\ status # "approved" => d.consumed = c.consumed
    /\ status = "pending" => t <= ExpiresAt(c) /\ d.lastPollAt = t
    /\ status = "slow_down" =>
         /\ d.lastPollAt = c.lastPollAt
         /\ c.lastPollAt # Never
         /\ t - c.lastPollAt < PollInterval

\* poll answers "pending" in time, and "slow_down" only within the interval.
LEMMA PollKeeps ==
    ASSUME NEW c \in SessionRec, NEW verifier, NEW t \in Nat
    PROVE  LET res == poll(c, verifier, t) IN PollKept(c, res.sess, res.status, t)
<1> DEFINE e == expireIfNeeded(c, t)
           later == [e EXCEPT !.lastPollAt = t]
           used == consume(e)
           res == poll(c, verifier, t)
           soon == e.lastPollAt # Never /\ t - e.lastPollAt < PollInterval
<1>1. /\ SameLogin(c, e) /\ e.identity = c.identity
      /\ e.lastPollAt = c.lastPollAt /\ e.consumed = c.consumed
      /\ e.state = c.state \/ GivenUp(c, e)
    BY ExpireKeeps
<1>2. e = c \/ e.state = "expired"
    BY ExpireCases DEF SessionRec
<1>3. e = c /\ ~isTerminal(c.state) => t <= ExpiresAt(c)
    <2>1. ExpiresAt(c) \in Nat
        BY DurationsAssumption DEF ExpiresAt, SessionRec
    <2>2. e = c /\ ~isTerminal(c.state) => ~isExpired(c, t)
        BY DEF expireIfNeeded, SessionRec, isTerminal, Terminal
    <2> QED BY <2>1, <2>2 DEF isExpired
<1> HIDE DEF e
<1>4. e \in SessionRec /\ e.state \in States
    BY <1>1 DEF SameLogin, SessionRec
<1>5. /\ later.hint = c.hint /\ later.userCode = c.userCode /\ later.challenge = c.challenge
      /\ later.createdAt = c.createdAt /\ later.identity = c.identity
      /\ later.consumed = c.consumed /\ later.state = e.state
      /\ later.lastPollAt = t /\ later \in SessionRec
    BY <1>1, <1>4 DEF SessionRec, SameLogin
<1>6. /\ used.hint = c.hint /\ used.userCode = c.userCode /\ used.challenge = c.challenge
      /\ used.createdAt = c.createdAt /\ used.identity = c.identity
      /\ used.state = e.state /\ used \in SessionRec
    BY <1>1, <1>4 DEF SessionRec, SameLogin, consume
<1> HIDE DEF later, used
<1>7. \/ res = [sess |-> e, status |-> "expired"]
      \/ res = [sess |-> e, status |-> "invalid_verifier"]
      \/ res = [sess |-> used, status |-> "approved"] /\ e.state = "approved"
      \/ res = [sess |-> e, status |-> "slow_down"] /\ soon
      \/ res = [sess |-> later, status |-> "denied"]
      \/ res = [sess |-> later, status |-> "pending"]
         /\ e.state \notin {"expired", "approved", "denied"}
    BY DEF poll, e, later, used
<1> HIDE DEF res
<1>8. SameLogin(c, later) /\ SameLogin(c, used)
    BY <1>5, <1>6 DEF SameLogin
<1>9. /\ later.state = c.state \/ GivenUp(c, later)
      /\ used.state = c.state \/ GivenUp(c, used)
    BY <1>1, <1>5, <1>6 DEF GivenUp
<1>10. CASE res = [sess |-> e, status |-> "expired"]
    <2>1. res.sess = e /\ res.status = "expired"
        BY <1>10
    <2> QED BY <1>1, <2>1 DEF PollKept, PollStatuses, res
<1>11. CASE res = [sess |-> e, status |-> "invalid_verifier"]
    <2>1. res.sess = e /\ res.status = "invalid_verifier"
        BY <1>11
    <2> QED BY <1>1, <2>1 DEF PollKept, PollStatuses, res
<1>12. CASE res = [sess |-> used, status |-> "approved"] /\ e.state = "approved"
    <2>1. res.sess = used /\ res.status = "approved"
        BY <1>12
    <2>2. c.state = "approved"
        BY <1>2, <1>12
    <2> QED BY <1>6, <1>8, <1>9, <2>1, <2>2 DEF PollKept, PollStatuses, res
<1>13. CASE res = [sess |-> e, status |-> "slow_down"] /\ soon
    <2>1. res.sess = e /\ res.status = "slow_down"
        BY <1>13
    <2> QED BY <1>1, <1>13, <2>1 DEF PollKept, PollStatuses, res
<1>14. CASE res = [sess |-> later, status |-> "denied"]
    <2>1. res.sess = later /\ res.status = "denied"
        BY <1>14
    <2> QED BY <1>5, <1>8, <1>9, <2>1 DEF PollKept, PollStatuses, res
<1>15. CASE res = [sess |-> later, status |-> "pending"]
            /\ e.state \notin {"expired", "approved", "denied"}
    <2>1. res.sess = later /\ res.status = "pending"
        BY <1>15
    <2>2. t <= ExpiresAt(c)
        BY <1>2, <1>3, <1>15 DEF isTerminal, Terminal
    <2> QED BY <1>5, <1>8, <1>9, <2>1, <2>2 DEF PollKept, PollStatuses, res
<1>16. QED BY <1>7, <1>10, <1>11, <1>12, <1>13, <1>14, <1>15
=============================================================================
