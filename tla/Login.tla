------------------------------- MODULE Login -------------------------------
(***************************************************************************)
(* One login from end to end: a program with the client library, the       *)
(* network, the broker's session and the user's browser.  As in Broker, a  *)
(* handler works on a copy it read earlier with a clock reading from some  *)
(* time since, and other handlers may write in between; here there is one  *)
(* poll at a time, the client's, and as many browser requests as Tabs.     *)
(* What is at stake is timing, lost messages and writes, and what the      *)
(* program makes of the answers.                                           *)
(***************************************************************************)
EXTENDS Session

CONSTANTS
    Programs,      \* among "login", "pam", "pam-native" and "sshd"
    Hints,         \* users who log in
    Tabs,          \* the browser's requests that may be under way together
    Second,        \* ticks per second
    HTTPTimeout    \* of the client's requests

ASSUME ClientAssumption ==
    /\ Programs \subseteq {"login", "pam", "pam-native", "sshd"}
    /\ Hints \subseteq Names
    /\ Second \in Nat \ {0}
    /\ HTTPTimeout \in Nat \ {0}

VARIABLES
    client,    \* see Client
    net,       \* see Client
    sess,      \* the stored session, None before it exists and once it is gone
    pollCopy,  \* what the poll under way has read, None before
    tabs,      \* what each request of the browser has read, None without one
    now,       \* the broker's clock; stops when no answer depends on it
    grants,    \* history: what the user's approvals rested on
    slowed,    \* history: the slow_down answers, up to one past the bound
    crashed    \* history: the broker lost the session

loginVars == <<client, net, sess, pollCopy, tabs, now, grants, slowed, crashed>>
broker == <<sess, pollCopy, tabs>>
history == <<grants, slowed, crashed>>

INSTANCE Client

-----------------------------------------------------------------------------
Draw == 1      \* the sign-in's random draw; the browser keeps it

\* handleStart tells the interval in whole seconds.
wireInterval == (PollInterval \div Second) * Second
twiceSlowed == slowDown(slowDown(firstInterval(wireInterval)))

\* The store keeps a session long enough past its expiry for one more poll.
\* It holds of the defaults (300 s against 20 s and 12 s); nothing enforces it.
ASSUME GraceAssumption == 2 * HTTPTimeout + twiceSlowed <= SessionTTL

MaxSlowed == 2
Horizon == HTTPTimeout + 2 * SessionTTL + 1

Grant == [hint : Names, identity : Names, typed : TypedCodes, code : UserCodes]
\* The session a poll has read, and when.
PollCopy == [sess : SessionRec, at : Nat]
\* The session a request of the browser has read, and whether it was past its
\* expiry then; nothing else of the clock counts in these handlers.
TabCopy == [sess : SessionRec, late : BOOLEAN]

ASSUME NoneAssumption == None \notin SessionRec \cup PollCopy \cup TabCopy \cup Message

LoginTypeOK ==
    /\ client \in ClientState
    /\ net \in Message \cup {None}
    /\ client.interval <= twiceSlowed
    /\ client.wait <= client.interval
    /\ client.waited <= HTTPTimeout
    /\ sess \in SessionRec \cup {None}
    /\ pollCopy \in PollCopy \cup {None}
    /\ tabs \in [Tabs -> TabCopy \cup {None}]
    /\ now \in 0..Horizon
    /\ grants \subseteq Grant
    /\ slowed \in 0..(MaxSlowed + 1)
    /\ crashed \in BOOLEAN

\* A response finds its client or nobody.
answer(r) == net' = IF client.phase \in Calling THEN r ELSE None

\* Update puts the whole session in the place of one that is still there.  It
\* may fail; the handlers go on all the same.
Update(s) == sess' \in IF sess = None THEN {None} ELSE {s, sess}

handleStart ==
    /\ sent("broker") /\ net.op = "start"
    /\ \/ \E code \in UserCodes :
            /\ sess' = newSession(client.hint, S256(client.verifier), code, now)
            /\ answer(Response(TRUE, "", wireInterval, None))
       \/ answer(Response(FALSE, "", 0, None)) /\ UNCHANGED sess
    /\ UNCHANGED <<client, pollCopy, tabs, now>> /\ UNCHANGED history

\* A poll's Get; an unknown session has expired.
unknownIsPending ==                                            \* mutant
    /\ sent("broker") /\ net.op = "poll" /\ pollCopy = None
    /\ IF sess = None
       THEN answer(Response(TRUE, "pending", 0, None)) /\ UNCHANGED pollCopy
       ELSE pollCopy' = [sess |-> sess, at |-> now] /\ UNCHANGED net
    /\ UNCHANGED <<client, sess, tabs, now>> /\ UNCHANGED history
pollReads ==
    /\ sent("broker") /\ net.op = "poll" /\ pollCopy = None
    /\ IF sess = None
       THEN answer(Response(TRUE, "expired", 0, None)) /\ UNCHANGED pollCopy
       ELSE pollCopy' = [sess |-> sess, at |-> now] /\ UNCHANGED net
    /\ UNCHANGED <<client, sess, tabs, now>> /\ UNCHANGED history

\* The rest of it, with a clock reading from between Get and Update.
handlePoll(t) ==
    /\ LET r == poll(pollCopy.sess, client.verifier, t)
       IN  /\ Update(r.sess)
           /\ answer(Response(r.status # "invalid_verifier", r.status, 0,
                              IF r.status = "approved"
                              THEN Artifact(r.sess).identity ELSE None))
           /\ slowed' = IF r.status = "slow_down" /\ slowed <= MaxSlowed
                        THEN slowed + 1 ELSE slowed
    /\ pollCopy' = None
    /\ UNCHANGED <<client, tabs, now, grants, crashed>>

-----------------------------------------------------------------------------
(* The user's browser; Broker is about whose it is and what it shows.      *)

\* A request's Get.
tabReads(b) ==
    /\ tabs[b] = None /\ sess # None
    /\ tabs' = [tabs EXCEPT ![b] =
                   [sess |-> sess, late |-> isExpired(sess, now)]]
    /\ UNCHANGED <<client, net, sess, pollCopy, now>> /\ UNCHANGED history

\* Clock readings since a Get: one from before the expiry stands for all.
readings(c) == IF c.late THEN {now} ELSE {c.sess.createdAt, now}

\* The request ends; the handlers below say what it has written.
ends(b) ==
    /\ tabs' = [tabs EXCEPT ![b] = None]
    /\ UNCHANGED <<client, net, pollCopy, now, slowed, crashed>>

\* Opening the link and signing in write back a session that has expired or
\* waits for the sign-in, and leave any other alone.
writes(c, t) == expireIfNeeded(c, t).state \in {"pending", "expired"}

handleVerify(b, t) ==
    /\ ends(b)
    /\ IF writes(tabs[b].sess, t) THEN Update(expireIfNeeded(tabs[b].sess, t))
                                  ELSE UNCHANGED sess
    /\ UNCHANGED grants

\* The user signs in as somebody.  When is for the artifact, which Broker is
\* about, and forgotten here.
handleIdPResponse(b, name, t) ==
    /\ ends(b)
    /\ LET r == bindIdentity(tabs[b].sess, name, t, Draw)
       IN  IF writes(tabs[b].sess, t) THEN Update([r.sess EXCEPT !.identityAt = Never])
                                      ELSE UNCHANGED sess
    /\ UNCHANGED grants

\* The user approves with some code, or denies, in the form the sign-in has
\* shown.
handleApprove(b, typed, decisionApprove, t) ==
    LET c == tabs[b].sess
        r == approve(c, typed, decisionApprove, t, Draw)
    IN  /\ ends(b)
        /\ IF c.csrfToken = Draw THEN Update(r.sess) ELSE UNCHANGED sess
        /\ grants' = IF /\ c.csrfToken = Draw
                        /\ r.sess.state = "approved" /\ c.state # "approved"
                     THEN grants \cup {[hint |-> c.hint, identity |-> c.identity,
                                        typed |-> typed, code |-> c.userCode]}
                     ELSE grants

-----------------------------------------------------------------------------
atExpiry == sess # None /\ now > ExpiresAt(sess)               \* mutant
sweepable == sess # None /\ now > ExpiresAt(sess) + SessionTTL

Sweep ==
    /\ sweepable
    /\ sess' = None
    /\ UNCHANGED <<client, net, pollCopy, tabs, now>> /\ UNCHANGED history

\* A restart with the memory store, in the midst of its requests.
Crash ==
    /\ sess # None
    /\ sess' = None
    /\ pollCopy' = None
    /\ tabs' = [b \in Tabs |-> None]
    /\ net' = IF pollCopy = None THEN net ELSE None
    /\ crashed' = TRUE
    /\ UNCHANGED <<client, now, grants, slowed>>

\* Of interest until the login has ended.
Tick ==
    /\ client.phase \notin {"idle"} \cup Ended
    /\ ~due
    /\ elapse
    /\ now' = IF now < Horizon THEN now + 1 ELSE now
    /\ UNCHANGED net /\ UNCHANGED broker /\ UNCHANGED history

Init ==
    /\ client = NewClient
    /\ net = None
    /\ sess = None
    /\ pollCopy = None
    /\ tabs = [b \in Tabs |-> None]
    /\ now = 0
    /\ grants = {}
    /\ slowed = 0
    /\ crashed = FALSE

clientStep == ClientNext /\ UNCHANGED broker /\ UNCHANGED <<now, grants, slowed, crashed>>

pollStep == pollCopy # None /\ \E t \in pollCopy.at..now : handlePoll(t)

browserStep(b) ==
    /\ tabs[b] # None
    /\ \E t \in readings(tabs[b]) :
         \/ handleVerify(b, t)
         \/ \E n \in Names : handleIdPResponse(b, n, t)
         \/ \E c \in TypedCodes, d \in BOOLEAN : handleApprove(b, c, d, t)

Next ==
    \/ clientStep
    \/ handleStart \/ pollReads \/ pollStep
    \/ \E b \in Tabs : tabReads(b) \/ browserStep(b)
    \/ Sweep \/ Crash \/ Tick

Spec == Init /\ [][Next]_loginVars

\* The native module's calls were seen to hang for ever, timeout or not.
timersWork == client.program # "pam-native"

\* Time passes, the client's timers fire, and printing the prompt ends.
\* Nothing is assumed of the network, the broker and the user, nor of the
\* conversation by which an SSH or PAM client is shown the prompt.
Fairness ==
    /\ WF_loginVars(Tick)
    /\ WF_loginVars(timersWork /\ clientStep /\ Ask)
    /\ WF_loginVars(timersWork /\ clientStep /\ Timeout)
    /\ WF_loginVars(client.program \notin Conversing /\ clientStep /\ Prompted)

FairSpec == Spec /\ Fairness

-----------------------------------------------------------------------------
\* Nobody is let in but by an approval of this very login: signed in as the
\* user it was started for, with the code it showed; and under the identity
\* that was approved.  This takes the broker's
\* checks, Poll's reading of the status, and each program's reading of Poll's
\* result (react, admits); the login command lets in on any status it does not
\* know, and is safe only because Poll never returns one.
LoginMeansApproval ==
    client.phase \in LetIn =>
        \E g \in grants :
            /\ g.hint = client.hint
            /\ g.identity = client.identity
            /\ normalize[g.identity] = normalize[client.hint]
            /\ codesEqual(g.typed, g.code)

\* The interval told to the client may be shorter than the one enforced, being
\* cut to whole seconds; a client that obeys slow_down is slowed at most twice
\* in a login (handleStart, poll, Poll).
SlowDownsBounded == slowed <= MaxSlowed

\* A session is used up only by the client it lets in, unless a message was
\* lost: no client is told "expired" by a broker that has already answered it
\* with the artifact (handlePoll, Poll).
ArtifactNotWasted ==
    sess # None /\ sess.consumed =>
        \/ client.phase \in LetIn
        \/ client.outcome = "fault"
        \/ sent("client") /\ net.status = "approved"

\* A login under way ends, whatever the network, the broker and the user do or
\* leave undone, unless its program is still showing the prompt by a call that
\* waits for the other end without a limit (Poll, challenge).
EveryLoginEnds ==
    timersWork /\ client.phase \in {"starting", "waiting", "asking"}
        ~> \/ client.phase \in Ended
           \/ client.phase = "prompting" /\ client.program \in Conversing

\* Approved, in time, with the client polling.
Deliverable ==
    /\ sess # None
    /\ sess.state = "approved"
    /\ now <= ExpiresAt(sess)
    /\ client.phase \in {"waiting", "asking"}
    /\ timersWork

Delivered == client.phase \in LetIn \/ client.outcome = "fault" \/ crashed

\* No request is under way with what it read before the approval.
NoneStale ==
    \A c \in {pollCopy} \cup {tabs[b] : b \in Tabs} :
        c # None => c.sess.state = "approved"

\* An approval that no request under way has missed lets the polling client in,
\* even in the session's last moment and although it then has to wait for its
\* next poll, unless a message is lost, the client is stopped or the broker
\* restarts (Poll, handlePoll, sweep).  Without NoneStale it is false: a request
\* that read the session before the approval, even the client's own poll, writes
\* the unapproved copy back after the user was told of the approval.
ApprovalIsDelivered == Deliverable /\ NoneStale ~> Delivered
=============================================================================
