------------------------------- MODULE Client -------------------------------
(***************************************************************************)
(* The client library pkg/client and the programs on top of it: the login  *)
(* command, the pam_exec helper, the native PAM module and the SSH server. *)
(* All start a session, show the link and the code, poll until the library *)
(* returns, and let the user in or not.  One client, one exchange with the *)
(* broker at a time; Login supplies the other end of the network.          *)
(***************************************************************************)
EXTENDS Integers

CONSTANTS
    Programs,     \* the programs at hand
    Hints,        \* users the programs are asked to let in
    Names,        \* identities
    Verifiers,    \* what newPKCEPair may draw
    Second,       \* ticks per second
    HTTPTimeout,  \* of the default http.Client, in ticks
    None

VARIABLES
    client,   \* the program, its library session and the poll loop
    net       \* the request or the response under way, or None

-----------------------------------------------------------------------------
\* The two programs that show the prompt by a call that can fail; the login
\* command and the pam_exec helper print it.
Conversing == {"pam-native", "sshd"}

Calling == {"starting", "asking"}
LetIn == {"admitted", "served"}
Ended == {"refused"} \cup LetIn
Phases == {"idle", "prompting", "waiting"} \cup Calling \cup Ended

\* What the broker's answers carry, "" an answer to a start; and what a login
\* may end with, a status or a failure.
Statuses ==
    {"", "pending", "approved", "denied", "expired", "slow_down", "invalid_verifier"}
Failures ==
    {"misconfigured", "start failed", "prompt", "rejected", "unexpected", "fault"}

ClientState ==
    [ phase : Phases,
      program : Programs \cup {None},
      hint : Hints \cup {None},
      verifier : Verifiers \cup {None},
      interval : Nat,     \* of the poll loop
      wait : Nat,         \* ticks until the poll timer fires
      waited : Nat,       \* ticks since the request was sent
      outcome : Statuses \cup Failures,   \* it ended with, "" before
      identity : Names \cup {None} ]  \* in the artifact

NewClient ==
    [ phase |-> "idle", program |-> None, hint |-> None, verifier |-> None,
      interval |-> 0, wait |-> 0, waited |-> 0, outcome |-> "", identity |-> None ]

Request(op) == [to |-> "broker", op |-> op]
\* ok is a 200; interval answers a start, status and artifact answer a poll.
Response(ok, status, interval, identity) ==
    [to |-> "client", ok |-> ok, status |-> status, interval |-> interval,
     identity |-> identity]

Message ==
    {Request("start"), Request("poll")} \cup
    [to : {"client"}, ok : BOOLEAN, status : Statuses, interval : Nat,
     identity : Names \cup {None}]

sent(to) == net # None /\ net.to = to

Refuse(why) ==
    client' = [client EXCEPT !.phase = "refused", !.outcome = why, !.wait = 0,
                             !.waited = 0]

send(phase, op) ==
    /\ client' = [client EXCEPT !.phase = phase, !.waited = 0]
    /\ net' = Request(op)

-----------------------------------------------------------------------------
\* Start, with the program's arguments and a fresh PKCE pair, or the early
\* return without them.
Start(program, hint, verifier) ==
    /\ client.phase = "idle"
    /\ client' = [client EXCEPT !.phase = "starting", !.program = program,
                                !.hint = hint, !.verifier = verifier]
    /\ net' = Request("start")

Misconfigured ==
    /\ client.phase = "idle"
    /\ Refuse("misconfigured")
    /\ UNCHANGED net

\* Poll's default interval.
wrongUnit(wire) == IF wire > 0 THEN wire \div Second ELSE 3    \* mutant
firstInterval(wire) == IF wire > 0 THEN wire ELSE 3 * Second

Started ==
    /\ client.phase = "starting" /\ sent("client")
    /\ IF net.ok
       THEN client' = [client EXCEPT !.phase = "prompting", !.waited = 0,
                                     !.interval = firstInterval(net.interval)]
       ELSE Refuse("start failed")
    /\ net' = None

\* The prompt is out; the poll timer starts at zero.
Prompted ==
    /\ client.phase = "prompting"
    /\ client' = [client EXCEPT !.phase = "waiting", !.wait = 0]
    /\ UNCHANGED net

PromptFails ==
    /\ client.phase = "prompting"
    /\ client.program \in Conversing
    /\ Refuse("prompt")
    /\ UNCHANGED net

\* Poll's timer fires: pollOnce.
Ask ==
    /\ client.phase = "waiting" /\ client.wait = 0
    /\ send("asking", "poll")

again(interval) ==
    client' = [client EXCEPT !.phase = "waiting", !.interval = interval,
                             !.wait = interval, !.waited = 0]

slowDown(interval) == interval + interval \div 2

\* What each program makes of the status Poll returns.
admits(program, status) ==
    IF program = "login" THEN status \notin {"denied", "expired"}
                         ELSE status = "approved"

finish(r) ==
    client' = [client EXCEPT
        !.phase = IF admits(client.program, r.status) THEN "admitted" ELSE "refused",
        !.outcome = r.status, !.identity = r.identity, !.waited = 0]

anyElse(status) == status # "pending"                          \* mutant
isResult(status) == status \in {"approved", "denied", "expired"}

\* The rest of Poll's loop body.
react(r) ==
    CASE ~r.ok -> Refuse("rejected")
      [] r.ok /\ isResult(r.status) -> finish(r)
      [] r.ok /\ r.status = "pending" -> again(client.interval)
      [] r.ok /\ r.status = "slow_down" -> again(slowDown(client.interval))
      [] OTHER -> Refuse("unexpected")

Answered ==
    /\ client.phase = "asking" /\ sent("client")
    /\ react(net)
    /\ net' = None

\* The request or the response is lost or unreadable, or ctx is done.  A
\* request may reach the broker all the same.
retries ==                                                     \* mutant
    /\ client.phase = "asking"
    /\ again(client.interval)
    /\ net' = None
CallFails ==
    /\ client.phase \in Calling
    /\ Refuse("fault")
    /\ net' = IF sent("broker") THEN net ELSE None

Timeout == client.waited = HTTPTimeout /\ CallFails

\* ctx is done while the loop waits: a signal, or pam-native's sessionTimeout.
Cancelled ==
    /\ client.phase = "waiting"
    /\ Refuse("fault")
    /\ UNCHANGED net

\* The SSH server's handshake succeeds and the shell greets the identity.
serveSession ==
    /\ client.phase = "admitted" /\ client.program = "sshd"
    /\ client' = [client EXCEPT !.phase = "served"]
    /\ UNCHANGED net

ClientNext ==
    \/ \E p \in Programs, n \in Hints, v \in Verifiers : Start(p, n, v)
    \/ Misconfigured
    \/ Started \/ Prompted \/ PromptFails \/ Ask \/ Answered
    \/ CallFails \/ Cancelled \/ serveSession

\* Timers are served before the clock moves on.
noTimeout == client.phase = "waiting" /\ client.wait = 0       \* mutant
due ==
    \/ client.phase = "waiting" /\ client.wait = 0
    \/ client.phase \in Calling /\ client.waited = HTTPTimeout

\* The client's timers, a tick later.
elapse ==
    client' = [client EXCEPT
        !.wait = IF client.phase = "waiting" THEN @ - 1 ELSE @,
        !.waited = IF client.phase \in Calling THEN @ + 1 ELSE @]
=============================================================================
