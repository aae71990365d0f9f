---------------------------- MODULE LoginProofs ----------------------------
(***************************************************************************)
(* One login from end to end, for every interval, timeout and lifetime     *)
(* that leave the store's grace period long enough for one more poll.      *)
(***************************************************************************)
EXTENDS Login, SessionProofs

-----------------------------------------------------------------------------
(* The inductive invariant.                                                *)

asks(op) == net = Request(op)
answered(phase) == client.phase = phase /\ sent("client")

TypeInv ==
    /\ client \in ClientState
    /\ net \in Message \cup {None}
    /\ sess \in SessionRec \cup {None}
    /\ pollCopy \in PollCopy \cup {None}
    /\ tabs \in [Tabs -> TabCopy \cup {None}]
    /\ now \in 0..Horizon
    /\ grants \subseteq Grant
    /\ slowed \in 0..MaxSlowed
    /\ crashed \in BOOLEAN

\* The session as it is stored and as the handlers under way have read it.
held ==
    {s \in SessionRec :
        \/ s = sess
        \/ pollCopy # None /\ s = pollCopy.sess
        \/ \E b \in Tabs : tabs[b] # None /\ s = tabs[b].sess}
spent == \E s \in held : s.consumed

\* Which message is under way in which phase.  A client that has given up may
\* have left its request behind.
Exchange ==
    /\ net # None =>
         \/ client.phase \in Calling
         \/ client.phase = "refused" /\ client.outcome = "fault" /\ sent("broker")
    /\ asks("start") => client.phase # "asking"
    /\ asks("poll") => client.phase # "starting"
    /\ client.outcome = "fault" => client.phase = "refused"
    /\ answered("starting") => net.status = "" /\ (net.ok => net.interval = wireInterval)
    /\ answered("asking") /\ net.status = "approved" => net.ok

\* The client's timers.
Timers ==
    /\ client.wait <= client.interval
    /\ client.waited <= HTTPTimeout
    /\ client.phase \in {"idle", "starting"} => client.interval = 0
    /\ client.phase = "idle" => client.waited = 0 /\ now = 0
    /\ client.phase = "starting" => client.waited = now

\* Nothing has happened before the broker gets the start request.
Unstarted ==
    /\ client.phase = "idle" \/ asks("start") => held = {} /\ grants = {} /\ slowed = 0
    /\ client.phase = "starting" => slowed = 0
    /\ client.phase = "starting" \/ asks("start") =>
          client.hint \in Hints /\ client.verifier \in Verifiers

Right(g) ==
    /\ g.hint = client.hint
    /\ normalize[g.identity] = normalize[g.hint]
    /\ codesEqual(g.typed, g.code)

granted(n) == \E g \in grants : g.identity = n

Belongs(s, hint, given) ==
    /\ s.hint = hint
    /\ s.state \in {"awaiting_approval", "approved"} =>
          s.identity \in Names /\ normalize[s.identity] = normalize[s.hint]
    /\ s.state = "approved" => \E g \in given : g.identity = s.identity
Own(s) == Belongs(s, client.hint, grants)

\* The session in all its copies, the approvals and the answer are of one user.
OneUser ==
    /\ \A g \in grants : Right(g)
    /\ \A s \in held : Own(s)
    /\ sent("client") /\ net.status = "approved" => granted(net.identity)
    /\ client.phase \in LetIn => granted(client.identity)

\* The interval after as many slow_down answers.
Stage(n) ==
    IF n = 0 THEN firstInterval(wireInterval)
    ELSE IF n = 1 THEN slowDown(firstInterval(wireInterval))
    ELSE twiceSlowed

slowing == answered("asking") /\ net.status = "slow_down"

\* The client has slowed down as often as it was told to, or is being told.
Paced ==
    /\ client.interval <= twiceSlowed
    /\ \/ client.phase \in {"prompting", "waiting"}
       \/ asks("poll")
       \/ answered("asking") /\ net.status # "slow_down"
       => client.interval = Stage(slowed)
    /\ slowing => slowed > 0 /\ client.interval = Stage(slowed - 1)

\* The client will poll, or has a poll under way.
polling ==
    \/ client.phase = "waiting"
    \/ asks("poll")
    \/ answered("asking") /\ net.status \in {"pending", "slow_down"}

\* A poll reaches the broker no sooner than the interval after the one before,
\* whichever copy of the session it will read.
Timely(s) ==
    /\ client.phase \in {"starting", "prompting", "waiting", "asking"} \/ asks("poll") =>
         s.createdAt <= HTTPTimeout
    /\ client.phase \in {"starting", "prompting"} => s.lastPollAt = Never
    /\ s.lastPollAt # Never /\ polling =>
         s.lastPollAt <= now /\ s.lastPollAt <= ExpiresAt(s)
    /\ s.lastPollAt # Never /\ client.phase = "waiting" =>
         now = Horizon \/ now - s.lastPollAt >= client.interval - client.wait
    /\ s.lastPollAt # Never /\ asks("poll") =>
         now = Horizon \/ now - s.lastPollAt >= client.interval

Spaced == \A s \in held : Timely(s)

\* So does the copy it has read.
Polled ==
    pollCopy # None =>
        /\ asks("poll")
        /\ pollCopy.at <= now
        /\ pollCopy.sess.lastPollAt # Never =>
              \/ pollCopy.at = Horizon
              \/ pollCopy.at - pollCopy.sess.lastPollAt >= client.interval

\* No copy is used up but by the client it lets in, or with a lost message.
SpentWell ==
    spent =>
        \/ client.phase \in LetIn
        \/ client.outcome = "fault"
        \/ sent("client") /\ net.status = "approved"

LoginInv ==
    /\ TypeInv
    /\ Exchange
    /\ Timers
    /\ Unstarted
    /\ OneUser
    /\ Paced
    /\ Spaced
    /\ Polled
    /\ SpentWell

-----------------------------------------------------------------------------
(* The interval.                                                           *)

\* Division rounds down.
LEMMA DivFloor ==
    ASSUME NEW a \in Nat, NEW b \in Nat \ {0}
    PROVE  /\ a \div b \in Nat
           /\ (a \div b) * b <= a
           /\ a < (a \div b) * b + b
OBVIOUS

\* Cut to whole seconds, the interval loses less than a second.
LEMMA WireInterval ==
    /\ wireInterval \in Nat
    /\ wireInterval <= PollInterval
    /\ PollInterval < wireInterval + Second
    /\ wireInterval > 0 => wireInterval >= Second
<1>1. PollInterval \in Nat \ {0} /\ Second \in Nat \ {0}
    BY DurationsAssumption, ClientAssumption
<1> DEFINE q == PollInterval \div Second
<1>2. q \in Nat /\ q * Second <= PollInterval /\ PollInterval < q * Second + Second
    BY <1>1, DivFloor
<1> HIDE DEF q
<1>3. q * Second \in Nat
    BY <1>1, <1>2
<1>4. q > 0 => q * Second >= Second
    <2> SUFFICES ASSUME q > 0 PROVE q * Second >= Second
        OBVIOUS
    <2>1. PICK d \in Nat : q = d + 1
        <3>1. q - 1 \in Nat /\ q = (q - 1) + 1
            BY <1>2
        <3> QED BY <3>1
    <2>2. q * Second = d * Second + Second /\ d * Second \in Nat
        BY <1>1, <2>1
    <2> QED BY <1>1, <2>2
<1>5. q = 0 => q * Second = 0
    BY <1>1
<1>6. wireInterval = q * Second
    BY DEF wireInterval, q
<1> QED BY <1>1, <1>2, <1>3, <1>4, <1>5, <1>6

\* slow_down grows an interval by half, rounded down.
LEMMA SlowDown ==
    ASSUME NEW x \in Nat
    PROVE  /\ slowDown(x) \in Nat
           /\ 3 * x <= 2 * slowDown(x) + 1
           /\ x <= slowDown(x)
BY DEF slowDown

\* A client slowed twice keeps the interval the broker enforces.
LEMMA Stages ==
    /\ \A n \in 0..2 : Stage(n) \in Nat /\ Stage(n) <= twiceSlowed
    /\ \A n \in 1..2 : slowDown(Stage(n - 1)) = Stage(n)
    /\ twiceSlowed \in Nat
    /\ PollInterval <= twiceSlowed
<1> DEFINE x == firstInterval(wireInterval)
           y == slowDown(x)
           z == slowDown(y)
<1>1. PollInterval \in Nat \ {0} /\ Second \in Nat \ {0}
    BY DurationsAssumption, ClientAssumption
<1>2. x \in Nat /\ x > 0 /\ PollInterval <= 2 * x - 1
    <2>1. CASE wireInterval > 0
        <3>1. x = wireInterval
            BY <2>1 DEF firstInterval
        <3> HIDE DEF x
        <3> QED BY <1>1, <2>1, <3>1, WireInterval
    <2>2. CASE wireInterval = 0
        <3>1. x = 3 * Second
            BY <2>2 DEF firstInterval
        <3> HIDE DEF x
        <3> QED BY <1>1, <2>2, <3>1, WireInterval
    <2> QED BY <2>1, <2>2, WireInterval
<1> HIDE DEF x
<1>3. y \in Nat /\ 3 * x <= 2 * y + 1 /\ x <= y
    BY <1>2, SlowDown
<1> HIDE DEF y
<1>4. z \in Nat /\ 3 * y <= 2 * z + 1 /\ y <= z
    BY <1>3, SlowDown
<1> HIDE DEF z
<1>5. PollInterval <= z
    BY <1>1, <1>2, <1>3, <1>4
<1>6. twiceSlowed = z /\ Stage(0) = x /\ Stage(1) = y /\ Stage(2) = z
    BY DEF twiceSlowed, Stage, x, y, z
<1>7. \A n \in 0..2 : n = 0 \/ n = 1 \/ n = 2
    OBVIOUS
<1>8. \A n \in 1..2 : slowDown(Stage(n - 1)) = Stage(n)
    <2>1. slowDown(Stage(0)) = Stage(1) /\ slowDown(Stage(1)) = Stage(2)
        BY <1>6 DEF x, y, z
    <2>2. ASSUME NEW n \in 1..2
          PROVE  slowDown(Stage(n - 1)) = Stage(n)
        <3>1. n = 1 \/ n = 2
            OBVIOUS
        <3>2. n - 1 = 0 \/ (n = 2 /\ n - 1 = 1)
            BY <3>1
        <3> QED BY <2>1, <3>1, <3>2
    <2> QED BY <2>2
<1>9. x <= z
    BY <1>2, <1>3, <1>4
<1>10. QED BY <1>2, <1>3, <1>4, <1>5, <1>6, <1>7, <1>8, <1>9

-----------------------------------------------------------------------------
(* Messages and the client's record.                                       *)

Responses ==
    [to : {"client"}, ok : BOOLEAN, status : Statuses, interval : Nat,
     identity : Names \cup {None}]

\* Messages are told apart.
LEMMA MessageFacts ==
    /\ Request("start") \in Message /\ Request("start") # None
    /\ Request("poll") \in Message /\ Request("poll") # None
    /\ Request("start") # Request("poll")
    /\ Request("start").to = "broker" /\ Request("poll").to = "broker"
    /\ Request("start").op = "start" /\ Request("poll").op = "poll"
    /\ \A r \in Responses : /\ r \in Message /\ r # None
                            /\ r.to = "client" /\ r.to # "broker"
                            /\ r # Request("start") /\ r # Request("poll")
    /\ \A m \in Message : m = Request("start") \/ m = Request("poll") \/ m \in Responses
<1>1. /\ Request("start").to = "broker" /\ Request("poll").to = "broker"
      /\ Request("start").op = "start" /\ Request("poll").op = "poll"
    BY DEF Request
<1>2. \A r \in Responses : r.to = "client"
    BY DEF Responses
<1>3. Message = {Request("start"), Request("poll")} \cup Responses
    BY DEF Message, Responses
<1>4. None \notin Message
    BY NoneAssumption
<1>5. QED BY <1>1, <1>2, <1>3, <1>4

\* The fields of a client.
LEMMA ClientFields ==
    ASSUME client \in ClientState
    PROVE  /\ client.phase \in Phases
           /\ client.interval \in Nat /\ client.wait \in Nat /\ client.waited \in Nat
           /\ client.outcome \in Statuses \cup Failures
           /\ client.hint \in Hints \cup {None} /\ client.program \in Programs \cup {None}
BY DEF ClientState

\* What a login keeps from its start on.
SameClient == client'.hint = client.hint /\ client'.verifier = client.verifier

GivesUp(why) ==
    /\ client' \in ClientState /\ SameClient
    /\ client'.phase = "refused" /\ client'.outcome = why
    /\ client'.wait = 0 /\ client'.waited = 0
    /\ client'.interval = client.interval

\* The client gives up.
LEMMA RefuseFields ==
    ASSUME client \in ClientState, NEW why \in Failures,
           client' = [client EXCEPT !.phase = "refused", !.outcome = why, !.wait = 0,
                                    !.waited = 0]
    PROVE  GivesUp(why)
BY DEF ClientState, Phases, Ended, SameClient, GivesUp

\* The client has learnt its interval.
LEMMA PromptingFields ==
    ASSUME client \in ClientState, NEW iv \in Nat,
           client' = [client EXCEPT !.phase = "prompting", !.waited = 0, !.interval = iv]
    PROVE  /\ client' \in ClientState /\ SameClient
           /\ client'.phase = "prompting" /\ client'.interval = iv
           /\ client'.wait = client.wait /\ client'.waited = 0
           /\ client'.outcome = client.outcome /\ client'.identity = client.identity
BY DEF ClientState, Phases, SameClient

\* The session is what it was.
sessionKept == UNCHANGED <<sess, pollCopy, tabs, now, grants, slowed, crashed>>

\* So is every copy of it.
LEMMA KeptFields ==
    ASSUME sessionKept
    PROVE  /\ sess' = sess /\ pollCopy' = pollCopy /\ tabs' = tabs
           /\ held' = held /\ (spent' <=> spent)
           /\ now' = now /\ grants' = grants /\ slowed' = slowed /\ crashed' = crashed
<1>1. /\ sess' = sess /\ pollCopy' = pollCopy /\ tabs' = tabs
      /\ now' = now /\ grants' = grants /\ slowed' = slowed /\ crashed' = crashed
    BY DEF sessionKept
<1>2. held' = held
    BY <1>1 DEF held
<1>3. QED BY <1>1, <1>2 DEF spent

\* The stored session and what is read of it are sessions.
LEMMA HeldTypes ==
    ASSUME TypeInv
    PROVE  /\ sess # None => sess \in held /\ sess \in SessionRec
           /\ pollCopy # None =>
                /\ pollCopy \in PollCopy /\ pollCopy.sess \in held
                /\ pollCopy.sess \in SessionRec /\ pollCopy.at \in Nat
           /\ \A b \in Tabs : tabs[b] # None =>
                /\ tabs[b] \in TabCopy /\ tabs[b].sess \in held
                /\ tabs[b].sess \in SessionRec
           /\ \A s \in held : s \in SessionRec
           /\ None \notin SessionRec
<1>1. None \notin SessionRec
    BY NoneAssumption
<1>2. \A s \in held : s \in SessionRec
    BY DEF held
<1>3. sess # None => sess \in SessionRec
    BY DEF TypeInv
<1>4. pollCopy # None =>
        /\ pollCopy \in PollCopy /\ pollCopy.sess \in SessionRec /\ pollCopy.at \in Nat
    BY DEF TypeInv, PollCopy
<1>5. ASSUME NEW b \in Tabs, tabs[b] # None
      PROVE  tabs[b] \in TabCopy /\ tabs[b].sess \in SessionRec
    <2>1. tabs[b] \in TabCopy
        BY <1>5 DEF TypeInv
    <2> QED BY <2>1 DEF TabCopy
<1>6. QED BY <1>1, <1>2, <1>3, <1>4, <1>5 DEF held

\* A handler that ends forgets its copy, and one that begins copies what is
\* stored: nothing is held that was not, but what is stored now.
LEMMA HeldStep ==
    ASSUME TypeInv,
           \/ pollCopy' \in {None, pollCopy}
           \/ sess # None /\ pollCopy'.sess = sess,
           \A b \in Tabs : tabs'[b] \in {None, tabs[b]}
                           \/ (sess # None /\ tabs'[b].sess = sess)
    PROVE  \A s \in held' : s \in held \/ s = sess'
<1>1. sess # None => sess \in held
    BY HeldTypes
<1>2. ASSUME NEW s \in held'
      PROVE  s \in held \/ s = sess'
    <2>1. s \in SessionRec
        BY <1>2 DEF held
    <2>2. CASE s = sess'
        BY <2>2
    <2>3. CASE pollCopy' # None /\ s = pollCopy'.sess
        BY <1>1, <2>1, <2>3 DEF held
    <2>4. CASE \E b \in Tabs : tabs'[b] # None /\ s = tabs'[b].sess
        BY <1>1, <2>1, <2>4 DEF held
    <2> QED BY <1>2, <2>2, <2>3, <2>4 DEF held
<1>3. QED BY <1>2

\* What the next lemmas start from.
LEMMA InvTypes ==
    ASSUME LoginInv
    PROVE  /\ client \in ClientState
           /\ client.interval \in Nat /\ client.wait \in Nat /\ client.waited \in Nat
           /\ net \in Message \cup {None}
           /\ now \in Nat /\ now <= Horizon
           /\ slowed \in 0..MaxSlowed
BY ClientFields DEF LoginInv, TypeInv, Horizon

\* A copy was read for a poll that is under way.
LEMMA NoPoll ==
    ASSUME LoginInv, ~asks("poll")
    PROVE  pollCopy = None
BY DEF LoginInv, Polled

\* A client that gives up leaves nothing behind but a request, and loses the
\* artifact only with a message.
LEMMA RefuseStep ==
    ASSUME LoginInv, client' \in ClientState, SameClient,
           client'.phase = "refused",
           client'.wait = 0, client'.waited = 0, client'.interval = client.interval,
           \/ net' = None /\ ~asks("poll")
           \/ net' = net /\ sent("broker") /\ client'.outcome = "fault",
           sessionKept,
           spent => client'.outcome = "fault"
    PROVE  LoginInv'
<1>1. client \in ClientState /\ client.interval \in Nat
    BY InvTypes
<1>2. /\ sess' = sess /\ pollCopy' = pollCopy /\ tabs' = tabs
      /\ held' = held /\ (spent' <=> spent)
      /\ now' = now /\ grants' = grants /\ slowed' = slowed /\ crashed' = crashed
    BY KeptFields
<1>3. ~sent("client")'
    BY MessageFacts DEF sent
<1>4. /\ asks("start")' => asks("start")
      /\ asks("poll")' => asks("poll")
    BY MessageFacts DEF asks
<1>5. TypeInv'
    BY <1>1, <1>2 DEF LoginInv, TypeInv
<1>6. Exchange'
    BY <1>1, <1>3 DEF Exchange, answered, sent
<1>7. Timers'
    BY <1>1, ClientAssumption DEF Timers
<1>8. Unstarted'
    BY <1>1, <1>2, <1>4 DEF LoginInv, Unstarted, SameClient
<1>9. OneUser'
    BY <1>1, <1>2, <1>3 DEF LoginInv, OneUser, Own, Belongs, granted, Right, SameClient, LetIn
<1>10. Paced'
    BY <1>1, <1>2, <1>3, <1>4 DEF LoginInv, Paced, answered, slowing
<1>11. Spaced'
    BY <1>1, <1>2, <1>3, <1>4 DEF LoginInv, Spaced, Timely, polling, answered
<1>12. SpentWell'
    BY <1>1, <1>2 DEF SpentWell
<1>13. Polled'
    <2>1. CASE net' = net
        BY <1>2, <2>1 DEF LoginInv, Polled, asks
    <2>2. CASE ~asks("poll")
        BY <1>2, <2>2, NoPoll DEF Polled
    <2> QED BY <2>1, <2>2
<1>14. QED
    BY <1>5, <1>6, <1>7, <1>8, <1>9, <1>10, <1>11, <1>12, <1>13 DEF LoginInv

\* Start sends the first request.
LEMMA StartStep ==
    ASSUME LoginInv, NEW p \in Programs, NEW n \in Hints, NEW v \in Verifiers,
           Start(p, n, v), sessionKept
    PROVE  LoginInv'
<1>1. client \in ClientState
    BY InvTypes
<1>2. /\ client.phase = "idle" /\ net' = Request("start")
      /\ client' = [client EXCEPT !.phase = "starting", !.program = p,
                                  !.hint = n, !.verifier = v]
    BY DEF Start
<1>3. /\ client' \in ClientState
      /\ client'.phase = "starting" /\ client'.hint = n /\ client'.verifier = v
      /\ client'.interval = client.interval /\ client'.wait = client.wait
      /\ client'.waited = client.waited /\ client'.outcome = client.outcome
    BY <1>1, <1>2 DEF ClientState, Phases, Calling
<1>4. /\ sess' = sess /\ pollCopy' = pollCopy /\ tabs' = tabs
      /\ held' = held /\ (spent' <=> spent)
      /\ now' = now /\ grants' = grants /\ slowed' = slowed /\ crashed' = crashed
    BY KeptFields
<1>5. held = {} /\ grants = {} /\ slowed = 0 /\ pollCopy = None
    <2>1. ~asks("poll")
        BY <1>2, MessageFacts DEF LoginInv, Exchange, Calling, asks
    <2> QED BY <1>2, <2>1, NoPoll DEF LoginInv, Unstarted
<1>6. asks("start")' /\ ~asks("poll")' /\ ~sent("client")' /\ net' \in Message
    BY <1>2, MessageFacts DEF asks, sent
<1>7. TypeInv'
    BY <1>3, <1>4, <1>6 DEF LoginInv, TypeInv
<1>8. Exchange'
    BY <1>2, <1>3, <1>6 DEF LoginInv, Exchange, answered, Calling
<1>9. Timers'
    BY <1>2, <1>3, <1>4 DEF LoginInv, Timers
<1>10. Unstarted'
    BY <1>3, <1>4, <1>5 DEF Unstarted
<1>11. OneUser' /\ Spaced' /\ SpentWell' /\ Polled'
    BY <1>3, <1>4, <1>5, <1>6 DEF OneUser, Spaced, SpentWell, spent, Polled, LetIn
<1>12. Paced'
    BY <1>3, <1>6 DEF LoginInv, Paced, answered, slowing
<1>13. QED
    BY <1>7, <1>8, <1>9, <1>10, <1>11, <1>12 DEF LoginInv

\* The session is started: the client shows the prompt.
LEMMA StartedStep ==
    ASSUME LoginInv, answered("starting"), net.ok,
           client' = [client EXCEPT !.phase = "prompting", !.waited = 0,
                                    !.interval = firstInterval(net.interval)],
           net' = None, sessionKept
    PROVE  LoginInv'
<1>1. client \in ClientState /\ client.wait \in Nat
    BY InvTypes
<1>2. client.phase = "starting" /\ net.interval = wireInterval /\ slowed = 0
    BY DEF LoginInv, Exchange, Unstarted, answered
<1>3. firstInterval(net.interval) = Stage(0) /\ Stage(0) \in Nat /\ Stage(0) <= twiceSlowed
    BY <1>2, Stages DEF Stage
<1>4. client.interval = 0 /\ client.wait <= client.interval
    BY <1>2 DEF LoginInv, Timers
<1> DEFINE iv == firstInterval(net.interval)
<1>5. iv \in Nat
    BY <1>3
<1> HIDE DEF iv
<1>6. /\ client' \in ClientState /\ SameClient
      /\ client'.phase = "prompting" /\ client'.interval = iv
      /\ client'.wait = client.wait /\ client'.waited = 0
      /\ client'.outcome = client.outcome /\ client'.identity = client.identity
    <2>1. client' = [client EXCEPT !.phase = "prompting", !.waited = 0, !.interval = iv]
        BY DEF iv
    <2> QED BY <1>1, <1>5, <2>1, PromptingFields
<1>7. /\ sess' = sess /\ pollCopy' = pollCopy /\ tabs' = tabs
      /\ held' = held /\ (spent' <=> spent)
      /\ now' = now /\ grants' = grants /\ slowed' = slowed /\ crashed' = crashed
    BY KeptFields
<1>8. ~asks("start")' /\ ~asks("poll")' /\ ~sent("client")'
    BY MessageFacts DEF asks, sent
<1>9. TypeInv'
    BY <1>6, <1>7 DEF LoginInv, TypeInv
<1>10. Exchange'
    BY <1>2, <1>6, <1>8 DEF LoginInv, Exchange, answered
<1>11. Timers'
    BY <1>1, <1>4, <1>5, <1>6, ClientAssumption DEF Timers
<1>12. Unstarted'
    BY <1>6, <1>8 DEF Unstarted
<1>13. OneUser'
    BY <1>6, <1>7, <1>8 DEF LoginInv, OneUser, Own, Belongs, granted, Right, SameClient, LetIn
<1>14. Paced'
    BY <1>2, <1>3, <1>6, <1>7, <1>8 DEF Paced, answered, slowing, iv
<1>15. Spaced'
    BY <1>2, <1>6, <1>7, <1>8 DEF LoginInv, Spaced, Timely, polling, answered
<1>16. SpentWell'
    <2>1. net.status # "approved" /\ client.outcome # "fault"
        BY <1>2 DEF LoginInv, Exchange, answered
    <2>2. ~spent
        BY <1>2, <2>1 DEF LoginInv, SpentWell, LetIn
    <2> QED BY <1>7, <2>2 DEF SpentWell
<1>17. Polled'
    <2>1. ~asks("poll")
        BY <1>2 DEF LoginInv, Exchange
    <2> QED BY <1>7, <2>1, NoPoll DEF Polled
<1>18. QED
    BY <1>9, <1>10, <1>11, <1>12, <1>13, <1>14, <1>15, <1>16, <1>17 DEF LoginInv

\* The poll loop waits for its timer.
LEMMA AgainFields ==
    ASSUME client \in ClientState, NEW iv \in Nat, NEW wt \in Nat, NEW wd \in Nat,
           client' = [client EXCEPT !.phase = "waiting", !.interval = iv,
                                    !.wait = wt, !.waited = wd]
    PROVE  /\ client' \in ClientState /\ SameClient
           /\ client'.phase = "waiting" /\ client'.interval = iv
           /\ client'.wait = wt /\ client'.waited = wd
           /\ client'.outcome = client.outcome /\ client'.identity = client.identity
BY DEF ClientState, Phases, SameClient

\* The poll loop waits, for an interval that counts from the last poll.
LEMMA WaitStep ==
    ASSUME LoginInv, client' \in ClientState, SameClient,
           client'.phase = "waiting",
           client'.interval = Stage(slowed),
           client'.wait <= client'.interval,
           client'.waited <= HTTPTimeout,
           client'.outcome = client.outcome,
           client.phase \in {"prompting", "asking"},
           net' = None, sessionKept, pollCopy = None,
           \A s \in held : s.lastPollAt # Never =>
             /\ s.lastPollAt <= now /\ s.lastPollAt <= ExpiresAt(s)
             /\ client'.interval - client'.wait <= now - s.lastPollAt,
           ~spent
    PROVE  LoginInv'
<1>1. /\ sess' = sess /\ pollCopy' = pollCopy /\ tabs' = tabs
      /\ held' = held /\ (spent' <=> spent)
      /\ now' = now /\ grants' = grants /\ slowed' = slowed /\ crashed' = crashed
    BY KeptFields
<1>2. ~asks("start")' /\ ~asks("poll")' /\ ~sent("client")'
    BY MessageFacts DEF asks, sent
<1>3. TypeInv'
    BY <1>1 DEF LoginInv, TypeInv
<1>4. Exchange'
    BY <1>2 DEF LoginInv, Exchange, answered
<1>5. Timers'
    BY DEF Timers
<1>6. Unstarted'
    BY <1>2 DEF Unstarted
<1>7. OneUser'
    BY <1>1, <1>2 DEF LoginInv, OneUser, Own, Belongs, granted, Right, SameClient, LetIn
<1>8. slowed \in 0..2
    BY InvTypes DEF MaxSlowed
<1>9. Stage(slowed) <= twiceSlowed
    BY <1>8, Stages
<1>10. Paced'
    BY <1>1, <1>2, <1>9 DEF Paced, answered, slowing
<1>11. Spaced'
    <2> SUFFICES ASSUME NEW s \in held PROVE Timely(s)'
        BY <1>1 DEF Spaced
    <2>1. s.createdAt <= HTTPTimeout
        BY DEF LoginInv, Spaced, Timely
    <2>2. s.lastPollAt # Never =>
             now - s.lastPollAt >= client'.interval - client'.wait
        <3> SUFFICES ASSUME s.lastPollAt # Never
                     PROVE  now - s.lastPollAt >= client'.interval - client'.wait
            OBVIOUS
        <3>1. s.lastPollAt \in Nat
            BY HeldTypes DEF LoginInv, SessionRec
        <3>2. now \in Nat /\ client'.interval \in Nat /\ client'.wait \in Nat
            BY InvTypes DEF ClientState
        <3> DEFINE a == now - s.lastPollAt
                   b == client'.interval - client'.wait
        <3>3. a \in Int /\ b \in Int /\ b <= a
            BY <3>1, <3>2
        <3> HIDE DEF a, b
        <3>4. a >= b
            BY <3>3
        <3> QED BY <3>4 DEF a, b
    <2> QED BY <1>1, <1>2, <2>1, <2>2 DEF Timely, polling, answered
<1>12. SpentWell'
    BY <1>1 DEF SpentWell
<1>13. Polled'
    BY <1>1 DEF Polled
<1>14. QED
    BY <1>3, <1>4, <1>5, <1>6, <1>7, <1>10, <1>11, <1>12, <1>13 DEF LoginInv

\* While the client shows the prompt or waits, nothing has been consumed.
LEMMA QuietUnconsumed ==
    ASSUME LoginInv, client.phase \in {"prompting", "waiting"}
    PROVE  ~spent /\ net = None /\ pollCopy = None
<1>1. net = None
    BY DEF LoginInv, Exchange, Calling
<1>2. client.outcome # "fault"
    BY DEF LoginInv, Exchange
<1>3. pollCopy = None
    BY <1>1, MessageFacts, NoPoll DEF asks
<1>4. QED BY <1>1, <1>2, <1>3 DEF LoginInv, SpentWell, LetIn, sent

\* The prompt is out.
LEMMA PromptedStep ==
    ASSUME LoginInv, Prompted, sessionKept
    PROVE  LoginInv'
<1>1. /\ client.phase = "prompting" /\ net' = net
      /\ client' = [client EXCEPT !.phase = "waiting", !.wait = 0]
    BY DEF Prompted
<1>2. client \in ClientState /\ client.interval \in Nat
    BY InvTypes
<1>3. /\ client' \in ClientState /\ SameClient
      /\ client'.phase = "waiting" /\ client'.interval = client.interval
      /\ client'.wait = 0 /\ client'.waited = client.waited
      /\ client'.outcome = client.outcome
    BY <1>1, <1>2 DEF ClientState, Phases, SameClient
<1>4. ~spent /\ net = None /\ pollCopy = None
    BY <1>1, QuietUnconsumed
<1>5. client.interval = Stage(slowed)
    BY <1>1 DEF LoginInv, Paced
<1>6. \A s \in held : s.lastPollAt = Never
    BY <1>1 DEF LoginInv, Spaced, Timely
<1>7. client'.wait <= client'.interval /\ client'.waited <= HTTPTimeout
    BY <1>2, <1>3 DEF LoginInv, Timers
<1>8. net' = None
    BY <1>1, <1>4
<1>9. QED BY <1>1, <1>3, <1>4, <1>5, <1>6, <1>7, <1>8, WaitStep

\* The poll timer fires.
LEMMA AskStep ==
    ASSUME LoginInv, Ask, sessionKept
    PROVE  LoginInv'
<1>1. /\ client.phase = "waiting" /\ client.wait = 0
      /\ client' = [client EXCEPT !.phase = "asking", !.waited = 0]
      /\ net' = Request("poll")
    BY DEF Ask, send
<1>2. client \in ClientState /\ client.interval \in Nat
    BY InvTypes
<1>3. /\ client' \in ClientState /\ SameClient
      /\ client'.phase = "asking" /\ client'.interval = client.interval
      /\ client'.wait = 0 /\ client'.waited = 0
      /\ client'.outcome = client.outcome
    BY <1>1, <1>2 DEF ClientState, Phases, Calling, SameClient
<1>4. ~spent /\ pollCopy = None
    BY <1>1, QuietUnconsumed
<1>5. /\ sess' = sess /\ pollCopy' = pollCopy /\ tabs' = tabs
      /\ held' = held /\ (spent' <=> spent)
      /\ now' = now /\ grants' = grants /\ slowed' = slowed /\ crashed' = crashed
    BY KeptFields
<1>6. ~asks("start")' /\ asks("poll")' /\ ~sent("client")' /\ net' \in Message
    BY <1>1, MessageFacts DEF asks, sent
<1>7. TypeInv'
    BY <1>3, <1>5, <1>6 DEF LoginInv, TypeInv
<1>8. Exchange'
    BY <1>1, <1>3, <1>6 DEF LoginInv, Exchange, answered, Calling
<1>9. Timers'
    BY <1>2, <1>3, ClientAssumption DEF Timers
<1>10. Unstarted'
    BY <1>3, <1>6 DEF Unstarted
<1>11. OneUser'
    BY <1>3, <1>5, <1>6 DEF LoginInv, OneUser, Own, Belongs, granted, Right, SameClient, LetIn
<1>12. Paced'
    BY <1>1, <1>3, <1>5, <1>6 DEF LoginInv, Paced, answered, slowing
<1>13. Spaced'
    <2>1. client.interval - client.wait = client.interval
        BY <1>1, <1>2
    <2> QED BY <1>1, <1>3, <1>5, <1>6, <2>1 DEF LoginInv, Spaced, Timely, polling, answered
<1>14. SpentWell'
    BY <1>4, <1>5 DEF SpentWell
<1>15. Polled'
    BY <1>4, <1>5 DEF Polled
<1>16. QED
    BY <1>7, <1>8, <1>9, <1>10, <1>11, <1>12, <1>13, <1>14, <1>15 DEF LoginInv

\* The client ends with a result.
LEMMA FinishFields ==
    ASSUME client \in ClientState, NEW ph \in {"admitted", "refused"},
           NEW st \in Statuses, NEW id \in Names \cup {None},
           client' = [client EXCEPT !.phase = ph, !.outcome = st, !.identity = id,
                                    !.waited = 0]
    PROVE  /\ client' \in ClientState /\ SameClient
           /\ client'.phase = ph /\ client'.outcome = st /\ client'.identity = id
           /\ client'.interval = client.interval /\ client'.wait = client.wait
           /\ client'.waited = 0
BY DEF ClientState, Phases, Ended, LetIn, SameClient

\* The client lets in whom the broker approved, or ends without the artifact.
LEMMA FinishStep ==
    ASSUME LoginInv, client' \in ClientState, SameClient,
           client'.phase \in {"admitted", "refused"}, client'.outcome # "fault",
           client'.interval = client.interval, client'.wait = client.wait,
           client'.waited = 0,
           net' = None, sessionKept, pollCopy = None,
           client'.phase = "admitted" => granted(client'.identity),
           client'.phase = "refused" => ~spent
    PROVE  LoginInv'
<1>1. /\ sess' = sess /\ pollCopy' = pollCopy /\ tabs' = tabs
      /\ held' = held /\ (spent' <=> spent)
      /\ now' = now /\ grants' = grants /\ slowed' = slowed /\ crashed' = crashed
    BY KeptFields
<1>2. ~asks("start")' /\ ~asks("poll")' /\ ~sent("client")'
    BY MessageFacts DEF asks, sent
<1>3. TypeInv'
    BY <1>1 DEF LoginInv, TypeInv
<1>4. Exchange'
    BY <1>2 DEF Exchange, answered
<1>5. Timers'
    BY ClientAssumption DEF LoginInv, Timers
<1>6. Unstarted'
    BY <1>2 DEF Unstarted
<1>7. OneUser'
    BY <1>1, <1>2 DEF LoginInv, OneUser, Own, Belongs, granted, Right, SameClient, LetIn
<1>8. Paced'
    BY <1>2 DEF LoginInv, Paced, answered, slowing
<1>9. Spaced'
    BY <1>1, <1>2 DEF LoginInv, Spaced, Timely, polling, answered
<1>10. SpentWell'
    BY <1>1 DEF SpentWell, LetIn
<1>11. Polled'
    BY <1>1 DEF Polled
<1>12. QED
    BY <1>3, <1>4, <1>5, <1>6, <1>7, <1>8, <1>9, <1>10, <1>11 DEF LoginInv

\* What a client that gets an answer may rely on.
LEMMA AnswerFacts ==
    ASSUME LoginInv, answered("asking")
    PROVE  /\ net \in Responses /\ client.phase = "asking"
           /\ net.ok \in BOOLEAN /\ net.status \in Statuses
           /\ net.identity \in Names \cup {None}
           /\ pollCopy = None /\ ~asks("poll")
           /\ net.status # "approved" => ~spent
           /\ ~net.ok => net.status # "approved"
           /\ net.status = "approved" => granted(net.identity)
<1>1. net # None /\ net.to = "client" /\ client.phase = "asking"
    BY DEF answered, sent
<1>2. net \in Responses
    BY <1>1, InvTypes, MessageFacts
<1>3. net.ok \in BOOLEAN /\ net.status \in Statuses /\ net.identity \in Names \cup {None}
    BY <1>2 DEF Responses
<1>4. client.outcome # "fault" /\ (net.status = "approved" => net.ok)
    BY <1>1 DEF LoginInv, Exchange, answered
<1>5. net.status # "approved" => ~spent
    BY <1>1, <1>4 DEF LoginInv, SpentWell, LetIn
<1>6. net.status = "approved" => granted(net.identity)
    BY DEF LoginInv, OneUser, answered
<1>7. pollCopy = None /\ ~asks("poll")
    BY <1>2, MessageFacts, NoPoll DEF asks
<1>8. QED BY <1>1, <1>2, <1>3, <1>4, <1>5, <1>6, <1>7

\* An answer that asks for another poll.
LEMMA PollAgainStep ==
    ASSUME LoginInv, answered("asking"), net' = None, sessionKept,
           NEW iv, iv = Stage(slowed), again(iv),
           net.status \in {"pending", "slow_down"}
    PROVE  LoginInv'
<1>1. client \in ClientState /\ client.phase = "asking" /\ now \in Nat
    BY InvTypes DEF answered
<1>2. iv \in Nat
    <2>1. slowed \in 0..2
        BY InvTypes DEF MaxSlowed
    <2> QED BY <2>1, Stages
<1>3. client' = [client EXCEPT !.phase = "waiting", !.interval = iv,
                               !.wait = iv, !.waited = 0]
    BY DEF again
<1>4. /\ client' \in ClientState /\ SameClient
      /\ client'.phase = "waiting" /\ client'.interval = iv
      /\ client'.wait = iv /\ client'.waited = 0
      /\ client'.outcome = client.outcome
    BY <1>1, <1>2, <1>3, AgainFields
<1>5. ~spent /\ pollCopy = None
    BY AnswerFacts
<1>6. ASSUME NEW s \in held, s.lastPollAt # Never
      PROVE  /\ s.lastPollAt <= now /\ s.lastPollAt <= ExpiresAt(s)
             /\ client'.interval - client'.wait <= now - s.lastPollAt
    <2>1. s.lastPollAt \in Nat
        BY <1>6, HeldTypes DEF LoginInv, SessionRec
    <2>2. s.lastPollAt <= now /\ s.lastPollAt <= ExpiresAt(s)
        BY <1>6 DEF LoginInv, Spaced, Timely, polling
    <2>3. client'.interval - client'.wait = 0
        BY <1>2, <1>4
    <2>4. 0 <= now - s.lastPollAt
        BY <1>1, <2>1, <2>2
    <2> QED BY <2>2, <2>3, <2>4
<1>7. client'.wait <= client'.interval /\ client'.waited <= HTTPTimeout
    BY <1>2, <1>4, ClientAssumption
<1>8. QED BY <1>1, <1>4, <1>5, <1>6, <1>7, WaitStep

\* The client takes the answer to a poll.
LEMMA AnsweredStep ==
    ASSUME LoginInv, Answered, sessionKept
    PROVE  LoginInv'
<1>1. client.phase = "asking" /\ sent("client") /\ react(net) /\ net' = None
    BY DEF Answered
<1>2. answered("asking")
    BY <1>1 DEF answered
<1>3. /\ net.ok \in BOOLEAN /\ net.status \in Statuses
      /\ net.identity \in Names \cup {None}
      /\ pollCopy = None /\ ~asks("poll")
      /\ net.status # "approved" => ~spent
      /\ ~net.ok => net.status # "approved"
      /\ net.status = "approved" => granted(net.identity)
    BY <1>2, AnswerFacts
<1>4. client \in ClientState /\ slowed \in 0..2
    BY InvTypes DEF MaxSlowed
<1>5. client.phase \notin Ended
    BY <1>1 DEF Ended, LetIn
<1>6. CASE ~net.ok
    <2>1. Refuse("rejected")
        BY <1>1, <1>6 DEF react
    <2>2. ~spent
        BY <1>3, <1>6
    <2>4. GivesUp("rejected")
        BY <2>1, InvTypes, RefuseFields DEF Refuse, Failures
    <2> QED BY <1>1, <1>3, <1>5, <2>1, <2>2, <2>4, RefuseStep DEF GivesUp
<1>7. CASE net.ok /\ isResult(net.status)
    <2> DEFINE ph == IF admits(client.program, net.status) THEN "admitted" ELSE "refused"
    <2>1. client' = [client EXCEPT !.phase = ph, !.outcome = net.status,
                                   !.identity = net.identity, !.waited = 0]
        <3>1. finish(net)
            BY <1>1, <1>7 DEF react, isResult
        <3> QED BY <3>1 DEF finish
    <2>2. ph \in {"admitted", "refused"} /\ (ph = "admitted" <=> net.status = "approved")
        BY <1>7 DEF admits, isResult
    <2> HIDE DEF ph
    <2>3. net.status # "fault"
        BY <1>7 DEF isResult
    <2>4. /\ client' \in ClientState /\ SameClient
          /\ client'.phase = ph /\ client'.outcome = net.status
          /\ client'.identity = net.identity
          /\ client'.interval = client.interval /\ client'.wait = client.wait
          /\ client'.waited = 0
        BY <1>3, <1>4, <2>1, <2>2, FinishFields, ZenonT(30)
    <2> QED BY <1>1, <1>3, <2>2, <2>3, <2>4, FinishStep
<1>8. CASE net.ok /\ net.status = "pending"
    <2>1. again(client.interval)
        BY <1>1, <1>8 DEF react, isResult
    <2>2. client.interval = Stage(slowed)
        BY <1>2, <1>8 DEF LoginInv, Paced
    <2> QED BY <1>1, <1>2, <1>8, <2>1, <2>2, PollAgainStep
<1>9. CASE net.ok /\ net.status = "slow_down"
    <2>1. again(slowDown(client.interval))
        BY <1>1, <1>9 DEF react, isResult
    <2>2. slowed > 0 /\ client.interval = Stage(slowed - 1)
        BY <1>2, <1>9 DEF LoginInv, Paced, slowing
    <2>3. slowDown(client.interval) = Stage(slowed)
        BY <1>4, <2>2, Stages
    <2> QED BY <1>1, <1>2, <1>9, <2>1, <2>3, PollAgainStep
<1>10. CASE net.ok /\ ~isResult(net.status) /\ net.status \notin {"pending", "slow_down"}
    <2>1. Refuse("unexpected")
        BY <1>1, <1>10 DEF react
    <2>2. ~spent
        BY <1>3, <1>10 DEF isResult
    <2>4. GivesUp("unexpected")
        BY <2>1, InvTypes, RefuseFields DEF Refuse, Failures
    <2> QED BY <1>1, <1>3, <1>5, <2>1, <2>2, <2>4, RefuseStep DEF GivesUp
<1>11. QED BY <1>3, <1>6, <1>7, <1>8, <1>9, <1>10 DEF isResult

\* The call fails; the request may be on its way all the same.
LEMMA CallFailsStep ==
    ASSUME LoginInv, CallFails, sessionKept
    PROVE  LoginInv'
<1>1. /\ client.phase \in Calling /\ Refuse("fault")
      /\ net' = IF sent("broker") THEN net ELSE None
    BY DEF CallFails
<1>2. client.phase \notin Ended
    BY <1>1 DEF Calling, Ended, LetIn
<1>3. (net' = None /\ ~asks("poll")) \/ (net' = net /\ sent("broker"))
    BY <1>1, MessageFacts DEF sent, asks
<1>4. GivesUp("fault")
    BY <1>1, InvTypes, RefuseFields DEF Refuse, Failures
<1>5. QED BY <1>1, <1>2, <1>3, <1>4, RefuseStep DEF GivesUp

\* The client gives up while the broker has nothing of it under way.
LEMMA QuitStep ==
    ASSUME LoginInv, sessionKept, Misconfigured \/ PromptFails \/ Cancelled
    PROVE  LoginInv'
<1>1. CASE Misconfigured
    <2>1. client.phase = "idle" /\ Refuse("misconfigured") /\ net' = net
        BY <1>1 DEF Misconfigured
    <2>2. net = None
        BY <2>1 DEF LoginInv, Exchange, Calling
    <2>3. ~spent
        BY <2>1 DEF LoginInv, Unstarted, spent
    <2>4. GivesUp("misconfigured")
        BY <2>1, InvTypes, RefuseFields DEF Refuse, Failures
    <2> QED BY <2>1, <2>2, <2>3, <2>4, MessageFacts, RefuseStep DEF GivesUp, asks
<1>2. CASE PromptFails
    <2>1. client.phase = "prompting" /\ Refuse("prompt") /\ net' = net
        BY <1>2 DEF PromptFails
    <2>2. net = None /\ ~spent
        BY <2>1, QuietUnconsumed
    <2>4. GivesUp("prompt")
        BY <2>1, InvTypes, RefuseFields DEF Refuse, Failures
    <2> QED BY <2>1, <2>2, <2>4, MessageFacts, RefuseStep DEF GivesUp, asks
<1>3. CASE Cancelled
    <2>1. client.phase = "waiting" /\ Refuse("fault") /\ net' = net
        BY <1>3 DEF Cancelled
    <2>2. net = None
        BY <2>1, QuietUnconsumed
    <2>4. GivesUp("fault")
        BY <2>1, InvTypes, RefuseFields DEF Refuse, Failures
    <2> QED BY <2>1, <2>2, <2>4, MessageFacts, RefuseStep DEF GivesUp, asks
<1>4. QED BY <1>1, <1>2, <1>3

\* The broker's answer to the start request, good or bad.
LEMMA StartedEither ==
    ASSUME LoginInv, Started, sessionKept
    PROVE  LoginInv'
<1>1. client.phase = "starting" /\ sent("client") /\ net' = None
    BY DEF Started
<1>2. answered("starting")
    BY <1>1 DEF answered
<1>3. CASE net.ok
    <2>1. client' = [client EXCEPT !.phase = "prompting", !.waited = 0,
                                   !.interval = firstInterval(net.interval)]
        BY <1>3 DEF Started
    <2> QED BY <1>1, <1>2, <1>3, <2>1, StartedStep
<1>4. CASE ~net.ok
    <2>1. Refuse("start failed")
        BY <1>4 DEF Started
    <2>2. client.outcome # "fault" /\ net.status # "approved"
        BY <1>1, <1>2 DEF LoginInv, Exchange
    <2>3. ~spent
        BY <1>1, <2>2 DEF LoginInv, SpentWell, LetIn
    <2>4. GivesUp("start failed")
        BY <2>1, InvTypes, RefuseFields DEF Refuse, Failures
    <2>5. ~asks("poll")
        BY <1>1 DEF LoginInv, Exchange
    <2> QED BY <1>1, <2>1, <2>3, <2>4, <2>5, RefuseStep DEF GivesUp
<1>5. QED BY <1>3, <1>4

\* The SSH server's shell.
LEMMA ServeStep ==
    ASSUME LoginInv, serveSession, sessionKept
    PROVE  LoginInv'
<1>1. /\ client.phase = "admitted" /\ net' = net
      /\ client' = [client EXCEPT !.phase = "served"]
    BY DEF serveSession
<1>2. client \in ClientState
    BY InvTypes
<1>3. /\ client' \in ClientState /\ SameClient /\ client'.phase = "served"
      /\ client'.interval = client.interval /\ client'.wait = client.wait
      /\ client'.waited = client.waited /\ client'.outcome = client.outcome
      /\ client'.identity = client.identity
    BY <1>1, <1>2 DEF ClientState, Phases, Ended, LetIn, SameClient
<1>4. /\ sess' = sess /\ pollCopy' = pollCopy /\ tabs' = tabs
      /\ held' = held /\ (spent' <=> spent)
      /\ now' = now /\ grants' = grants /\ slowed' = slowed /\ crashed' = crashed
    BY KeptFields
<1>5. net = None
    BY <1>1 DEF LoginInv, Exchange, Calling
<1>6. ~asks("start")' /\ ~asks("poll")' /\ ~sent("client")'
    BY <1>1, <1>5, MessageFacts DEF asks, sent
<1>7. TypeInv'
    BY <1>1, <1>3, <1>4 DEF LoginInv, TypeInv
<1>8. Exchange' /\ Timers'
    BY <1>1, <1>3, <1>5, <1>6 DEF LoginInv, Exchange, Timers, answered
<1>9. Unstarted'
    BY <1>3, <1>6 DEF Unstarted
<1>10. OneUser'
    BY <1>1, <1>3, <1>4, <1>6 DEF LoginInv, OneUser, Own, Belongs, granted, Right, SameClient, LetIn
<1>11. Paced'
    BY <1>3, <1>6 DEF LoginInv, Paced, answered, slowing
<1>12. Spaced'
    BY <1>3, <1>4, <1>6 DEF LoginInv, Spaced, Timely, polling, answered
<1>13. SpentWell'
    BY <1>3 DEF SpentWell, LetIn
<1>14. Polled'
    <2>1. pollCopy = None
        BY <1>5, MessageFacts, NoPoll DEF asks
    <2> QED BY <1>4, <2>1 DEF Polled
<1>15. QED
    BY <1>7, <1>8, <1>9, <1>10, <1>11, <1>12, <1>13, <1>14 DEF LoginInv

\* The client's steps.
LEMMA ClientKeeps ==
    ASSUME LoginInv, clientStep
    PROVE  LoginInv'
<1>1. ClientNext /\ sessionKept
    BY DEF clientStep, sessionKept, broker
<1>2. QED
    BY <1>1, StartStep, StartedEither, PromptedStep, AskStep, AnsweredStep,
       CallFailsStep, QuitStep, ServeStep DEF ClientNext

-----------------------------------------------------------------------------
(* The broker and the user.                                                *)

\* A step of the broker that neither the client nor the network sees: what is
\* held then is of this login, and was polled and used up as something that
\* was held before.
LEMMA SessionStep ==
    ASSUME LoginInv,
           client' = client, net' = net, now' = now, slowed' = slowed,
           crashed' = crashed, pollCopy' = pollCopy,
           sess' \in SessionRec \cup {None},
           tabs' \in [Tabs -> TabCopy \cup {None}],
           grants' \subseteq Grant, grants \subseteq grants',
           \A g \in grants' : Right(g), held = {} => grants' = grants,
           \A s \in held' : \E c \in held : /\ s.createdAt = c.createdAt
                                            /\ s.lastPollAt = c.lastPollAt
                                            /\ s.consumed = c.consumed,
           \A s \in held' : Belongs(s, client.hint, grants')
    PROVE  LoginInv'
<1>2. /\ asks("start")' = asks("start") /\ asks("poll")' = asks("poll")
      /\ sent("client")' = sent("client") /\ sent("broker")' = sent("broker")
    BY DEF asks, sent
<1>3. TypeInv'
    BY DEF LoginInv, TypeInv
<1>4. Exchange'
    BY <1>2 DEF LoginInv, Exchange, answered
<1>5. Timers'
    BY DEF LoginInv, Timers
<1>6. Unstarted'
    <2>1. CASE held = {}
        <3>1. held' = {}
            BY <2>1
        <3> QED BY <1>2, <2>1, <3>1 DEF LoginInv, Unstarted
    <2>2. CASE held # {}
        BY <1>2, <2>2 DEF LoginInv, Unstarted
    <2> QED BY <2>1, <2>2
<1>7. Paced'
    BY <1>2 DEF LoginInv, Paced, answered, slowing
<1>8. Spaced'
    <2> SUFFICES ASSUME NEW s \in held' PROVE Timely(s)'
        BY DEF Spaced
    <2>1. PICK c \in held : s.createdAt = c.createdAt /\ s.lastPollAt = c.lastPollAt
        OBVIOUS
    <2>2. ExpiresAt(s) = ExpiresAt(c)
        BY <2>1 DEF ExpiresAt
    <2>3. Timely(c)
        BY DEF LoginInv, Spaced
    <2>4. polling' = polling
        BY <1>2 DEF polling, answered
    <2> QED BY <1>2, <2>1, <2>2, <2>3, <2>4 DEF Timely
<1>9. SpentWell'
    <2>1. spent' => spent
        BY DEF spent
    <2> QED BY <1>2, <2>1 DEF LoginInv, SpentWell
<1>10. Polled'
    BY <1>2 DEF LoginInv, Polled
<1>11. OneUser'
    <2>1. \A g \in grants' : Right(g)'
        BY DEF Right
    <2>2. \A n : granted(n) => granted(n)'
        BY DEF granted
    <2>3. /\ sent("client") /\ net.status = "approved" => granted(net.identity)
          /\ client.phase \in LetIn => granted(client.identity)
        BY DEF LoginInv, OneUser
    <2> QED BY <1>2, <2>1, <2>2, <2>3 DEF OneUser, Own
<1>12. QED
    BY <1>3, <1>4, <1>5, <1>6, <1>7, <1>8, <1>9, <1>10, <1>11 DEF LoginInv

\* A step that writes nothing.
LEMMA QuietStep ==
    ASSUME LoginInv,
           client' = client, net' = net, now' = now, slowed' = slowed,
           crashed' = crashed, pollCopy' = pollCopy, grants' = grants,
           sess' = sess \/ sess' = None,
           tabs' \in [Tabs -> TabCopy \cup {None}],
           \A b \in Tabs : tabs'[b] \in {None, tabs[b]}
                           \/ (sess # None /\ tabs'[b].sess = sess)
    PROVE  LoginInv'
<1>1. TypeInv
    BY DEF LoginInv
<1>2. \A s \in held' : s \in held
    <2>1. \A s \in held' : s \in held \/ s = sess'
        <3>1. \/ pollCopy' \in {None, pollCopy}
              \/ sess # None /\ pollCopy'.sess = sess
            OBVIOUS
        <3> QED BY <1>1, <3>1, HeldStep
    <2>2. \A s \in held' : s \in SessionRec /\ s # None
        BY HeldTypes, <1>1 DEF held
    <2>3. sess # None => sess \in held
        BY <1>1, HeldTypes
    <2> QED BY <2>1, <2>2, <2>3
<1>3. sess' \in SessionRec \cup {None} /\ grants' \subseteq Grant
    BY <1>1 DEF TypeInv
<1>4. \A g \in grants' : Right(g)
    BY DEF LoginInv, OneUser
<1>5. \A s \in held' : Belongs(s, client.hint, grants')
    BY <1>2 DEF LoginInv, OneUser, Own, Belongs
<1>6. grants \subseteq grants'
    OBVIOUS
<1>7. QED BY <1>2, <1>3, <1>4, <1>5, <1>6, SessionStep

\* The browser's request reads the session.
LEMMA TabReadsStep ==
    ASSUME LoginInv, NEW b \in Tabs, tabReads(b)
    PROVE  LoginInv'
<1> DEFINE cp == [sess |-> sess, late |-> isExpired(sess, now)]
<1>1. /\ client' = client /\ net' = net /\ now' = now /\ slowed' = slowed
      /\ crashed' = crashed /\ pollCopy' = pollCopy /\ grants' = grants
      /\ sess' = sess /\ sess # None /\ tabs' = [tabs EXCEPT ![b] = cp]
    BY DEF tabReads, history
<1>2. cp \in TabCopy /\ cp.sess = sess
    BY <1>1 DEF TabCopy, isExpired, LoginInv, TypeInv
<1> HIDE DEF cp
<1>3. tabs \in [Tabs -> TabCopy \cup {None}]
    BY DEF LoginInv, TypeInv
<1>4. /\ tabs' \in [Tabs -> TabCopy \cup {None}]
      /\ \A x \in Tabs : tabs'[x] = tabs[x] \/ tabs'[x] = cp
    BY <1>1, <1>2, <1>3
<1>5. QED BY <1>1, <1>2, <1>4, QuietStep

\* The session is swept.
LEMMA SweepStep ==
    ASSUME LoginInv, Sweep
    PROVE  LoginInv'
<1>1. /\ client' = client /\ net' = net /\ now' = now /\ slowed' = slowed
      /\ crashed' = crashed /\ pollCopy' = pollCopy /\ grants' = grants
      /\ sess' = None /\ tabs' = tabs
    BY DEF Sweep, history
<1>2. tabs' \in [Tabs -> TabCopy \cup {None}]
    BY <1>1 DEF LoginInv, TypeInv
<1>3. QED BY <1>1, <1>2, QuietStep

\* The broker restarts: nothing is held any more.
LEMMA CrashStep ==
    ASSUME LoginInv, Crash
    PROVE  LoginInv'
<1>1. /\ client' = client /\ now' = now /\ slowed' = slowed /\ grants' = grants
      /\ crashed' = TRUE /\ sess' = None /\ pollCopy' = None
      /\ tabs' = [b \in Tabs |-> None]
      /\ net' = net \/ (net' = None /\ asks("poll"))
    BY DEF Crash, LoginInv, Polled
<1>2. held' = {}
    BY <1>1, NoneAssumption DEF held
<1>3. /\ asks("start")' => asks("start")
      /\ asks("poll")' => asks("poll")
      /\ sent("client")' => sent("client") /\ net' = net
      /\ net' # None => net' = net
    BY <1>1, MessageFacts DEF asks, sent
<1>4. TypeInv'
    BY <1>1 DEF LoginInv, TypeInv
<1>5. Exchange'
    <2>1. CASE net' = net
        BY <1>1, <2>1 DEF LoginInv, Exchange, answered, asks, sent
    <2>2. CASE net' = None
        <3>1. ~asks("start")' /\ ~asks("poll")' /\ ~sent("client")'
            BY <2>2, MessageFacts DEF asks, sent
        <3> QED BY <1>1, <2>2, <3>1 DEF LoginInv, Exchange, answered
    <2> QED BY <1>1, <2>1, <2>2
<1>6. Timers'
    BY <1>1 DEF LoginInv, Timers
<1>7. Unstarted'
    BY <1>1, <1>2, <1>3 DEF LoginInv, Unstarted
<1>8. OneUser'
    BY <1>1, <1>2, <1>3 DEF LoginInv, OneUser, Right, granted
<1>9. Paced'
    <2>1. answered("asking")' => answered("asking") /\ net' = net
        BY <1>1, <1>3 DEF answered
    <2> QED BY <1>1, <1>3, <2>1 DEF LoginInv, Paced, slowing
<1>10. Spaced' /\ SpentWell' /\ Polled'
    BY <1>1, <1>2 DEF Spaced, SpentWell, spent, Polled
<1>11. QED
    BY <1>4, <1>5, <1>6, <1>7, <1>8, <1>9, <1>10 DEF LoginInv

\* A request of the browser ends: it has written d, made of what it had read,
\* or nothing.
LEMMA EndsStep ==
    ASSUME LoginInv, NEW b \in Tabs, tabs[b] # None, ends(b),
           NEW d \in SessionRec, sess' \in {d, sess},
           d.createdAt = tabs[b].sess.createdAt,
           d.lastPollAt = tabs[b].sess.lastPollAt,
           d.consumed = tabs[b].sess.consumed,
           Belongs(d, client.hint, grants'),
           grants' \subseteq Grant, grants \subseteq grants',
           \A g \in grants' : Right(g)
    PROVE  LoginInv'
<1>1. /\ client' = client /\ net' = net /\ now' = now /\ slowed' = slowed
      /\ crashed' = crashed /\ pollCopy' = pollCopy
      /\ tabs' = [tabs EXCEPT ![b] = None]
    BY DEF ends
<1>2. TypeInv
    BY DEF LoginInv
<1>3. /\ tabs' \in [Tabs -> TabCopy \cup {None}]
      /\ \A x \in Tabs : tabs'[x] = tabs[x] \/ tabs'[x] = None
    BY <1>1, <1>2 DEF TypeInv
<1>4. tabs[b].sess \in held
    BY <1>2, HeldTypes
<1>5. \A s \in held' : s \in held \/ s = d
    <2>1. \A s \in held' : s \in held \/ s = sess'
        <3>1. \/ pollCopy' \in {None, pollCopy}
              \/ sess # None /\ pollCopy'.sess = sess
            BY <1>1
        <3>2. \A x \in Tabs : tabs'[x] \in {None, tabs[x]}
                              \/ (sess # None /\ tabs'[x].sess = sess)
            BY <1>3
        <3> QED BY <1>2, <3>1, <3>2, HeldStep
    <2>2. \A s \in held' : s # None
        BY <1>2, HeldTypes DEF held
    <2>3. sess # None => sess \in held
        BY <1>2, HeldTypes
    <2> QED BY <2>1, <2>2, <2>3
<1>6. \A s \in held' : \E c \in held : /\ s.createdAt = c.createdAt
                                       /\ s.lastPollAt = c.lastPollAt
                                       /\ s.consumed = c.consumed
    BY <1>4, <1>5
<1>7. \A s \in held' : Belongs(s, client.hint, grants')
    <2>1. \A s \in held : Belongs(s, client.hint, grants')
        BY <1>1 DEF LoginInv, OneUser, Own, Belongs
    <2> QED BY <1>5, <2>1
<1>8. sess' \in SessionRec \cup {None}
    BY <1>2 DEF TypeInv
<1>9. held # {}
    BY <1>4
<1>10. QED BY <1>1, <1>3, <1>6, <1>7, <1>8, <1>9, SessionStep

\* What a request of the browser starts from.
LEMMA TabFacts ==
    ASSUME LoginInv, NEW b \in Tabs, tabs[b] # None, NEW t \in readings(tabs[b])
    PROVE  /\ tabs[b].sess \in SessionRec /\ Own(tabs[b].sess) /\ t \in Nat
           /\ grants \subseteq Grant
           /\ \A g \in grants : Right(g)
<1>1. tabs[b].sess \in SessionRec /\ tabs[b].sess \in held
    BY HeldTypes DEF LoginInv
<1>2. now \in Nat /\ tabs[b].sess.createdAt \in Nat
    BY <1>1, InvTypes DEF SessionRec
<1>3. t \in Nat
    BY <1>2 DEF readings
<1>4. QED BY <1>1, <1>3 DEF LoginInv, TypeInv, OneUser

\* The link is opened.
LEMMA VerifyStep ==
    ASSUME LoginInv, NEW b \in Tabs, tabs[b] # None, NEW t \in readings(tabs[b]),
           handleVerify(b, t)
    PROVE  LoginInv'
<1> DEFINE c == tabs[b].sess
           e == expireIfNeeded(c, t)
<1>1. /\ c \in SessionRec /\ Own(c) /\ t \in Nat
      /\ grants \subseteq Grant /\ \A g \in grants : Right(g)
    BY TabFacts
<1>2. ends(b) /\ grants' = grants /\ client' = client
    BY DEF handleVerify, ends
<1>3. sess' \in {e, sess}
    BY DEF handleVerify, Update
<1>4. /\ e \in SessionRec /\ e.hint = c.hint /\ e.createdAt = c.createdAt
      /\ e.lastPollAt = c.lastPollAt /\ e.consumed = c.consumed
      /\ e.identity = c.identity
      /\ e.state = c.state \/ e.state \in {"denied", "expired"}
    BY <1>1, ExpireKeeps DEF SameLogin, GivenUp
<1> HIDE DEF e
<1>5. Belongs(e, client.hint, grants')
    BY <1>1, <1>2, <1>4 DEF Own, Belongs
<1>6. QED BY <1>1, <1>2, <1>3, <1>4, <1>5, EndsStep

\* The sign-in binds the user the login was started for.
LEMMA IdPStep ==
    ASSUME LoginInv, NEW b \in Tabs, tabs[b] # None, NEW t \in readings(tabs[b]),
           NEW name \in Names, handleIdPResponse(b, name, t)
    PROVE  LoginInv'
<1> DEFINE c == tabs[b].sess
           d == bindIdentity(c, name, t, Draw).sess
           e == [d EXCEPT !.identityAt = Never]
<1>1. /\ c \in SessionRec /\ Own(c) /\ t \in Nat
      /\ grants \subseteq Grant /\ \A g \in grants : Right(g)
    BY TabFacts
<1>2. ends(b) /\ grants' = grants /\ client' = client
    BY DEF handleIdPResponse, ends
<1>3. sess' \in {e, sess}
    BY DEF handleIdPResponse, Update
<1>4. BindKept(c, d, name)
    BY <1>1, BindKeeps DEF Draw
<1> HIDE DEF c, d
<1>5. d \in SessionRec
    BY <1>4 DEF BindKept, SameLogin
<1>6. /\ e \in SessionRec
      /\ e.hint = d.hint /\ e.createdAt = d.createdAt
      /\ e.lastPollAt = d.lastPollAt /\ e.consumed = d.consumed
      /\ e.state = d.state /\ e.identity = d.identity
    BY <1>5 DEF SessionRec, Never
<1> HIDE DEF e
<1>7. /\ e.hint = c.hint /\ e.createdAt = c.createdAt
      /\ e.lastPollAt = c.lastPollAt /\ e.consumed = c.consumed
      /\ \/ e.state = c.state /\ e.identity = c.identity
         \/ e.state \in {"denied", "expired"}
         \/ /\ e.state = "awaiting_approval" /\ e.identity = name
            /\ normalize[name] = normalize[c.hint]
    BY <1>4, <1>6 DEF BindKept, SameLogin, GivenUp, identityMatches
<1>8. Belongs(e, client.hint, grants')
    BY <1>1, <1>2, <1>7 DEF Own, Belongs
<1>9. QED BY <1>1, <1>2, <1>3, <1>6, <1>7, <1>8, EndsStep DEF c

\* The approval rests on the code that was shown and the bound identity.
LEMMA ApproveStep ==
    ASSUME LoginInv, NEW b \in Tabs, tabs[b] # None, NEW t \in readings(tabs[b]),
           NEW typed \in TypedCodes, NEW dec \in BOOLEAN,
           handleApprove(b, typed, dec, t)
    PROVE  LoginInv'
<1> DEFINE c == tabs[b].sess
           a == approve(c, typed, dec, t, Draw).sess
           d == IF c.csrfToken = Draw THEN a ELSE c
           fresh == d.state = "approved" /\ c.state # "approved"
           g == [hint |-> c.hint, identity |-> c.identity,
                 typed |-> typed, code |-> c.userCode]
<1>1. /\ c \in SessionRec /\ Own(c) /\ t \in Nat
      /\ grants \subseteq Grant /\ \A x \in grants : Right(x)
    BY TabFacts
<1>2. ends(b) /\ client' = client
    BY DEF handleApprove, ends
<1>3. sess' \in {d, sess} /\ grants' = IF fresh THEN grants \cup {g} ELSE grants
    BY DEF handleApprove, Update
<1>4. d = c \/ ApproveKept(c, d, typed)
    <2>1. ApproveKept(c, a, typed)
        BY <1>1, ApproveKeeps DEF Draw
    <2> QED BY <2>1
<1> HIDE DEF a, c, d
<1>5. /\ d \in SessionRec /\ d.hint = c.hint /\ d.createdAt = c.createdAt
      /\ d.identity = c.identity
      /\ d.lastPollAt = c.lastPollAt /\ d.consumed = c.consumed
      /\ \/ d.state = c.state
         \/ d.state \in {"denied", "expired"}
         \/ /\ c.state = "awaiting_approval" /\ d.state = "approved"
            /\ codesEqual(typed, c.userCode)
    BY <1>1, <1>4 DEF ApproveKept, SameLogin, GivenUp
<1>6. /\ grants' \subseteq Grant /\ grants \subseteq grants'
      /\ \A x \in grants' : Right(x)
      /\ Belongs(d, client.hint, grants')
    <2>1. CASE ~fresh
        <3>1. grants' = grants /\ (d.state = "approved" => c.state = "approved")
            BY <1>3, <2>1
        <3> QED BY <1>1, <1>2, <1>5, <3>1 DEF Own, Belongs
    <2>2. CASE fresh
        <3>1. /\ c.state = "awaiting_approval" /\ d.state = "approved"
              /\ codesEqual(typed, c.userCode)
            BY <1>5, <2>2
        <3>2. /\ c.identity \in Names /\ c.hint = client.hint
              /\ normalize[c.identity] = normalize[c.hint]
            BY <1>1, <3>1 DEF Own, Belongs
        <3>3. /\ g \in Grant
              /\ g.hint = c.hint /\ g.identity = c.identity
              /\ g.typed = typed /\ g.code = c.userCode
            BY <1>1, <3>2 DEF Grant, SessionRec
        <3>4. grants' = grants \cup {g}
            BY <1>3, <2>2
        <3> HIDE DEF g
        <3>5. Right(g)
            BY <3>1, <3>2, <3>3 DEF Right
        <3>6. \E x \in grants' : x.identity = d.identity
            BY <1>5, <3>3, <3>4
        <3>7. Belongs(d, client.hint, grants')
            BY <1>5, <3>2, <3>6 DEF Belongs
        <3> QED BY <1>1, <3>3, <3>4, <3>5, <3>7
    <2> QED BY <2>1, <2>2
<1>7. QED BY <1>2, <1>3, <1>5, <1>6, EndsStep DEF c

\* The browser's requests end.
LEMMA BrowserStep ==
    ASSUME LoginInv, NEW b \in Tabs, browserStep(b)
    PROVE  LoginInv'
BY VerifyStep, IdPStep, ApproveStep DEF browserStep

\* The broker gets the start request, even if its client has given up.
LEMMA HandleStartStep ==
    ASSUME LoginInv, handleStart
    PROVE  LoginInv'
<1>1. /\ sent("broker") /\ net.op = "start"
      /\ client' = client /\ now' = now /\ grants' = grants /\ slowed' = slowed
      /\ crashed' = crashed /\ pollCopy' = pollCopy /\ tabs' = tabs
    BY DEF handleStart, history
<1>2. asks("start")
    <2>1. net # None /\ net.to = "broker"
        BY <1>1 DEF sent
    <2> QED BY <1>1, <2>1, InvTypes, MessageFacts DEF asks
<1>3. client.phase \in {"starting", "refused"} /\ net # None
    BY <1>1, <1>2 DEF LoginInv, Exchange, Calling, sent
<1>4. /\ held = {} /\ grants = {} /\ slowed = 0 /\ sess = None
      /\ client.hint \in Hints /\ client.verifier \in Verifiers
    BY <1>2, HeldTypes DEF LoginInv, Unstarted
<1>5. client.phase = "refused" => client.outcome = "fault"
    BY <1>3 DEF LoginInv, Exchange, Calling
<1>6. now \in Nat /\ (client.phase = "starting" => now <= HTTPTimeout)
    BY InvTypes DEF LoginInv, Timers
<1>7. \/ sess' = None
      \/ /\ sess' \in SessionRec /\ sess'.hint = client.hint /\ sess'.createdAt = now
         /\ sess'.state = "pending" /\ sess'.lastPollAt = Never /\ ~sess'.consumed
    <2>1. ASSUME NEW code \in UserCodes,
                 sess' = newSession(client.hint, S256(client.verifier), code, now)
          PROVE  /\ sess' \in SessionRec /\ sess'.hint = client.hint
                 /\ sess'.createdAt = now
                 /\ sess'.state = "pending" /\ sess'.lastPollAt = Never /\ ~sess'.consumed
        <3>1. client.hint \in Names
            BY <1>4, ClientAssumption
        <3>2. sess' \in SessionRec
            BY <1>4, <1>6, <2>1, <3>1, NewType
        <3> QED BY <2>1, <3>2 DEF newSession
    <2> QED BY <1>4, <2>1 DEF handleStart
<1>8. \/ net' = None /\ client.phase = "refused"
      \/ /\ client.phase = "starting"
         /\ net' \in Responses /\ net'.status = ""
         /\ net'.ok => net'.interval = wireInterval
    <2>1. "" \in Statuses
        BY DEF Statuses
    <2>2. CASE client.phase = "starting"
        <3>1. \/ net' = Response(TRUE, "", wireInterval, None)
              \/ net' = Response(FALSE, "", 0, None)
            BY <2>2 DEF handleStart, answer, Calling
        <3>2. CASE net' = Response(TRUE, "", wireInterval, None)
            BY <2>1, <2>2, <3>2, WireInterval DEF Response, Responses
        <3>3. CASE net' = Response(FALSE, "", 0, None)
            BY <2>1, <2>2, <3>3 DEF Response, Responses
        <3> QED BY <3>1, <3>2, <3>3
    <2>3. CASE client.phase = "refused"
        BY <2>3 DEF handleStart, answer, Calling
    <2> QED BY <1>3, <2>2, <2>3
<1>9. ~asks("start")' /\ ~asks("poll")' /\ net' \in Message \cup {None}
    BY <1>8, MessageFacts DEF asks
<1>10. TypeInv'
    BY <1>1, <1>7, <1>9 DEF LoginInv, TypeInv
<1>11. Exchange'
    BY <1>1, <1>3, <1>5, <1>8, <1>9 DEF LoginInv, Exchange, answered, Calling
<1>12. Timers'
    BY <1>1 DEF LoginInv, Timers
<1>13. Unstarted'
    BY <1>1, <1>3, <1>4, <1>9 DEF Unstarted
<1>14. \A s \in held' : s = sess' /\ s # None
    <2>1. \/ pollCopy' \in {None, pollCopy}
          \/ sess # None /\ pollCopy'.sess = sess
        BY <1>1
    <2>2. \A x \in Tabs : tabs'[x] \in {None, tabs[x]}
                          \/ (sess # None /\ tabs'[x].sess = sess)
        BY <1>1
    <2>3. \A s \in held' : s \in held \/ s = sess'
        BY <2>1, <2>2, HeldStep DEF LoginInv
    <2>4. \A s \in held' : s # None
        BY NoneAssumption DEF held
    <2> QED BY <1>4, <2>3, <2>4
<1>15. OneUser'
    <2>1. \A s \in held' : Own(s)'
        BY <1>1, <1>7, <1>14 DEF Own, Belongs
    <2>2. ~(sent("client")' /\ net'.status = "approved")
        BY <1>8 DEF sent
    <2> QED BY <1>1, <1>3, <1>4, <2>1, <2>2 DEF OneUser, LetIn
<1>16. Paced'
    BY <1>1, <1>3, <1>9 DEF LoginInv, Paced, answered, slowing
<1>17. Spaced'
    <2> SUFFICES ASSUME NEW s \in held' PROVE Timely(s)'
        BY DEF Spaced
    <2>1. s.createdAt = now /\ s.lastPollAt = Never
        BY <1>7, <1>14
    <2> QED BY <1>1, <1>3, <1>6, <1>9, <2>1 DEF Timely
<1>18. SpentWell' /\ Polled'
    <2>1. ~spent'
        BY <1>7, <1>14 DEF spent
    <2>2. pollCopy' = None
        BY <1>1, <1>2, MessageFacts, NoPoll DEF asks
    <2> QED BY <2>1, <2>2 DEF SpentWell, Polled
<1>19. QED
    BY <1>10, <1>11, <1>12, <1>13, <1>15, <1>16, <1>17, <1>18 DEF LoginInv

\* An answer to a poll, if its client still waits for one.
LEMMA PollAnswer ==
    ASSUME LoginInv, asks("poll"), NEW ok \in BOOLEAN, NEW status \in PollStatuses,
           NEW id \in Names \cup {None}, answer(Response(ok, status, 0, id))
    PROVE  /\ client.phase \in {"asking", "refused"}
           /\ client.phase = "refused" <=> client.outcome = "fault"
           /\ ~asks("start") /\ ~sent("client")
           /\ \/ net' = None /\ client.phase = "refused"
              \/ /\ client.phase = "asking" /\ net' \in Responses
                 /\ net'.status = status /\ net'.identity = id /\ net'.ok = ok
           /\ ~asks("start")' /\ ~asks("poll")' /\ net' \in Message \cup {None}
<1>1. ~asks("start") /\ net # None /\ ~sent("client")
    BY MessageFacts DEF asks, sent
<1>2. /\ client.phase \in {"asking", "refused"}
      /\ client.phase = "refused" <=> client.outcome = "fault"
    BY <1>1 DEF LoginInv, Exchange, Calling
<1>3. \/ net' = None /\ client.phase = "refused"
      \/ /\ client.phase = "asking" /\ net' \in Responses
         /\ net'.status = status /\ net'.identity = id /\ net'.ok = ok
    <2>1. CASE client.phase = "asking"
        <3>1. net' = Response(ok, status, 0, id)
            BY <2>1 DEF answer, Calling
        <3>2. status \in Statuses
            BY DEF PollStatuses, Statuses
        <3> QED BY <2>1, <3>1, <3>2 DEF Response, Responses
    <2>2. CASE client.phase = "refused"
        BY <2>2 DEF answer, Calling
    <2> QED BY <1>2, <2>1, <2>2
<1>4. ~asks("start")' /\ ~asks("poll")' /\ net' \in Message \cup {None}
    BY <1>3, MessageFacts DEF asks
<1>5. QED BY <1>1, <1>2, <1>3, <1>4

\* A poll is answered; what is held then has been polled in time.
LEMMA PollEnds ==
    ASSUME LoginInv, asks("poll"), NEW ok \in BOOLEAN, NEW status \in PollStatuses,
           NEW id \in Names \cup {None}, answer(Response(ok, status, 0, id)),
           status = "approved" => ok /\ granted(id),
           client' = client, now' = now, grants' = grants, crashed' = crashed,
           tabs' = tabs, pollCopy' = None, sess' \in SessionRec \cup {None},
           slowed' = IF status = "slow_down" THEN slowed + 1 ELSE slowed,
           status = "slow_down" => slowed < MaxSlowed,
           \A s \in held' : Own(s),
           \A s \in held' : s.consumed => spent \/ status = "approved",
           \A s \in held' :
              /\ s.createdAt <= HTTPTimeout
              /\ s.lastPollAt # Never /\ status \in {"pending", "slow_down"} =>
                   s.lastPollAt <= now /\ s.lastPollAt <= ExpiresAt(s)
    PROVE  LoginInv'
<1>1. /\ client.phase \in {"asking", "refused"}
      /\ client.phase = "refused" <=> client.outcome = "fault"
      /\ ~asks("start") /\ ~sent("client")
      /\ \/ net' = None /\ client.phase = "refused"
         \/ /\ client.phase = "asking" /\ net' \in Responses
            /\ net'.status = status /\ net'.identity = id /\ net'.ok = ok
      /\ ~asks("start")' /\ ~asks("poll")' /\ net' \in Message \cup {None}
    BY PollAnswer
<1>2. slowed \in 0..2 /\ slowed' \in 0..2
    BY InvTypes DEF MaxSlowed
<1>3. TypeInv'
    BY <1>1, <1>2 DEF LoginInv, TypeInv, MaxSlowed
<1>4. Exchange'
    BY <1>1 DEF LoginInv, Exchange, answered, Calling
<1>5. Timers'
    BY DEF LoginInv, Timers
<1>6. Unstarted'
    BY <1>1 DEF Unstarted
<1>7. OneUser'
    <2>1. \A g \in grants' : Right(g)'
        BY DEF LoginInv, OneUser, Right
    <2>2. \A s \in held' : Own(s)'
        BY DEF Own
    <2>3. sent("client")' /\ net'.status = "approved" => granted(net.identity)'
        BY <1>1 DEF granted, sent
    <2> QED BY <1>1, <2>1, <2>2, <2>3 DEF OneUser, LetIn
<1>8. Paced'
    <2>1. client.interval = Stage(slowed) /\ client.interval <= twiceSlowed
        BY DEF LoginInv, Paced
    <2>2. status = "slow_down" => slowed' > 0 /\ slowed' - 1 = slowed
        BY <1>2
    <2>3. status # "slow_down" => slowed' = slowed
        OBVIOUS
    <2>4. client'.phase \notin {"prompting", "waiting"}
        BY <1>1
    <2>5. answered("asking")' => net'.status = status
        BY <1>1 DEF answered, sent
    <2> QED BY <1>1, <2>1, <2>2, <2>3, <2>4, <2>5 DEF Paced, slowing, Stage
<1>9. Spaced'
    <2>1. polling' => status \in {"pending", "slow_down"}
        BY <1>1 DEF polling, answered, sent
    <2> SUFFICES ASSUME NEW s \in held' PROVE Timely(s)'
        BY DEF Spaced
    <2> QED BY <1>1, <2>1 DEF Timely
<1>10. SpentWell'
    <2> SUFFICES ASSUME spent', client.phase = "asking"
                 PROVE  sent("client")' /\ net'.status = "approved"
        BY <1>1 DEF SpentWell
    <2>1. ~spent
        BY <1>1 DEF LoginInv, SpentWell, LetIn
    <2>2. status = "approved"
        BY <2>1 DEF spent
    <2> QED BY <1>1, <2>2, MessageFacts DEF sent
<1>11. Polled'
    BY DEF Polled
<1>12. QED
    BY <1>3, <1>4, <1>5, <1>6, <1>7, <1>8, <1>9, <1>10, <1>11 DEF LoginInv

\* What is held while a poll is under way.
LEMMA PollFacts ==
    ASSUME LoginInv, asks("poll"), NEW s \in held
    PROVE  /\ Own(s) /\ s \in SessionRec
           /\ s.createdAt <= HTTPTimeout
           /\ s.lastPollAt # Never =>
                s.lastPollAt <= now /\ s.lastPollAt <= ExpiresAt(s)
BY HeldTypes DEF LoginInv, OneUser, Spaced, Timely, polling

\* The broker gets a poll, even if its client has given up.
LEMMA PollReadsStep ==
    ASSUME LoginInv, pollReads
    PROVE  LoginInv'
<1>1. /\ sent("broker") /\ net.op = "poll" /\ pollCopy = None
      /\ client' = client /\ sess' = sess /\ tabs' = tabs /\ now' = now
      /\ grants' = grants /\ slowed' = slowed /\ crashed' = crashed
    BY DEF pollReads, history
<1>2. asks("poll")
    <2>1. net # None /\ net.to = "broker"
        BY <1>1 DEF sent
    <2> QED BY <1>1, <2>1, InvTypes, MessageFacts DEF asks
<1>3. TypeInv /\ (sess # None => sess \in held /\ sess \in SessionRec)
    BY HeldTypes DEF LoginInv
<1>4. CASE sess = None
    <2>1. pollCopy' = None /\ answer(Response(TRUE, "expired", 0, None))
        BY <1>1, <1>4 DEF pollReads
    <2>2. held' = held
        BY <1>1, <2>1 DEF held
    <2>3. sess' \in SessionRec \cup {None} /\ "expired" \in PollStatuses
        BY <1>1, <1>4 DEF PollStatuses
    <2>4. \A s \in held' :
            /\ Own(s) /\ s.createdAt <= HTTPTimeout
            /\ s.consumed => spent
            /\ s.lastPollAt # Never =>
                 s.lastPollAt <= now /\ s.lastPollAt <= ExpiresAt(s)
        BY <1>2, <2>2, PollFacts DEF spent
    <2>5. slowed' = IF "expired" = "slow_down" THEN slowed + 1 ELSE slowed
        BY <1>1
    <2> QED BY <1>1, <1>2, <2>1, <2>3, <2>4, <2>5, PollEnds
<1>5. CASE sess # None
    <2> DEFINE cp == [sess |-> sess, at |-> now]
    <2>1. pollCopy' = cp /\ net' = net
        BY <1>5 DEF pollReads
    <2>2. cp \in PollCopy /\ cp.sess = sess /\ cp.at = now /\ now \in Nat /\ now <= now
        BY <1>3, <1>5, InvTypes DEF PollCopy
    <2> HIDE DEF cp
    <2>3. held' = held
        BY <1>1, <1>3, <1>5, <2>1, <2>2 DEF held
    <2>4. /\ asks("start")' = asks("start") /\ asks("poll")' = asks("poll")
          /\ sent("client")' = sent("client") /\ sent("broker")' = sent("broker")
        BY <2>1 DEF asks, sent
    <2>5. TypeInv'
        BY <1>1, <1>3, <2>1, <2>2 DEF TypeInv
    <2>6. Exchange' /\ Timers' /\ Unstarted'
        BY <1>1, <2>1, <2>3, <2>4 DEF LoginInv, Exchange, Timers, Unstarted, answered
    <2>7. OneUser' /\ SpentWell'
        BY <1>1, <2>1, <2>3, <2>4
           DEF LoginInv, OneUser, Own, granted, Right, SpentWell, spent
    <2>8. Paced'
        BY <1>1, <2>1, <2>4 DEF LoginInv, Paced, Stage, slowing, answered
    <2>9. Spaced'
        BY <1>1, <2>1, <2>3, <2>4 DEF LoginInv, Spaced, Timely, polling, answered
    <2>10. Polled'
        <3>1. sess.lastPollAt # Never => now = Horizon \/ now - sess.lastPollAt >= client.interval
            BY <1>2, <1>3, <1>5 DEF LoginInv, Spaced, Timely
        <3> QED BY <1>1, <1>2, <2>1, <2>2, <2>4, <3>1 DEF Polled
    <2> QED BY <2>5, <2>6, <2>7, <2>8, <2>9, <2>10 DEF LoginInv
<1>6. QED BY <1>4, <1>5

\* A client that was slowed twice does not poll too soon, even where the clock
\* has stopped.
LEMMA NoThirdSlowDown ==
    ASSUME LoginInv, pollCopy # None, NEW t \in pollCopy.at..now,
           pollCopy.sess.lastPollAt # Never,
           t - pollCopy.sess.lastPollAt < PollInterval
    PROVE  slowed < MaxSlowed
<1> DEFINE lp == pollCopy.sess.lastPollAt
           at == pollCopy.at
<1> SUFFICES ASSUME slowed = 2 PROVE FALSE
    BY InvTypes DEF MaxSlowed
<1>1. asks("poll") /\ pollCopy.sess \in held /\ pollCopy.sess \in SessionRec /\ at \in Nat
    BY HeldTypes DEF LoginInv, Polled
<1>2. client.interval = twiceSlowed
    BY <1>1 DEF LoginInv, Paced, Stage
<1>3. /\ now \in Nat /\ now <= Horizon /\ lp \in Nat /\ pollCopy.sess.createdAt \in Nat
      /\ twiceSlowed \in Nat /\ PollInterval \in Nat /\ PollInterval <= twiceSlowed
      /\ SessionTTL \in Nat /\ HTTPTimeout \in Nat
    BY <1>1, InvTypes, Stages, DurationsAssumption, ClientAssumption DEF SessionRec
<1>4. /\ pollCopy.sess.createdAt <= HTTPTimeout
      /\ lp <= ExpiresAt(pollCopy.sess)
      /\ at = Horizon \/ at - lp >= twiceSlowed
    BY <1>1, <1>2, PollFacts DEF LoginInv, Polled
<1>5. lp <= HTTPTimeout + SessionTTL
    BY <1>3, <1>4 DEF ExpiresAt
<1>6. t - lp < PollInterval
    OBVIOUS
<1>7. Horizon \in Nat /\ Horizon = HTTPTimeout + 2 * SessionTTL + 1
    BY <1>3 DEF Horizon
<1>8. 2 * HTTPTimeout + twiceSlowed <= SessionTTL
    BY GraceAssumption
<1> HIDE DEF lp, at
<1>9. t \in Nat /\ at <= t /\ t <= now
    BY <1>1, <1>3 DEF at
<1>10. CASE at = Horizon
    <2>1. t = Horizon
        BY <1>3, <1>7, <1>9, <1>10
    <2>2. t - lp >= SessionTTL + 1
        BY <1>3, <1>5, <1>7, <2>1
    <2>3. twiceSlowed <= SessionTTL
        BY <1>3, <1>8
    <2> QED BY <1>3, <1>6, <1>9, <2>2, <2>3
<1>11. CASE at - lp >= twiceSlowed
    BY <1>1, <1>3, <1>6, <1>9, <1>11 DEF at
<1>12. QED BY <1>4, <1>10, <1>11

\* The broker answers a poll and stores what it made of its copy, or loses it.
LEMMA HandlePollStep ==
    ASSUME LoginInv, pollCopy # None, NEW t \in pollCopy.at..now, handlePoll(t)
    PROVE  LoginInv'
<1> DEFINE c == pollCopy.sess
           res == poll(c, client.verifier, t)
           st == res.status
           d == res.sess
           id == IF st = "approved" THEN d.identity ELSE None
<1>1. /\ asks("poll") /\ c \in held /\ c \in SessionRec /\ pollCopy.at \in Nat
      /\ TypeInv
    BY HeldTypes DEF LoginInv, Polled
<1>2. /\ Own(c) /\ c.createdAt <= HTTPTimeout
      /\ c.lastPollAt # Never => c.lastPollAt <= now /\ c.lastPollAt <= ExpiresAt(c)
    BY <1>1, PollFacts
<1>3. t \in Nat /\ t <= now /\ now \in Nat
    BY <1>1, InvTypes
<1>4. PollKept(c, d, st, t)
    BY <1>1, <1>3, PollKeeps
<1>5. /\ client' = client /\ now' = now /\ grants' = grants /\ crashed' = crashed
      /\ tabs' = tabs /\ pollCopy' = None
      /\ sess' \in {None, d, sess}
      /\ answer(Response(st # "invalid_verifier", st, 0, id))
      /\ slowed' = IF st = "slow_down" /\ slowed <= MaxSlowed THEN slowed + 1 ELSE slowed
    BY DEF handlePoll, Update, Artifact
<1> HIDE DEF st, d, c
<1>6. /\ id \in Names \cup {None} /\ st \in PollStatuses /\ d \in SessionRec
      /\ (st # "invalid_verifier") \in BOOLEAN
    BY <1>4 DEF PollKept, SameLogin, SessionRec
<1>7. st = "approved" => c.state = "approved" /\ id = c.identity
    BY <1>4 DEF PollKept
<1> HIDE DEF id
<1>8. st = "slow_down" => slowed < MaxSlowed
    <2>1. st = "slow_down" => c.lastPollAt # Never /\ t - c.lastPollAt < PollInterval
        BY <1>4 DEF PollKept
    <2> QED BY <2>1, NoThirdSlowDown DEF c
<1>9. slowed' = IF st = "slow_down" THEN slowed + 1 ELSE slowed
    BY <1>5, <1>8, InvTypes DEF MaxSlowed
<1>10. st = "approved" => (st # "invalid_verifier") /\ granted(id)
    BY <1>2, <1>7 DEF Own, Belongs, granted
<1>11. sess' \in SessionRec \cup {None}
    BY <1>1, <1>5, <1>6 DEF TypeInv
<1>12. \A s \in held' : s \in held \/ s = d
    <2>1. \/ pollCopy' \in {None, pollCopy}
          \/ sess # None /\ pollCopy'.sess = sess
        BY <1>5
    <2>2. \A x \in Tabs : tabs'[x] \in {None, tabs[x]}
                          \/ (sess # None /\ tabs'[x].sess = sess)
        BY <1>5
    <2>3. \A s \in held' : s \in held \/ s = sess'
        BY <1>1, <2>1, <2>2, HeldStep
    <2>4. \A s \in held' : s # None
        BY NoneAssumption DEF held
    <2>5. sess # None => sess \in held
        BY <1>1, HeldTypes
    <2> QED BY <1>5, <2>3, <2>4, <2>5
<1>13. /\ Own(d)
       /\ d.consumed => spent \/ st = "approved"
       /\ d.createdAt <= HTTPTimeout
       /\ d.lastPollAt # Never /\ st \in {"pending", "slow_down"} =>
            d.lastPollAt <= now /\ d.lastPollAt <= ExpiresAt(d)
    <2>1. /\ d.hint = c.hint /\ d.createdAt = c.createdAt /\ d.identity = c.identity
          /\ d.state = c.state \/ d.state \in {"denied", "expired"}
          /\ st # "approved" => d.consumed = c.consumed
          /\ st = "pending" => t <= ExpiresAt(c) /\ d.lastPollAt = t
          /\ st = "slow_down" => d.lastPollAt = c.lastPollAt
        BY <1>4 DEF PollKept, SameLogin, GivenUp
    <2>2. Own(d)
        BY <1>2, <2>1 DEF Own, Belongs
    <2>3. ExpiresAt(d) = ExpiresAt(c)
        BY <2>1 DEF ExpiresAt
    <2> QED BY <1>1, <1>2, <1>3, <2>1, <2>2, <2>3 DEF spent
<1>14. \A s \in held' :
         /\ Own(s)
         /\ s.consumed => spent \/ st = "approved"
         /\ s.createdAt <= HTTPTimeout
         /\ s.lastPollAt # Never /\ st \in {"pending", "slow_down"} =>
              s.lastPollAt <= now /\ s.lastPollAt <= ExpiresAt(s)
    BY <1>1, <1>12, <1>13, PollFacts DEF spent
<1>15. QED
    BY <1>1, <1>5, <1>6, <1>8, <1>9, <1>10, <1>11, <1>14, PollEnds

\* A tick: the timers, and the clock while it runs.
LEMMA TickStep ==
    ASSUME LoginInv, Tick
    PROVE  LoginInv'
<1> DEFINE wt == IF client.phase = "waiting" THEN client.wait - 1 ELSE client.wait
           wd == IF client.phase \in Calling THEN client.waited + 1 ELSE client.waited
<1>1. /\ client.phase \notin {"idle"} \cup Ended /\ ~due
      /\ client' = [client EXCEPT !.wait = wt, !.waited = wd]
      /\ now' = IF now < Horizon THEN now + 1 ELSE now
      /\ net' = net /\ sess' = sess /\ grants' = grants /\ slowed' = slowed
      /\ crashed' = crashed /\ pollCopy' = pollCopy /\ tabs' = tabs
    BY DEF Tick, elapse, history, broker
<1>2. /\ client \in ClientState /\ now \in Nat /\ now <= Horizon
      /\ client.interval \in Nat /\ client.wait \in Nat /\ client.waited \in Nat
    BY InvTypes
<1>3. client.phase \in {"prompting", "waiting"} \cup Calling
    BY <1>1, <1>2 DEF ClientState, Phases
<1>4. HTTPTimeout \in Nat /\ Horizon \in Nat /\ HTTPTimeout < Horizon
    BY ClientAssumption, DurationsAssumption DEF Horizon
<1>5. client.wait <= client.interval /\ client.waited <= HTTPTimeout
    BY DEF LoginInv, Timers
<1>6. /\ wt \in Nat /\ wt <= client.interval
      /\ client.phase = "waiting" => wt = client.wait - 1
    BY <1>1, <1>2, <1>5 DEF due
<1>7. /\ wd \in Nat /\ wd <= HTTPTimeout
      /\ client.phase = "starting" => wd = client.waited + 1 /\ client.waited < HTTPTimeout
    BY <1>1, <1>2, <1>4, <1>5 DEF due, Calling
<1> HIDE DEF wt, wd
<1>8. /\ client' \in ClientState /\ SameClient /\ client'.phase = client.phase
      /\ client'.interval = client.interval /\ client'.wait = wt /\ client'.waited = wd
      /\ client'.outcome = client.outcome /\ client'.identity = client.identity
    BY <1>1, <1>2, <1>6, <1>7 DEF ClientState, SameClient
<1>9. /\ now' \in Nat /\ now <= now' /\ now' <= Horizon
      /\ now' = Horizon \/ now' = now + 1
      /\ now = Horizon => now' = Horizon
    BY <1>1, <1>2, <1>4
<1>10. /\ asks("start")' = asks("start") /\ asks("poll")' = asks("poll")
       /\ sent("client")' = sent("client") /\ sent("broker")' = sent("broker")
    BY <1>1 DEF asks, sent
<1>11. held' = held /\ (spent' <=> spent)
    <2>1. held' = held
        BY <1>1 DEF held
    <2> QED BY <2>1 DEF spent
<1>12. TypeInv'
    BY <1>1, <1>4, <1>8, <1>9 DEF LoginInv, TypeInv, Horizon
<1>13. Exchange'
    BY <1>1, <1>8, <1>10 DEF LoginInv, Exchange, answered
<1>14. Timers'
    <2>1. client.phase = "starting" => wd = now'
        <3> SUFFICES ASSUME client.phase = "starting" PROVE wd = now'
            OBVIOUS
        <3>1. client.waited = now
            BY DEF LoginInv, Timers
        <3> QED BY <1>1, <1>2, <1>4, <1>7, <3>1
    <2> QED BY <1>1, <1>6, <1>7, <1>8, <2>1 DEF LoginInv, Timers
<1>15. Unstarted'
    BY <1>1, <1>8, <1>10, <1>11 DEF LoginInv, Unstarted, SameClient
<1>16. OneUser'
    BY <1>1, <1>8, <1>10, <1>11
       DEF LoginInv, OneUser, Own, granted, Right, SameClient
<1>17. Paced'
    BY <1>1, <1>8, <1>10 DEF LoginInv, Paced, answered, slowing, Stage
<1>18. Spaced'
    <2> SUFFICES ASSUME NEW s \in held PROVE Timely(s)'
        BY <1>11 DEF Spaced
    <2>0. s.lastPollAt \in Nat \cup {Never} /\ Timely(s)
        BY HeldTypes DEF LoginInv, Spaced, SessionRec
    <2>1. polling' = polling
        BY <1>1, <1>8, <1>10 DEF polling, answered
    <2>2. s.lastPollAt # Never /\ polling =>
             s.lastPollAt <= now' /\ s.lastPollAt <= ExpiresAt(s)
        <3> SUFFICES ASSUME s.lastPollAt # Never, polling
                     PROVE  s.lastPollAt <= now' /\ s.lastPollAt <= ExpiresAt(s)
            OBVIOUS
        <3>1. s.lastPollAt \in Nat
            BY <2>0
        <3>2. s.lastPollAt <= now /\ s.lastPollAt <= ExpiresAt(s)
            BY <2>0 DEF Timely
        <3> QED BY <1>2, <1>9, <3>1, <3>2
    <2>3. s.lastPollAt # Never /\ client.phase = "waiting" =>
             now' = Horizon \/ now' - s.lastPollAt >= client.interval - wt
        <3> SUFFICES ASSUME s.lastPollAt # Never, client.phase = "waiting"
                     PROVE  now' = Horizon \/ now' - s.lastPollAt >= client.interval - wt
            OBVIOUS
        <3>1. s.lastPollAt \in Nat
            BY <2>0
        <3>2. now = Horizon \/ now - s.lastPollAt >= client.interval - client.wait
            BY <2>0 DEF Timely
        <3> QED BY <1>2, <1>6, <1>9, <3>1, <3>2
    <2>4. s.lastPollAt # Never /\ asks("poll") =>
             now' = Horizon \/ now' - s.lastPollAt >= client.interval
        <3> SUFFICES ASSUME s.lastPollAt # Never, asks("poll")
                     PROVE  now' = Horizon \/ now' - s.lastPollAt >= client.interval
            OBVIOUS
        <3>1. s.lastPollAt \in Nat
            BY <2>0
        <3>2. now = Horizon \/ now - s.lastPollAt >= client.interval
            BY <2>0 DEF Timely
        <3> QED BY <1>2, <1>9, <3>1, <3>2
    <2>5. /\ client.phase \in {"starting", "prompting", "waiting", "asking"} \/ asks("poll") =>
             s.createdAt <= HTTPTimeout
          /\ client.phase \in {"starting", "prompting"} => s.lastPollAt = Never
        BY <2>0 DEF Timely
    <2> QED BY <1>1, <1>8, <1>10, <2>1, <2>2, <2>3, <2>4, <2>5 DEF Timely
<1>19. SpentWell'
    BY <1>1, <1>8, <1>10, <1>11 DEF LoginInv, SpentWell
<1>20. Polled'
    <2> SUFFICES ASSUME pollCopy # None PROVE Polled'
        BY <1>1 DEF Polled
    <2>1. pollCopy.at \in Nat /\ pollCopy.at <= now
        BY HeldTypes DEF LoginInv, Polled
    <2>2. pollCopy.at <= now'
        BY <1>2, <1>9, <2>1
    <2> QED BY <1>1, <1>8, <1>10, <2>2 DEF LoginInv, Polled
<1>21. QED
    BY <1>20, <1>12, <1>13, <1>14, <1>15, <1>16, <1>17, <1>18, <1>19 DEF LoginInv

-----------------------------------------------------------------------------
(* The theorems.                                                           *)

\* Before anybody has started a login there is nothing.
LEMMA LoginInit == Init => LoginInv
<1> SUFFICES ASSUME Init PROVE LoginInv
    OBVIOUS
<1>1. /\ net = None /\ sess = None /\ now = 0
      /\ pollCopy = None /\ tabs = [b \in Tabs |-> None]
      /\ grants = {} /\ slowed = 0 /\ crashed = FALSE
    BY DEF Init
<1>1a. held = {} /\ ~spent
    BY <1>1, NoneAssumption DEF held, spent
<1>2. /\ client \in ClientState /\ client.phase = "idle" /\ client.outcome = ""
      /\ client.interval = 0 /\ client.wait = 0 /\ client.waited = 0
    BY DEF Init, NewClient, ClientState, Phases, Statuses
<1>3. ~asks("start") /\ ~asks("poll") /\ ~sent("client")
    BY <1>1, MessageFacts DEF asks, sent
<1>4. TypeInv
    <2>1. Horizon \in Nat
        BY ClientAssumption, DurationsAssumption DEF Horizon
    <2>2. now \in 0..Horizon /\ slowed \in 0..MaxSlowed
        BY <1>1, <2>1 DEF MaxSlowed
    <2>3. crashed \in BOOLEAN
        BY <1>1
    <2> QED BY <1>1, <1>2, <2>2, <2>3 DEF TypeInv
<1>5. Exchange /\ Unstarted /\ Spaced /\ Polled /\ SpentWell
    BY <1>1a, <1>1, <1>2, <1>3
       DEF Exchange, Unstarted, Spaced, Polled, SpentWell, answered
<1>6. Timers
    <2>1. 0 <= HTTPTimeout /\ 0 <= 0
        BY ClientAssumption
    <2> QED BY <1>1, <1>2, <2>1 DEF Timers
<1>7. OneUser
    BY <1>1a, <1>1, <1>2, <1>3 DEF OneUser, LetIn
<1>8. Paced
    <2>1. 0 <= twiceSlowed
        BY Stages
    <2> QED BY <1>2, <1>3, <2>1 DEF Paced, answered, slowing
<1>9. QED BY <1>4, <1>5, <1>6, <1>7, <1>8 DEF LoginInv

\* Every step keeps the invariant.
LEMMA LoginStep == LoginInv /\ [Next]_loginVars => LoginInv'
<1> SUFFICES ASSUME LoginInv, [Next]_loginVars PROVE LoginInv'
    OBVIOUS
<1>1. CASE clientStep
    BY <1>1, ClientKeeps
<1>2. CASE handleStart
    BY <1>2, HandleStartStep
<1>3. CASE pollReads
    BY <1>3, PollReadsStep
<1>4. CASE pollStep
    BY <1>4, HandlePollStep DEF pollStep
<1>5. CASE \E b \in Tabs : tabReads(b) \/ browserStep(b)
    BY <1>5, TabReadsStep, BrowserStep
<1>6. CASE Sweep \/ Crash
    BY <1>6, SweepStep, CrashStep
<1>7. CASE Tick
    BY <1>7, TickStep
<1>8. CASE UNCHANGED loginVars
    <2>1. /\ client' = client /\ net' = net /\ sess' = sess /\ now' = now
          /\ pollCopy' = pollCopy /\ tabs' = tabs
          /\ grants' = grants /\ slowed' = slowed /\ crashed' = crashed
        BY <1>8 DEF loginVars
    <2>2. tabs' \in [Tabs -> TabCopy \cup {None}]
        BY <2>1 DEF LoginInv, TypeInv
    <2> QED BY <2>1, <2>2, QuietStep
<1>9. QED BY <1>1, <1>2, <1>3, <1>4, <1>5, <1>6, <1>7, <1>8 DEF Next

\* The inductive invariant holds in every reachable state.
THEOREM LoginHolds == Spec => []LoginInv
BY LoginInit, LoginStep, PTL DEF Spec

\* The types, and the client's timers within their bounds: the poll interval
\* never exceeds what two slow_down answers make of it (Poll).
THEOREM LoginTypeCorrect == Spec => []LoginTypeOK
<1>1. LoginInv => LoginTypeOK
    BY DEF LoginInv, TypeInv, Timers, Paced, LoginTypeOK, MaxSlowed
<1>2. QED BY <1>1, LoginHolds, PTL

\* Whatever the programs, names, codes and timings, nobody is let in but by an
\* approval of this very login by the user it was started for, and under the
\* identity that was approved (handlePoll, Poll and the programs).
THEOREM LoginNeedsApproval == Spec => []LoginMeansApproval
<1>1. LoginInv => LoginMeansApproval
    BY DEF LoginInv, OneUser, granted, Right, LoginMeansApproval
<1>2. QED BY <1>1, LoginHolds, PTL

\* A client that obeys slow_down is slowed at most twice, for every interval
\* and every way of cutting it to seconds (handleStart, poll, Poll).
THEOREM SlowDownsAreBounded == Spec => []SlowDownsBounded
<1>1. LoginInv => SlowDownsBounded
    BY DEF LoginInv, TypeInv, SlowDownsBounded, MaxSlowed
<1>2. QED BY <1>1, LoginHolds, PTL

\* No session is used up but by the client it lets in or by a lost message
\* (handlePoll, Poll).
THEOREM ArtifactIsNotWasted == Spec => []ArtifactNotWasted
<1>1. LoginInv => ArtifactNotWasted
    BY HeldTypes DEF LoginInv, SpentWell, spent, ArtifactNotWasted
<1>2. QED BY <1>1, LoginHolds, PTL
=============================================================================
