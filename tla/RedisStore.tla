----------------------------- MODULE RedisStore -----------------------------
(***************************************************************************)
(* The Redis session store of internal/store/redis.go, shared by broker    *)
(* replicas.  A worker is a handler in some replica; each command to Redis *)
(* is a step, as is the reading of the clock that turns a session's grace  *)
(* deadline into the expiry of its key.  Redis expires keys by itself.     *)
(*                                                                         *)
(* Clocks are relative: a session has an age, which stops counting at the  *)
(* end of its grace, and a key the ticks it has left.  So no time bounds   *)
(* the model, and a worker may stall for as long as it likes.  What a      *)
(* session holds does not matter here; Broker is about that.               *)
(***************************************************************************)
EXTENDS Integers

CONSTANTS
    Ids,        \* session ids, random and so never reused
    Workers,
    SessionTTL,
    Minute,     \* the key expiry when the grace is over
    MaxCalls,   \* bound: handler runs
    None

ASSUME RedisAssumption ==
    /\ SessionTTL \in Nat \ {0}
    /\ Minute \in Nat \ {0}
    /\ MaxCalls \in Nat
    /\ None \notin Int
    /\ None \notin Ids

VARIABLES
    key,     \* id -> ticks until Redis drops the key, Absent or Persistent
    age,     \* id -> ticks since newSession, None before it
    calls,   \* worker -> the store call it is in
    ran,     \* how many handlers have run
    stored   \* history: the ids some SET has stored

rvars == <<key, age, calls, ran, stored>>

-----------------------------------------------------------------------------
Absent == 0
Persistent == -1
Grace == 2 * SessionTTL
Longest == IF Grace > Minute THEN Grace ELSE Minute

Idle == [at |-> "idle", id |-> None, ttl |-> 0]
Steps == {"create", "got", "exists", "set"}
Calls == {Idle} \cup [at : Steps, id : Ids, ttl : 0..Longest]

RedisTypeOK ==
    /\ key \in [Ids -> {Persistent} \cup 0..Longest]
    /\ age \in [Ids -> {None} \cup 0..Grace]
    /\ calls \in [Workers -> Calls]
    /\ ran \in 0..MaxCalls
    /\ stored \subseteq Ids

\* write: until ExpiresAt plus as much again, or a minute if that is past.
onlyToExpiry(a) == IF a < SessionTTL THEN SessionTTL - a ELSE Minute  \* mutant
doubleGrace(a) == IF a < Grace THEN 2 * Grace - a ELSE Minute    \* mutant
noFloor(a) == Grace - a                                               \* mutant
ttlAt(a) == IF a < Grace THEN Grace - a ELSE Minute

\* Redis SET with an expiry; go-redis sends none when it is not positive.
expiry(ttl) == IF ttl > 0 THEN ttl ELSE Persistent

run(w, at, id) ==
    /\ calls[w] = Idle
    /\ ran < MaxCalls
    /\ ran' = ran + 1
    /\ calls' = [calls EXCEPT ![w] = [at |-> at, id |-> id, ttl |-> 0]]

goOn(w, at) == calls' = [calls EXCEPT ![w].at = at]
return(w) == calls' = [calls EXCEPT ![w] = Idle]

\* handleStart: newSession, then Create, which does not look for the key.
Create(w, id) ==
    /\ age[id] = None
    /\ run(w, "create", id)
    /\ age' = [age EXCEPT ![id] = 0]
    /\ UNCHANGED <<key, stored>>

\* Any other handler that finds its session and will write it back.
Get(w, id) ==
    /\ key[id] # Absent
    /\ run(w, "got", id)
    /\ UNCHANGED <<key, age, stored>>

\* Update's first command: ErrNotFound when the key is gone.
skipsExists(w) ==                                              \* mutant
    calls[w].at = "got" /\ goOn(w, "exists") /\ UNCHANGED <<key, age, ran, stored>>
Exists(w) ==
    /\ calls[w].at = "got"
    /\ IF key[calls[w].id] # Absent THEN goOn(w, "exists") ELSE return(w)
    /\ UNCHANGED <<key, age, ran, stored>>

\* time.Until in write.
write(w) ==
    /\ calls[w].at \in {"create", "exists"}
    /\ calls' = [calls EXCEPT ![w].at = "set",
                              ![w].ttl = ttlAt(age[calls[w].id])]
    /\ UNCHANGED <<key, age, ran, stored>>

Set(w) ==
    /\ calls[w].at = "set"
    /\ key' = [key EXCEPT ![calls[w].id] = expiry(calls[w].ttl)]
    /\ stored' = stored \cup {calls[w].id}
    /\ return(w)
    /\ UNCHANGED <<age, ran>>

\* A command fails, the request is cancelled, the replica dies.
Fail(w) ==
    /\ calls[w] # Idle
    /\ return(w)
    /\ UNCHANGED <<key, age, ran, stored>>

Tick ==
    /\ \E id \in Ids : age[id] \in 0..(Grace - 1) \/ key[id] > 0
    /\ age' = [id \in Ids |-> IF age[id] = None \/ age[id] = Grace
                              THEN age[id] ELSE age[id] + 1]
    /\ key' = [id \in Ids |-> IF key[id] > 0 THEN key[id] - 1 ELSE key[id]]
    /\ UNCHANGED <<calls, ran, stored>>

Init ==
    /\ key = [id \in Ids |-> Absent]
    /\ age = [id \in Ids |-> None]
    /\ calls = [w \in Workers |-> Idle]
    /\ ran = 0
    /\ stored = {}

Next ==
    \/ \E w \in Workers, id \in Ids : Create(w, id) \/ Get(w, id)
    \/ \E w \in Workers : Exists(w) \/ write(w) \/ Set(w) \/ Fail(w)
    \/ Tick

Spec == Init /\ [][Next]_rvars

\* Time passes.  No worker has to go on: the one that hangs is the hard case.
FairSpec == Spec /\ WF_rvars(Tick)

-----------------------------------------------------------------------------
\* A session once stored can be read until its grace is over, whichever
\* replica wrote it last and however late the write reached Redis (write).
ReadableThroughGrace ==
    \A id \in stored : age[id] < Grace => key[id] # Absent

\* The key of a session that nobody asks for any more goes, although late
\* writers may have given it a minute more (write, the ttl <= 0 case).
EventuallyGone == \A id \in Ids : <>[](key[id] = Absent)

\* Nobody who has already looked for the key is about to write it.
Unwatched(id) == \A w \in Workers : calls[w].id = id => calls[w].at = "got"

\* EXISTS and SET are two commands, so a writer that had seen the key may bring
\* it back after it expired.  Nobody else can: once the key is gone and such
\* writers have ended, it is gone for good, whatever other handlers still hold a
\* copy of the session (Update).
GoneForGood ==
    \A id \in Ids :
        [](id \in stored /\ key[id] = Absent /\ Unwatched(id)
             => [](key[id] = Absent))
=============================================================================
