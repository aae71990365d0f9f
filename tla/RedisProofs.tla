---------------------------- MODULE RedisProofs ----------------------------
(***************************************************************************)
(* The Redis store for any number of sessions, replicas and handler runs,  *)
(* and every TTL.                                                          *)
(***************************************************************************)
EXTENDS RedisStore, TLAPS

\* A session that is written, stored or readable has been created.
Created ==
    /\ \A w \in Workers : calls[w] # Idle => age[calls[w].id] # None
    /\ \A id \in Ids : id \in stored \/ key[id] # Absent => age[id] # None

\* A stored key lasts to the end of the grace, and so does one about to be
\* written, however long the write takes.
LastsThroughGrace ==
    /\ \A id \in Ids : key[id] >= 0
    /\ \A id \in stored : age[id] + key[id] >= Grace
    /\ \A w \in Workers : calls[w].at = "set" =>
         calls[w].ttl > 0 /\ age[calls[w].id] + calls[w].ttl >= Grace

RedisInv == RedisTypeOK /\ Created /\ LastsThroughGrace

\* The least one needs of a call in progress.
LEMMA CallType ==
    ASSUME RedisTypeOK, NEW w \in Workers
    PROVE  /\ calls[w] \in Calls
           /\ calls[w] # Idle => /\ calls[w] \in [at : Steps, id : Ids, ttl : 0..Longest]
                                 /\ calls[w].id \in Ids
                                 /\ calls[w].ttl \in 0..Longest
           /\ calls[w].at # "idle" => calls[w] # Idle
BY DEF RedisTypeOK, Calls, Idle

\* Grace, the longest expiry and the expiry a write computes.
LEMMA Durations ==
    /\ Grace \in Nat \ {0}
    /\ Longest \in Nat
    /\ Grace <= Longest
    /\ Minute <= Longest
    /\ \A a \in 0..Grace : /\ ttlAt(a) \in 0..Longest
                           /\ ttlAt(a) > 0
                           /\ a + ttlAt(a) >= Grace
BY RedisAssumption DEF Grace, Longest, ttlAt

\* Nothing is stored at first.
LEMMA RedisInit == Init => RedisInv
BY RedisAssumption, Durations
DEF Init, RedisInv, RedisTypeOK, Created, LastsThroughGrace, Calls, Idle, Absent

\* Create and Get start a call.
LEMMA RunInv ==
    ASSUME RedisInv, NEW w \in Workers, NEW id \in Ids, Create(w, id) \/ Get(w, id)
    PROVE  RedisInv'
<1>1. PICK at \in {"create", "got"} : run(w, at, id)
    BY DEF Create, Get
<1> DEFINE c == [at |-> at, id |-> id, ttl |-> 0]
<1>2. /\ c \in Calls /\ c # Idle
      /\ c.id = id /\ c.at # "set"
    BY <1>1, Durations DEF Calls, Steps, Idle
<1> HIDE DEF c
<1>3. /\ calls' = [calls EXCEPT ![w] = c]
      /\ ran' = ran + 1 /\ ran < MaxCalls
    BY <1>1 DEF run, c
<1>4. key' = key /\ stored' = stored
    BY DEF Create, Get
<1>5. \/ age' = [age EXCEPT ![id] = 0] /\ age[id] = None
      \/ age' = age /\ age[id] # None
    BY DEF Create, Get, RedisInv, Created
<1>6. RedisTypeOK'
    <2>1. ran' \in 0..MaxCalls
        BY <1>3, RedisAssumption DEF RedisInv, RedisTypeOK
    <2>2. age' \in [Ids -> {None} \cup 0..Grace]
        BY <1>5, Durations DEF RedisInv, RedisTypeOK
    <2> QED BY <1>2, <1>3, <1>4, <2>1, <2>2 DEF RedisInv, RedisTypeOK
<1>7. \A x \in Ids : age[x] # None => age'[x] = age[x]
    BY <1>5 DEF RedisInv, RedisTypeOK
<1>8. age'[id] # None
    BY <1>5, RedisAssumption DEF RedisInv, RedisTypeOK
<1>9. \A v \in Workers : v # w => calls'[v] = calls[v]
    BY <1>3 DEF RedisInv, RedisTypeOK
<1>10. calls'[w] = c
    BY <1>3 DEF RedisInv, RedisTypeOK
<1>11. Created'
    BY <1>2, <1>4, <1>7, <1>8, <1>9, <1>10, CallType DEF RedisInv, Created
<1>12. LastsThroughGrace'
    <2>1. \A x \in stored : age'[x] = age[x]
        BY <1>7 DEF RedisInv, RedisTypeOK, Created
    <2>2. \A v \in Workers : v # w /\ calls[v].at = "set" =>
            age'[calls[v].id] = age[calls[v].id]
        BY <1>7, CallType DEF RedisInv, Created
    <2> QED
        BY <1>2, <1>4, <1>9, <1>10, <2>1, <2>2 DEF RedisInv, LastsThroughGrace
<1>13. QED
    BY <1>6, <1>11, <1>12 DEF RedisInv

\* A call that ends without writing.
LEMMA ReturnInv ==
    ASSUME RedisInv, NEW w \in Workers, return(w), UNCHANGED <<key, age, ran, stored>>
    PROVE  RedisInv'
<1>1. /\ \A v \in Workers : calls'[v] = calls[v] \/ calls'[v] = Idle
      /\ calls' \in [Workers -> Calls]
    BY DEF RedisInv, RedisTypeOK, return, Calls
<1>2. Idle.at # "set"
    BY DEF Idle
<1>3. RedisTypeOK'
    BY <1>1 DEF RedisInv, RedisTypeOK
<1>4. Created'
    BY <1>1 DEF RedisInv, Created
<1>5. LastsThroughGrace'
    BY <1>1, <1>2 DEF RedisInv, LastsThroughGrace
<1>6. QED BY <1>3, <1>4, <1>5 DEF RedisInv

\* EXISTS goes on or returns.
LEMMA ExistsInv ==
    ASSUME RedisInv, NEW w \in Workers, Exists(w)
    PROVE  RedisInv'
<1>1. CASE return(w)
    BY <1>1, ReturnInv DEF Exists
<1>2. CASE goOn(w, "exists")
    <2>1. calls[w] # Idle /\ calls[w] \in [at : Steps, id : Ids, ttl : 0..Longest]
        BY CallType DEF Exists, RedisInv
    <2>2. PICK c \in [at : Steps, id : Ids, ttl : 0..Longest] :
            /\ calls' = [calls EXCEPT ![w] = c]
            /\ c.at = "exists" /\ c.id = calls[w].id
        <3>1. calls' = [calls EXCEPT ![w] = [calls[w] EXCEPT !.at = "exists"]]
            BY <1>2 DEF goOn, RedisInv, RedisTypeOK
        <3>2. [calls[w] EXCEPT !.at = "exists"] \in [at : Steps, id : Ids, ttl : 0..Longest]
            BY <2>1 DEF Steps
        <3>3. /\ [calls[w] EXCEPT !.at = "exists"].at = "exists"
              /\ [calls[w] EXCEPT !.at = "exists"].id = calls[w].id
            BY <2>1
        <3> QED BY <3>1, <3>2, <3>3
    <2>3. UNCHANGED <<key, age, ran, stored>>
        BY DEF Exists
    <2>4. /\ \A v \in Workers : v # w => calls'[v] = calls[v]
          /\ calls'[w] = c
          /\ calls' \in [Workers -> Calls]
        BY <2>2 DEF RedisInv, RedisTypeOK, Calls
    <2>5. RedisTypeOK'
        BY <2>3, <2>4 DEF RedisInv, RedisTypeOK
    <2>6. Created'
        BY <2>1, <2>2, <2>3, <2>4 DEF RedisInv, Created
    <2>7. LastsThroughGrace'
        BY <2>2, <2>3, <2>4 DEF RedisInv, LastsThroughGrace
    <2> QED BY <2>5, <2>6, <2>7 DEF RedisInv
<1>3. QED BY <1>1, <1>2 DEF Exists

\* write computes an expiry that reaches the end of the grace.
LEMMA WriteInv ==
    ASSUME RedisInv, NEW w \in Workers, write(w)
    PROVE  RedisInv'
<1>1. calls[w] # Idle /\ calls[w] \in [at : Steps, id : Ids, ttl : 0..Longest]
    BY CallType DEF write, RedisInv
<1>2. PICK a \in 0..Grace : a = age[calls[w].id]
    BY <1>1 DEF RedisInv, RedisTypeOK, Created
<1>3. ttlAt(a) \in 0..Longest /\ ttlAt(a) > 0 /\ a + ttlAt(a) >= Grace
    BY Durations
<1>4. PICK c \in [at : Steps, id : Ids, ttl : 0..Longest] :
        /\ calls' = [calls EXCEPT ![w] = c]
        /\ c.at = "set" /\ c.id = calls[w].id /\ c.ttl = ttlAt(a)
    <2> DEFINE c == [calls[w] EXCEPT !.at = "set", !.ttl = ttlAt(a)]
    <2>1. calls' = [calls EXCEPT ![w] = c]
        BY <1>2 DEF write, RedisInv, RedisTypeOK
    <2>2. /\ c \in [at : Steps, id : Ids, ttl : 0..Longest]
          /\ c.at = "set" /\ c.id = calls[w].id /\ c.ttl = ttlAt(a)
        BY <1>1, <1>3 DEF Steps
    <2> QED BY <2>1, <2>2
<1>5. UNCHANGED <<key, age, ran, stored>>
    BY DEF write
<1>6. /\ \A v \in Workers : v # w => calls'[v] = calls[v]
      /\ calls'[w] = c
      /\ calls' \in [Workers -> Calls]
    BY <1>4 DEF RedisInv, RedisTypeOK, Calls
<1>7. RedisTypeOK'
    BY <1>5, <1>6 DEF RedisInv, RedisTypeOK
<1>8. Created'
    BY <1>1, <1>4, <1>5, <1>6 DEF RedisInv, Created
<1>9. LastsThroughGrace'
    BY <1>2, <1>3, <1>4, <1>5, <1>6 DEF RedisInv, LastsThroughGrace
<1>10. QED BY <1>7, <1>8, <1>9 DEF RedisInv

\* SET stores the key for that long.
LEMMA SetInv ==
    ASSUME RedisInv, NEW w \in Workers, Set(w)
    PROVE  RedisInv'
<1>1. calls[w] # Idle /\ calls[w].at = "set"
    BY CallType DEF Set, RedisInv
<1>2. PICK id \in Ids, t \in 0..Longest : id = calls[w].id /\ t = calls[w].ttl
    BY <1>1, CallType DEF RedisInv
<1>3. t > 0 /\ age[id] + t >= Grace /\ age[id] # None
    BY <1>1, <1>2 DEF RedisInv, LastsThroughGrace, Created
<1>4. /\ key' = [key EXCEPT ![id] = t]
      /\ stored' = stored \cup {id}
      /\ calls' = [calls EXCEPT ![w] = Idle]
      /\ UNCHANGED <<age, ran>>
    BY <1>2, <1>3 DEF Set, expiry, return
<1>5. /\ \A v \in Workers : calls'[v] = calls[v] \/ calls'[v] = Idle
      /\ calls' \in [Workers -> Calls]
    BY <1>4 DEF RedisInv, RedisTypeOK, Calls
<1>6. Idle.at # "set"
    BY DEF Idle
<1>7. RedisTypeOK'
    BY <1>4, <1>5 DEF RedisInv, RedisTypeOK
<1>8. /\ \A x \in Ids : x # id => key'[x] = key[x]
      /\ key'[id] = t
    BY <1>4 DEF RedisInv, RedisTypeOK
<1>9. Created'
    BY <1>3, <1>4, <1>5, <1>8 DEF RedisInv, Created
<1>10. LastsThroughGrace'
    <2>1. \A x \in Ids : key'[x] >= 0
        BY <1>8 DEF RedisInv, LastsThroughGrace
    <2>2. \A x \in stored' : age'[x] + key'[x] >= Grace
        BY <1>3, <1>4, <1>8 DEF RedisInv, RedisTypeOK, LastsThroughGrace
    <2>3. \A v \in Workers : calls'[v].at = "set" =>
            calls'[v].ttl > 0 /\ age'[calls'[v].id] + calls'[v].ttl >= Grace
        BY <1>4, <1>5, <1>6 DEF RedisInv, LastsThroughGrace
    <2> QED BY <2>1, <2>2, <2>3 DEF LastsThroughGrace
<1>11. QED BY <1>7, <1>9, <1>10 DEF RedisInv

\* Time takes from a key only what it adds to the session's age.
LEMMA TickInv == ASSUME RedisInv, Tick PROVE RedisInv'
<1>1. /\ \A id \in Ids : age'[id] = IF age[id] = None \/ age[id] = Grace
                                    THEN age[id] ELSE age[id] + 1
      /\ \A id \in Ids : key'[id] = IF key[id] > 0 THEN key[id] - 1 ELSE key[id]
      /\ DOMAIN age' = Ids /\ age' = [id \in Ids |-> age'[id]]
      /\ DOMAIN key' = Ids /\ key' = [id \in Ids |-> key'[id]]
      /\ UNCHANGED <<calls, ran, stored>>
    BY DEF Tick
<1>2. \A id \in Ids : /\ age[id] \in {None} \cup 0..Grace
                      /\ key[id] \in 0..Longest
    <2>1. \A id \in Ids : /\ age[id] \in {None} \cup 0..Grace
                          /\ key[id] \in {Persistent} \cup 0..Longest
                          /\ key[id] >= 0
        BY DEF RedisInv, RedisTypeOK, LastsThroughGrace
    <2>2. ASSUME NEW id \in Ids PROVE key[id] \in 0..Longest
        <3>1. key[id] # Persistent
            BY <2>1 DEF Persistent
        <3> QED BY <2>1, <3>1
    <2> QED BY <2>1, <2>2
<1>3. \A id \in Ids : /\ age'[id] \in {None} \cup 0..Grace
                      /\ key'[id] \in 0..Longest
                      /\ age[id] = None <=> age'[id] = None
    <2> SUFFICES ASSUME NEW id \in Ids
                 PROVE  /\ age'[id] \in {None} \cup 0..Grace
                        /\ key'[id] \in 0..Longest
                        /\ age[id] = None <=> age'[id] = None
        OBVIOUS
    <2>1. key'[id] \in 0..Longest
        BY <1>1, <1>2, Durations
    <2>2. CASE age[id] = None
        BY <1>1, <2>1, <2>2
    <2>3. CASE age[id] # None
        <3>1. age[id] \in 0..Grace
            BY <1>2, <2>3
        <3>2. age'[id] = IF age[id] = Grace THEN age[id] ELSE age[id] + 1
            BY <1>1, <2>3
        <3>3. age'[id] \in 0..Grace
            BY <3>1, <3>2, Durations
        <3> QED BY <2>1, <2>3, <3>3, RedisAssumption
    <2> QED BY <2>2, <2>3
<1>4. RedisTypeOK'
    BY <1>1, <1>3 DEF RedisInv, RedisTypeOK
<1>5. Created'
    <2>1. \A id \in Ids : key'[id] # Absent => key[id] # Absent
        BY <1>1, <1>2 DEF Absent
    <2> QED BY <1>1, <1>3, <2>1, CallType DEF RedisInv, Created
<1>6. LastsThroughGrace'
    <2>1. \A id \in stored : age'[id] + key'[id] >= Grace
        <3> SUFFICES ASSUME NEW id \in stored
                     PROVE  age'[id] + key'[id] >= Grace
            OBVIOUS
        <3>1. id \in Ids
            BY DEF RedisInv, RedisTypeOK
        <3>2. age[id] \in 0..Grace /\ key[id] \in 0..Longest
            BY <1>2, <3>1 DEF RedisInv, Created
        <3>3. age[id] + key[id] >= Grace
            BY DEF RedisInv, LastsThroughGrace
        <3> QED BY <1>1, <3>1, <3>2, <3>3, Durations, RedisAssumption
    <2>2. ASSUME NEW w \in Workers, calls'[w].at = "set"
          PROVE  calls'[w].ttl > 0 /\ age'[calls'[w].id] + calls'[w].ttl >= Grace
        <3>1. PICK id \in Ids, t \in 0..Longest :
                /\ id = calls[w].id /\ t = calls[w].ttl
                /\ calls[w] # Idle /\ calls[w].at = "set"
            BY <1>1, <2>2, CallType DEF RedisInv
        <3>2. age[id] \in 0..Grace
            BY <1>2, <3>1 DEF RedisInv, Created
        <3>3. age'[id] >= age[id] /\ age'[id] \in 0..Grace
            BY <1>1, <3>2, Durations, RedisAssumption
        <3>4. t > 0 /\ age[id] + t >= Grace
            BY <3>1 DEF RedisInv, LastsThroughGrace
        <3>5. age'[id] + t >= Grace
            BY <3>2, <3>3, <3>4, Durations
        <3> QED BY <1>1, <3>1, <3>4, <3>5
    <2> QED BY <1>1, <1>3, <2>1, <2>2 DEF LastsThroughGrace
<1>7. QED BY <1>4, <1>5, <1>6 DEF RedisInv

\* Every step keeps the invariant.
LEMMA RedisStep == ASSUME RedisInv, [Next]_rvars PROVE RedisInv'
<1>1. CASE UNCHANGED rvars
    BY <1>1 DEF rvars, RedisInv, RedisTypeOK, Created, LastsThroughGrace
<1>2. CASE Next
    BY <1>2, RunInv, ReturnInv, ExistsInv, WriteInv, SetInv, TickInv DEF Next, Fail
<1>3. QED BY <1>1, <1>2

\* Keys outlive the grace of their sessions.
THEOREM RedisHolds == Spec => []RedisInv
<1>1. Init => RedisInv
    BY RedisInit
<1>2. RedisInv /\ [Next]_rvars => RedisInv'
    BY RedisStep
<1>3. QED BY <1>1, <1>2, PTL DEF Spec

\* The store keeps its types.
THEOREM RedisTypeCorrect == Spec => []RedisTypeOK
<1>1. RedisInv => RedisTypeOK
    BY DEF RedisInv
<1>2. QED BY <1>1, RedisHolds, PTL

\* A stored session is readable until its grace is over, however many replicas
\* write it and however long they stall between their commands (write).
THEOREM StoredIsReadable == Spec => []ReadableThroughGrace
<1>1. RedisInv => ReadableThroughGrace
    <2> SUFFICES ASSUME RedisInv, NEW id \in stored, age[id] < Grace
                 PROVE  key[id] # Absent
        BY DEF ReadableThroughGrace
    <2>1. id \in Ids /\ age[id] \in 0..Grace
        BY DEF RedisInv, RedisTypeOK, Created
    <2>2. age[id] + key[id] >= Grace
        BY DEF RedisInv, LastsThroughGrace
    <2> QED BY <2>1, <2>2, Durations DEF Absent
<1>2. QED BY <1>1, RedisHolds, PTL

-----------------------------------------------------------------------------
(* A key that is gone.                                                     *)

Lost(id) == id \in stored /\ key[id] = Absent /\ Unwatched(id)

\* A handler that holds a copy but has not seen the key cannot bring it back.
LEMMA LostStays ==
    ASSUME RedisInv, NEW id \in Ids, Lost(id), [Next]_rvars
    PROVE  Lost(id)'
<1>1. CASE UNCHANGED rvars
    BY <1>1 DEF rvars, Lost, Unwatched
<1>2. ASSUME NEW w \in Workers, NEW x \in Ids, Create(w, x) \/ Get(w, x)
      PROVE  Lost(id)'
    <2>1. x # id
        BY <1>2 DEF Create, Get, Lost, RedisInv, Created
    <2>2. PICK at : run(w, at, x)
        BY <1>2 DEF Create, Get
    <2>3. /\ key' = key /\ stored' = stored
          /\ \A v \in Workers : v # w => calls'[v] = calls[v]
          /\ calls'[w].id = x
        BY <1>2, <2>2 DEF Create, Get, run, RedisInv, RedisTypeOK
    <2> QED BY <2>1, <2>3 DEF Lost, Unwatched
<1>3. ASSUME NEW w \in Workers, return(w), UNCHANGED <<key, stored>>
      PROVE  Lost(id)'
    <2>1. \A v \in Workers : calls'[v] = calls[v] \/ calls'[v] = Idle
        BY <1>3 DEF return, RedisInv, RedisTypeOK
    <2>2. Idle.id # id
        BY RedisAssumption DEF Idle
    <2> QED BY <1>3, <2>1, <2>2 DEF Lost, Unwatched
<1>4. ASSUME NEW w \in Workers, calls[w].id # id, UNCHANGED <<key, stored>>,
             \A v \in Workers : calls'[v] = calls[v] \/ calls'[v].id = calls[w].id
      PROVE  Lost(id)'
    BY <1>4 DEF Lost, Unwatched
<1>5. ASSUME NEW w \in Workers, Exists(w)
      PROVE  Lost(id)'
    <2>1. UNCHANGED <<key, stored>>
        BY <1>5 DEF Exists
    <2>2. CASE return(w)
        BY <1>3, <2>1, <2>2
    <2>3. CASE ~return(w)
        <3>1. calls[w].id # id /\ goOn(w, "exists")
            BY <1>5, <2>3 DEF Exists, Lost
        <3>2. calls[w] \in [at : Steps, id : Ids, ttl : 0..Longest]
            BY <1>5, CallType DEF Exists, RedisInv
        <3>3. \A v \in Workers : calls'[v] = calls[v] \/ calls'[v].id = calls[w].id
            BY <3>1, <3>2 DEF goOn, RedisInv, RedisTypeOK
        <3> QED BY <1>4, <2>1, <3>1, <3>3
    <2> QED BY <2>2, <2>3
<1>6. ASSUME NEW w \in Workers, write(w)
      PROVE  Lost(id)'
    <2>1. calls[w].id # id /\ UNCHANGED <<key, stored>>
        BY <1>6 DEF write, Lost, Unwatched
    <2>2. calls[w] \in [at : Steps, id : Ids, ttl : 0..Longest]
        BY <1>6, CallType DEF write, RedisInv
    <2>3. \A v \in Workers : calls'[v] = calls[v] \/ calls'[v].id = calls[w].id
        BY <1>6, <2>2 DEF write, RedisInv, RedisTypeOK
    <2> QED BY <1>4, <2>1, <2>3
<1>7. ASSUME NEW w \in Workers, Set(w)
      PROVE  Lost(id)'
    <2>1. calls[w].id # id
        BY <1>7 DEF Set, Lost, Unwatched
    <2>2. key'[id] = key[id] /\ id \in stored'
        BY <1>7, <2>1 DEF Set, Lost, RedisInv, RedisTypeOK
    <2>3. \A v \in Workers : calls'[v] = calls[v] \/ calls'[v] = Idle
        BY <1>7 DEF Set, return, RedisInv, RedisTypeOK
    <2>4. Idle.id # id
        BY RedisAssumption DEF Idle
    <2> QED BY <2>2, <2>3, <2>4 DEF Lost, Unwatched
<1>8. CASE Tick
    <2>1. key'[id] = IF key[id] > 0 THEN key[id] - 1 ELSE key[id]
        BY <1>8 DEF Tick
    <2>2. key[id] = 0
        BY DEF Lost, Absent
    <2> QED BY <1>8, <2>1, <2>2 DEF Tick, Lost, Unwatched, Absent
<1>9. QED
    BY <1>1, <1>2, <1>3, <1>5, <1>6, <1>7, <1>8 DEF Next, Fail

\* Once the key is gone and the writers that had seen it have ended, the session
\* is gone for good (Update's EXISTS).
THEOREM GoneIsForGood == Spec => GoneForGood
<1> SUFFICES ASSUME NEW id \in Ids
             PROVE  Spec => [](Lost(id) => [](key[id] = Absent))
    BY DEF GoneForGood, Lost
<1>1. RedisInv /\ Lost(id) /\ [Next]_rvars => Lost(id)'
    BY LostStays
<1>2. Lost(id) => key[id] = Absent
    BY DEF Lost
<1>3. QED
    BY <1>1, <1>2, RedisHolds, PTL DEF Spec
=============================================================================
