------------------------- MODULE RateLimiterProofs -------------------------
(***************************************************************************)
(* keyedLimiter keeps its types, stays within every key's budget, and      *)
(* implements a token bucket per key, for any number of keys, any rate and *)
(* burst, and any idle time that is long enough to refill a bucket.        *)
(***************************************************************************)
EXTENDS RateLimiter, TLAPS

\* The readings of the clock kept in an entry are in order, and not later than t.
Ordered(e, t) == e.last <= e.lastSeen /\ e.lastSeen <= t

ReadingsInOrder ==
    \A k \in Keys : entries[k] # None => Ordered(entries[k], now)

\* The buckets alone, whoever was answered last.
BucketInv ==
    /\ entries \in [Keys -> Entry \cup {None}]
    /\ now \in Nat
    /\ granted \in [Keys -> Nat]
    /\ ReadingsInOrder

\* The inductive invariant.
LimiterInv == BucketInv /\ verdict \in Verdicts

\* The capacity of a bucket is a number, which is all that is needed of it.
LEMMA CapacityType == Capacity \in Nat
BY LimiterAssumption DEF Capacity

\* advance stays within the bucket.
LEMMA AdvanceType ==
    ASSUME NEW e \in Entry, NEW t \in Nat, Ordered(e, t)
    PROVE  advance(e, t) \in 0..Capacity
<1>1. e.tokens \in 0..Capacity /\ e.last \in Nat /\ e.lastSeen \in Nat
    BY DEF Entry
<1> QED BY <1>1, CapacityType DEF advance, Ordered

\* An entry is forgotten only when its bucket is full: a new one is worth the
\* same (sweepLocked).
LEMMA IdleIsFull ==
    ASSUME NEW e \in Entry, NEW t \in Nat, Ordered(e, t), idle(e, t)
    PROVE  advance(e, t) = Capacity
<1>1. e.tokens \in 0..Capacity /\ e.last \in Nat /\ e.lastSeen \in Nat
    BY DEF Entry
<1> QED BY <1>1, CapacityType, IdleAssumption, LimiterAssumption
        DEF advance, Ordered, idle

\* What a charge leaves, to be spent at the same time: the price less, or all.
ChargeLeaves(e, t) ==
    /\ charge(e, t) \in Entry
    /\ Ordered(charge(e, t), t)
    /\ affordable(e, t) => advance(charge(e, t), t) = advance(e, t) - Cost
    /\ ~affordable(e, t) => advance(charge(e, t), t) = advance(e, t)

\* Allow of rate.Limiter charges an entry that can pay, and only that.
LEMMA ChargeCases ==
    ASSUME NEW e \in Entry, NEW t \in Nat, Ordered(e, t)
    PROVE  ChargeLeaves(e, t)
<1>1. e.tokens \in 0..Capacity /\ e.last \in Nat /\ e.lastSeen \in Nat
    BY DEF Entry
<1>2. PICK a \in 0..Capacity : a = advance(e, t)
    BY AdvanceType
<1>3. CASE affordable(e, t)
    <2>1. PICK b \in 0..Capacity : b = a - Cost /\ b < Capacity
        BY <1>2, <1>3, CapacityType, LimiterAssumption DEF affordable
    <2>2. charge(e, t) = [tokens |-> b, last |-> t, lastSeen |-> t]
        BY <1>2, <1>3, <2>1 DEF charge
    <2>3. charge(e, t) \in Entry /\ Ordered(charge(e, t), t)
        BY <2>2 DEF Entry, Ordered
    <2>4. advance(charge(e, t), t) = b
        BY <2>1, <2>2, CapacityType DEF advance
    <2> QED BY <1>2, <1>3, <2>1, <2>3, <2>4 DEF ChargeLeaves
<1>4. CASE ~affordable(e, t)
    <2>1. PICK f \in Entry : f = [e EXCEPT !.lastSeen = t]
        BY DEF Entry
    <2>2. charge(e, t) = f
        BY <1>4, <2>1 DEF charge
    <2>3. f.tokens = e.tokens /\ f.last = e.last /\ f.lastSeen = t
        BY <2>1 DEF Entry
    <2>4. Ordered(f, t)
        BY <1>1, <2>3 DEF Ordered
    <2>5. advance(f, t) = advance(e, t)
        BY <2>3 DEF advance
    <2> QED BY <1>4, <2>1, <2>2, <2>4, <2>5 DEF ChargeLeaves
<1> QED BY <1>3, <1>4

\* The sweep keeps entries in order and changes what no key is worth.
SweepHarmless ==
    \A k \in Keys :
        /\ sweepLocked(now)[k] \in Entry \cup {None}
        /\ sweepLocked(now)[k] # None => Ordered(sweepLocked(now)[k], now)
        /\ worth(sweepLocked(now)[k], now) = available(k)

\* sweepLocked is harmless.
LEMMA SweepCases ==
    ASSUME BucketInv
    PROVE  SweepHarmless
<1> SUFFICES ASSUME NEW k \in Keys
             PROVE  /\ sweepLocked(now)[k] \in Entry \cup {None}
                    /\ sweepLocked(now)[k] # None => Ordered(sweepLocked(now)[k], now)
                    /\ worth(sweepLocked(now)[k], now) = available(k)
    BY DEF SweepHarmless
<1>1. PICK e \in Entry \cup {None} : e = entries[k]
    BY DEF BucketInv
<1>2. now \in Nat /\ (e # None => Ordered(e, now))
    BY <1>1 DEF BucketInv, ReadingsInOrder, Ordered
<1>3. sweepLocked(now)[k] = IF e # None /\ idle(e, now) THEN None ELSE e
    BY <1>1 DEF sweepLocked
<1>4. CASE e # None /\ idle(e, now)
    <2>1. advance(e, now) = Capacity
        BY <1>2, <1>4, IdleIsFull
    <2> QED BY <1>1, <1>3, <1>4, <2>1 DEF worth, available
<1>5. CASE ~(e # None /\ idle(e, now))
    BY <1>1, <1>2, <1>3, <1>5 DEF worth, available
<1> QED BY <1>4, <1>5

\* What Allow works on is a proper entry, worth what the key has.
LEMMA EntryCases ==
    ASSUME BucketInv, NEW k \in Keys
    PROVE  /\ entryFor(k, now) \in Entry
           /\ Ordered(entryFor(k, now), now)
           /\ advance(entryFor(k, now), now) = available(k)
<1>1. PICK e \in Entry \cup {None} : e = sweepLocked(now)[k]
    BY SweepCases DEF SweepHarmless
<1>2. /\ e # None => Ordered(e, now)
      /\ worth(e, now) = available(k)
    BY <1>1, SweepCases DEF SweepHarmless
<1>3. CASE e = None
    <2> DEFINE new == [tokens |-> Capacity, last |-> now, lastSeen |-> now]
    <2>1. now \in Nat
        BY DEF BucketInv
    <2>2. Capacity \in 0..Capacity
        BY CapacityType
    <2>3. new \in Entry
        BY <2>1, <2>2 DEF Entry
    <2>4. PICK f \in Entry : f = new
        BY <2>3
    <2>5. entryFor(k, now) = f
        BY <1>1, <1>3, <2>4 DEF entryFor, NewLimiter
    <2>6. Ordered(f, now) /\ advance(f, now) = Capacity
        BY <2>1, <2>4, CapacityType DEF Ordered, advance
    <2> QED BY <1>2, <1>3, <2>5, <2>6 DEF worth
<1>4. CASE e # None
    BY <1>1, <1>2, <1>4 DEF entryFor, worth
<1> QED BY <1>3, <1>4

\* What Allow does, in terms of what the keys have.
AllowEffect(k) ==
    LET ok == available(k) >= Cost IN
    /\ available(k)' = IF ok THEN available(k) - Cost ELSE available(k)
    /\ \A j \in Keys \ {k} : available(j)' = available(j)
    /\ verdict' = IF ok THEN <<k, TRUE>> ELSE <<k, FALSE>>
    /\ granted' = [granted EXCEPT ![k] = IF ok THEN @ + 1 ELSE @]
    /\ now' = now

\* Allow keeps the invariant and has its effect.
LEMMA AllowCases ==
    ASSUME BucketInv, NEW k \in Keys, Allow(k)
    PROVE  BucketInv' /\ AllowEffect(k)
<1>1. now \in Nat /\ now' = now
    BY DEF BucketInv, Allow
<1>2. PICK e \in Entry : e = entryFor(k, now)
    BY EntryCases
<1>3. Ordered(e, now) /\ advance(e, now) = available(k)
    BY <1>2, EntryCases
<1>4. PICK f \in Entry : f = charge(e, now)
    BY <1>1, <1>3, ChargeCases DEF ChargeLeaves
<1>5. /\ Ordered(f, now)
      /\ affordable(e, now) => advance(f, now) = available(k) - Cost
      /\ ~affordable(e, now) => advance(f, now) = available(k)
    BY <1>1, <1>3, <1>4, ChargeCases DEF ChargeLeaves
<1>6. affordable(e, now) <=> available(k) >= Cost
    BY <1>3 DEF affordable
<1>7. PICK sw : sw = sweepLocked(now)
    OBVIOUS
<1>8. entries' = [sw EXCEPT ![k] = f]
    BY <1>2, <1>4, <1>7 DEF Allow
<1>9. /\ verdict' = IF affordable(e, now) THEN <<k, TRUE>> ELSE <<k, FALSE>>
      /\ granted' = [granted EXCEPT ![k] = IF affordable(e, now) THEN @ + 1 ELSE @]
    <2>1. /\ verdict' = <<k, affordable(e, now)>>
          /\ granted' = [granted EXCEPT ![k] = IF affordable(e, now) THEN @ + 1 ELSE @]
        BY <1>2 DEF Allow
    <2>2. affordable(e, now) \in BOOLEAN
        BY DEF affordable
    <2> QED BY <2>1, <2>2
<1>10. sw = [j \in Keys |-> sw[j]]
    BY <1>7 DEF sweepLocked
<1>11. entries' = [j \in Keys |-> IF j = k THEN f ELSE sw[j]]
    BY <1>8, <1>10
<1>12. \A j \in Keys :
         /\ entries'[j] \in Entry \cup {None}
         /\ entries'[j] # None => Ordered(entries'[j], now)
    BY <1>5, <1>7, <1>11, SweepCases DEF SweepHarmless
<1>13. BucketInv'
    <2>1. granted' \in [Keys -> Nat]
        BY <1>9 DEF BucketInv
    <2>3. entries' \in [Keys -> Entry \cup {None}]
        BY <1>11, <1>12
    <2>4. ReadingsInOrder'
        BY <1>1, <1>12 DEF ReadingsInOrder, Ordered
    <2> QED BY <1>1, <2>1, <2>3, <2>4 DEF BucketInv
<1>14. available(k)' = advance(f, now)
    BY <1>1, <1>4, <1>11, NoneAssumption DEF available, worth
<1>15. \A j \in Keys \ {k} : available(j)' = available(j)
    <2> SUFFICES ASSUME NEW j \in Keys \ {k} PROVE available(j)' = available(j)
        OBVIOUS
    <2>1. entries'[j] = sw[j]
        BY <1>11
    <2>2. available(j)' = worth(sw[j], now)
        BY <1>1, <2>1 DEF available, worth
    <2> QED BY <1>7, <2>2, SweepCases DEF SweepHarmless
<1> QED BY <1>1, <1>5, <1>6, <1>9, <1>13, <1>14, <1>15 DEF AllowEffect

\* A tick refills every key's bucket by one unit, up to its capacity.
TickEffect ==
    /\ \A k \in Keys : available(k)' = IF available(k) < Capacity
                                       THEN available(k) + 1 ELSE Capacity
    /\ verdict' = NoVerdict
    /\ granted' = granted
    /\ now' = now + 1

\* A tick keeps the invariant and has its effect.
LEMMA TickCases ==
    ASSUME BucketInv, Tick
    PROVE  BucketInv' /\ TickEffect
<1>1. now \in Nat /\ now' = now + 1 /\ entries' = entries
    BY DEF BucketInv, Tick
<1>2. BucketInv'
    <2>1. ReadingsInOrder'
        <3> SUFFICES ASSUME NEW k \in Keys, entries[k] # None
                     PROVE  Ordered(entries[k], now + 1)
            BY <1>1 DEF ReadingsInOrder
        <3>1. entries[k] \in Entry
            BY DEF BucketInv
        <3>2. entries[k].lastSeen \in Nat
            BY <3>1 DEF Entry
        <3> QED BY <1>1, <3>2 DEF BucketInv, ReadingsInOrder, Ordered
    <2> QED BY <1>1, <2>1 DEF Tick, BucketInv
<1>3. ASSUME NEW k \in Keys
      PROVE  available(k)' = IF available(k) < Capacity
                             THEN available(k) + 1 ELSE Capacity
    <2>1. PICK e \in Entry \cup {None} : e = entries[k]
        BY DEF BucketInv
    <2>2. available(k) = worth(e, now) /\ available(k)' = worth(e, now + 1)
        BY <1>1, <2>1 DEF available, worth
    <2>3. CASE e = None
        BY <2>2, <2>3, CapacityType DEF worth
    <2>4. CASE e # None
        <3>1. e.tokens \in 0..Capacity /\ e.last \in Nat /\ e.lastSeen \in Nat
            BY <2>1, <2>4 DEF Entry
        <3>2. e.last <= now
            BY <1>1, <2>1, <2>4, <3>1 DEF BucketInv, ReadingsInOrder, Ordered
        <3> QED BY <1>1, <2>2, <2>4, <3>1, <3>2, CapacityType DEF worth, advance
    <2> QED BY <2>3, <2>4
<1> QED BY <1>1, <1>2, <1>3 DEF Tick, TickEffect

\* A new keyedLimiter has no entries.
LEMMA InitInv == Init => LimiterInv
BY DEF Init, LimiterInv, BucketInv, ReadingsInOrder, Verdicts

\* Every step keeps the invariant.
LEMMA NextInv == LimiterInv /\ [Next]_lvars => LimiterInv'
<1> SUFFICES ASSUME LimiterInv, [Next]_lvars PROVE LimiterInv'
    OBVIOUS
<1>1. CASE UNCHANGED lvars
    BY <1>1 DEF lvars, LimiterInv, BucketInv, ReadingsInOrder
<1>2. CASE Tick
    BY <1>2, TickCases DEF LimiterInv, TickEffect, Verdicts
<1>3. ASSUME NEW k \in Keys, Allow(k)
      PROVE  LimiterInv'
    <2>1. BucketInv' /\ AllowEffect(k)
        BY <1>3, AllowCases DEF LimiterInv
    <2>2. verdict' \in Verdicts
        BY <2>1 DEF AllowEffect, Verdicts
    <2> QED BY <2>1, <2>2 DEF LimiterInv
<1> QED BY <1>1, <1>2, <1>3 DEF Next

\* The inductive invariant holds throughout.
THEOREM LimiterInvHolds == Spec => []LimiterInv
BY InitInv, NextInv, PTL DEF Spec

\* Allow keeps every entry a proper bucket: never above its capacity, never
\* below zero.
THEOREM LimiterTypeCorrect == Spec => []LimiterTypeOK
<1>1. LimiterInv => LimiterTypeOK
    BY DEF LimiterInv, BucketInv, LimiterTypeOK
<1> QED BY <1>1, LimiterInvHolds, PTL

\* A key has between nothing and a full bucket.
LEMMA AvailableType ==
    ASSUME BucketInv, NEW k \in Keys
    PROVE  available(k) \in 0..Capacity
<1>1. entryFor(k, now) \in Entry /\ Ordered(entryFor(k, now), now)
    BY EntryCases
<1>2. now \in Nat
    BY DEF BucketInv
<1> QED BY <1>1, <1>2, AdvanceType, EntryCases

\* The price of one request more.
LEMMA OneMore ==
    ASSUME NEW g \in Nat
    PROVE  g * Cost \in Nat /\ (g + 1) * Cost = g * Cost + Cost
BY LimiterAssumption

\* A new limiter owes nothing.
LEMMA BudgetInit == Init => WithinBudget
<1> SUFFICES ASSUME Init, NEW k \in Keys
             PROVE  granted[k] * Cost + available(k) <= Capacity + now
    BY DEF WithinBudget
<1>1. granted[k] = 0 /\ now = 0 /\ available(k) = Capacity
    BY DEF Init, available, worth
<1> QED BY <1>1, CapacityType, LimiterAssumption

\* A tick earns every key one unit at most.
LEMMA BudgetTick ==
    ASSUME BucketInv, WithinBudget, Tick
    PROVE  WithinBudget'
<1> SUFFICES ASSUME NEW j \in Keys
             PROVE  (granted[j] * Cost + available(j) <= Capacity + now)'
    BY DEF WithinBudget
<1>1. PICK g \in Nat, a \in 0..Capacity, t \in Nat :
        g = granted[j] /\ a = available(j) /\ t = now
    BY AvailableType DEF BucketInv
<1>2. g * Cost + a <= Capacity + t
    BY <1>1 DEF WithinBudget
<1>3. PICK c \in Nat : c = g * Cost /\ (g + 1) * Cost = c + Cost
    BY OneMore
<1>4. granted'[j] = g /\ now' = t + 1 /\
      available(j)' = IF a < Capacity THEN a + 1 ELSE Capacity
    BY <1>1, TickCases DEF TickEffect
<1> QED BY <1>2, <1>3, <1>4, CapacityType

\* A request that is let through costs its key what it is granted.
LEMMA BudgetAllow ==
    ASSUME BucketInv, WithinBudget, NEW k \in Keys, Allow(k)
    PROVE  WithinBudget'
<1> SUFFICES ASSUME NEW j \in Keys
             PROVE  (granted[j] * Cost + available(j) <= Capacity + now)'
    BY DEF WithinBudget
<1>1. PICK g \in Nat, a \in 0..Capacity, t \in Nat :
        g = granted[j] /\ a = available(j) /\ t = now
    BY AvailableType DEF BucketInv
<1>2. g * Cost + a <= Capacity + t
    BY <1>1 DEF WithinBudget
<1>3. PICK c \in Nat : c = g * Cost /\ (g + 1) * Cost = c + Cost
    BY OneMore
<1>4. AllowEffect(k)
    BY AllowCases
<1>5. CASE j = k /\ a >= Cost
    <2>1. granted'[j] = g + 1 /\ now' = t /\ available(j)' = a - Cost
        BY <1>1, <1>4, <1>5 DEF AllowEffect, BucketInv
    <2> QED BY <1>2, <1>3, <2>1, LimiterAssumption, CapacityType
<1>6. CASE ~(j = k /\ a >= Cost)
    <2>1. granted'[j] = g /\ now' = t /\ available(j)' = a
        BY <1>1, <1>4, <1>6 DEF AllowEffect, BucketInv
    <2> QED BY <1>2, <1>3, <2>1
<1> QED BY <1>5, <1>6

\* However often a key's bucket is dropped and made anew, it is granted no
\* more than its burst and one request per refill (Allow, sweepLocked).
THEOREM BudgetIsKept == Spec => []WithinBudget
<1>1. LimiterInv /\ WithinBudget /\ [Next]_lvars => WithinBudget'
    <2> SUFFICES ASSUME BucketInv, WithinBudget, [Next]_lvars
                 PROVE  WithinBudget'
        BY DEF LimiterInv
    <2>1. CASE UNCHANGED lvars
        BY <2>1 DEF lvars, WithinBudget, available
    <2> QED BY <2>1, BudgetTick, BudgetAllow DEF Next
<1> QED BY <1>1, BudgetInit, LimiterInvHolds, PTL DEF Spec

\* Every step of the limiter is a step of the bucket per key that is never
\* forgotten, or a stutter (Allow, sweepLocked).
THEOREM LimiterRefines == Spec => ImplementsTokenBucket
<1>1. Init => Bucket!BInit
    BY DEF Init, Bucket!BInit, Bucket!NoVerdict, NoVerdict, available, worth
<1>2. LimiterInv /\ [Next]_lvars => [Bucket!BNext]_(Bucket!bvars)
    <2> SUFFICES ASSUME BucketInv, [Next]_lvars
                 PROVE  [Bucket!BNext]_(Bucket!bvars)
        BY DEF LimiterInv
    <2>1. CASE Tick
        <3>1. TickEffect
            BY <2>1, TickCases
        <3> QED BY <3>1 DEF TickEffect, Bucket!BNext, Bucket!Refill,
                            Bucket!NoVerdict, NoVerdict
    <2>2. ASSUME NEW k \in Keys, Allow(k)
          PROVE  Bucket!BNext
        <3>1. AllowEffect(k)
            BY <2>2, AllowCases
        <3>2. available(k) \in Int /\ Cost \in Int
            BY AvailableType, LimiterAssumption
        <3>3. CASE available(k) >= Cost
            <4>1. Bucket!Take(k)
                BY <3>1, <3>3 DEF AllowEffect, Bucket!Take
            <4> QED BY <4>1 DEF Bucket!BNext
        <3>4. CASE available(k) < Cost
            <4>1. ~(available(k) >= Cost)
                BY <3>2, <3>4
            <4>2. \A j \in Keys : available(j)' = available(j)
                BY <3>1, <4>1 DEF AllowEffect
            <4>3. verdict' = <<k, FALSE>>
                BY <3>1, <4>1 DEF AllowEffect
            <4>4. Bucket!Refuse(k)
                BY <3>4, <4>2, <4>3 DEF Bucket!Refuse
            <4> QED BY <4>4 DEF Bucket!BNext
        <3> QED BY <3>2, <3>3, <3>4
    <2>3. CASE UNCHANGED lvars
        BY <2>3 DEF lvars, Bucket!bvars, available
    <2> QED BY <2>1, <2>2, <2>3 DEF Next
<1> QED BY <1>1, <1>2, LimiterInvHolds, PTL
        DEF Spec, ImplementsTokenBucket, Bucket!BSpec
=============================================================================
