-------------------------- MODULE DetectorProofs ---------------------------
(***************************************************************************)
(* The abuse detector for every threshold, window length and lag, any      *)
(* number of keys and events, and readings in any order.                   *)
(*                                                                         *)
(* The log of a key falls into windows, each with the event that opened    *)
(* it.  The counters keep only the last one; win names the opener of every *)
(* event.                                                                  *)
(***************************************************************************)
EXTENDS Detector, TLAPS

\* Readings are at most MaxLag old, and events are logged in time.
Timed(L, t) ==
    /\ \A k \in 1..Len(L) :
         /\ L[k].reading <= L[k].at
         /\ L[k].at <= L[k].reading + MaxLag
         /\ L[k].at <= t
    /\ \A j, k \in 1..Len(L) : j <= k => L[j].at <= L[k].at

\* Windows are stretches of the log; a window has ended before the next one
\* opens; the T-th event of each is reported, and no other.
Windowed(L, R, T, win) ==
    /\ win \in [1..Len(L) -> 1..Len(L)]
    /\ \A k \in 1..Len(L) :
         /\ win[k] <= k
         /\ \A j \in win[k]..k : win[j] = win[k]
         /\ L[k].reading <= L[win[k]].reading + Window
         /\ k \in R <=> k - win[k] + 1 = T
    /\ \A j, k \in 1..Len(L) :
         j < k /\ win[j] # win[k] =>
             L[win[j]].reading + Window < L[win[k]].reading
    /\ R \subseteq 1..Len(L)

\* The counter is that of the last window.
Counter(L, win, c) ==
    IF Len(L) = 0 THEN c = None
    ELSE c = [count |-> Len(L) - win[Len(L)] + 1,
              windowEnd |-> L[win[Len(L)]].reading + Window]

Threshold(p) == thresholdFor(kindOf(p))

DetectorInv ==
    /\ now \in Nat
    /\ log \in [MapKeys -> Seq(Observation)]
    /\ counts \in [MapKeys -> counterEntry \cup {None}]
    /\ reports \in [MapKeys -> SUBSET Nat]
    /\ \A p \in MapKeys : Timed(log[p], now)
    /\ \A p \in MapKeys : Threshold(p) = 0 => counts[p] = None /\ reports[p] = {}
    /\ \A p \in MapKeys : Threshold(p) > 0 =>
         \E win \in [1..Len(log[p]) -> 1..Len(log[p])] :
            Windowed(log[p], reports[p], Threshold(p), win)
            /\ Counter(log[p], win, counts[p])

\* A logged event.
LEMMA LogType ==
    ASSUME NEW L \in Seq(Observation)
    PROVE  /\ Len(L) \in Nat
           /\ DOMAIN L = 1..Len(L)
           /\ \A k \in 1..Len(L) : L[k] \in Observation
           /\ \A k \in 1..Len(L) : L[k].at \in Nat /\ L[k].reading \in Nat
<1>1. /\ Len(L) \in Nat
      /\ DOMAIN L = 1..Len(L)
      /\ \A k \in 1..Len(L) : L[k] \in Observation
    OBVIOUS
<1>2. \A o \in Observation : o.at \in Nat /\ o.reading \in Nat
    BY DEF Observation
<1>3. QED BY <1>1, <1>2

\* Appending an event keeps the earlier ones.
LEMMA LogAppend ==
    ASSUME NEW L \in Seq(Observation), NEW o \in Observation
    PROVE  /\ Append(L, o) \in Seq(Observation)
           /\ Len(Append(L, o)) = Len(L) + 1
           /\ \A k \in 1..Len(L) : Append(L, o)[k] = L[k]
           /\ Append(L, o)[Len(L) + 1] = o
OBVIOUS

\* A reading taken by a handler in progress keeps the log timed.
LEMMA TimedAppend ==
    ASSUME NEW L \in Seq(Observation), NEW o \in Observation, NEW t \in Nat,
           Timed(L, t), o.at = t, o.reading <= t, t <= o.reading + MaxLag
    PROVE  Timed(Append(L, o), t)
<1> DEFINE M == Append(L, o)
           n == Len(L) + 1
<1>1. /\ Len(L) \in Nat
      /\ Len(M) = n
      /\ \A k \in 1..Len(L) : M[k] = L[k]
      /\ M[n] = o
    BY LogType, LogAppend
<1>2. \A k \in 1..n : k \in 1..Len(L) \/ k = n
    BY <1>1
<1> HIDE DEF M, n
<1>3. QED
    <2>1. ASSUME NEW k \in 1..n
          PROVE  M[k].reading <= M[k].at /\ M[k].at <= M[k].reading + MaxLag /\ M[k].at <= t
        BY <1>1, <1>2 DEF Timed
    <2>2. ASSUME NEW j \in 1..n, NEW k \in 1..n, j <= k
          PROVE  M[j].at <= M[k].at
        <3>1. CASE k = n
            BY <1>1, <2>1, <3>1
        <3>2. CASE k # n
            <4>1. j \in 1..Len(L) /\ k \in 1..Len(L)
                BY <1>1, <1>2, <2>2, <3>2 DEF n
            <4> QED BY <1>1, <2>2, <4>1 DEF Timed
        <3> QED BY <3>1, <3>2
    <2>3. Timed(M, t)
        BY <1>1, <2>1, <2>2 DEF Timed
    <2> QED BY <2>3 DEF M

\* An event joins the last window or, after its end, opens the next.
NextOpener(L, win, o) ==
    IF Len(L) = 0 \/ o.reading > L[win[Len(L)]].reading + Window
    THEN Len(L) + 1 ELSE win[Len(L)]

NextWin(L, win, o) ==
    [k \in 1..(Len(L) + 1) |-> IF k = Len(L) + 1 THEN NextOpener(L, win, o) ELSE win[k]]

WithReport(R, T, k, w) == IF k - w + 1 = T THEN R \cup {k} ELSE R

NextReports(L, R, T, win, o) ==
    WithReport(R, T, Len(L) + 1, NextOpener(L, win, o))

\* Reporting the T-th event of a window keeps the log in windows.
LEMMA WindowAppend ==
    ASSUME NEW L \in Seq(Observation), NEW o \in Observation, NEW R, NEW T \in Nat \ {0},
           NEW win, Windowed(L, R, T, win)
    PROVE  /\ Windowed(Append(L, o), NextReports(L, R, T, win, o), T, NextWin(L, win, o))
           /\ NextWin(L, win, o)[Len(L) + 1] = NextOpener(L, win, o)
           /\ NextOpener(L, win, o) \in 1..(Len(L) + 1)
<1> DEFINE M == Append(L, o)
           m == Len(L)
           n == Len(L) + 1
           w == NextOpener(L, win, o)
           win2 == NextWin(L, win, o)
           R2 == NextReports(L, R, T, win, o)
<1>1. /\ m \in Nat /\ n = m + 1 /\ n \in Nat
      /\ Len(M) = n
      /\ \A k \in 1..m : M[k] = L[k]
      /\ M[n] = o
      /\ \A k \in 1..m : L[k].reading \in Nat
      /\ o.reading \in Nat
      /\ M \in Seq(Observation)
    BY LogType, LogAppend DEF Observation
<1>2. \A k \in 1..n : k \in 1..m \/ k = n
    BY <1>1
<1>3. /\ \A k \in 1..m : win2[k] = win[k]
      /\ win2[n] = w
    <2>1. win2 = [k \in 1..n |-> IF k = n THEN w ELSE win[k]]
        BY DEF NextWin
    <2> HIDE DEF win2, w
    <2> QED BY <1>1, <2>1
<1>4. /\ \A k \in 1..m : win[k] \in 1..m /\ win[k] <= k
      /\ R \subseteq 1..m
    BY DEF Windowed
<1>5. \/ w = n /\ (m = 0 \/ o.reading > L[win[m]].reading + Window)
      \/ /\ w = win[m] /\ m > 0
         /\ o.reading <= L[win[m]].reading + Window
    BY <1>1, <1>4, DetectorAssumption, SMTT(30) DEF NextOpener
<1>6. w \in 1..n
    BY <1>1, <1>4, <1>5
<1> HIDE DEF M, n, m, w, win2, R2
<1>7. win2 \in [1..n -> 1..n]
    BY <1>1, <1>4, <1>6 DEF win2, NextWin, w, n, m
<1>r. R2 = IF n - w + 1 = T THEN R \cup {n} ELSE R
    <2>1. R2 = WithReport(R, T, n, w)
        BY DEF R2, NextReports, n, w
    <2> QED BY <2>1 DEF WithReport
<1>8. M[w].reading = IF w = n THEN o.reading ELSE L[win[m]].reading
    BY <1>1, <1>4, <1>5, <1>6
<1>9. ASSUME NEW k \in 1..n
      PROVE  /\ win2[k] <= k
             /\ \A j \in win2[k]..k : win2[j] = win2[k]
             /\ M[k].reading <= M[win2[k]].reading + Window
             /\ k \in R2 <=> k - win2[k] + 1 = T
    <2>1. CASE k \in 1..m
        <3>1. win2[k] = win[k] /\ M[k] = L[k] /\ M[win[k]] = L[win[k]]
            BY <1>1, <1>3, <1>4, <2>1
        <3>2. /\ \A j \in win[k]..k : win[j] = win[k]
              /\ L[k].reading <= L[win[k]].reading + Window
              /\ k \in R <=> k - win[k] + 1 = T
            BY <2>1 DEF Windowed, m
        <3>3. k # n
            BY <1>1, <2>1
        <3>4. k \in R2 <=> k \in R
            BY <1>r, <3>3
        <3>5. \A j \in win[k]..k : j \in 1..m
            BY <1>1, <1>4, <2>1
        <3> QED BY <1>3, <1>4, <2>1, <3>1, <3>2, <3>4, <3>5
    <2>2. CASE k = n
        <3>1. win2[k] = w /\ w <= k
            BY <1>3, <1>6, <2>2
        <3>2. \A j \in w..n : win2[j] = w
            <4>1. CASE w = n
                BY <1>1, <1>3, <4>1
            <4>2. CASE w # n
                <5>1. w = win[m] /\ m \in 1..m
                    BY <1>1, <1>5, <4>2
                <5>2. \A j \in win[m]..m : win[j] = win[m] /\ j \in 1..m
                    <6>1. \A j \in win[m]..m : win[j] = win[m]
                        BY <5>1 DEF Windowed, m
                    <6>2. win[m] \in 1..m
                        BY <1>4, <5>1
                    <6>3. \A j \in win[m]..m : j \in 1..m
                        BY <1>1, <6>2
                    <6> QED BY <6>1, <6>3
                <5>3. ASSUME NEW j \in w..n
                      PROVE  win2[j] = w
                    <6>1. CASE j = n
                        BY <1>3, <6>1
                    <6>2. CASE j # n
                        <7>1. j \in w..m
                            BY <1>1, <1>6, <6>2
                        <7>2. j \in win[m]..m
                            BY <5>1, <7>1
                        <7>3. win[j] = win[m] /\ j \in 1..m
                            BY <5>2, <7>2
                        <7> QED BY <1>3, <5>1, <7>3
                    <6> QED BY <6>1, <6>2
                <5> QED BY <5>3
            <4> QED BY <4>1, <4>2
        <3>3. M[n].reading <= M[w].reading + Window
            BY <1>1, <1>5, <1>8, DetectorAssumption
        <3>4. n \notin R
            BY <1>1, <1>4
        <3>5. n \in R2 <=> n - w + 1 = T
            BY <1>r, <3>4
        <3> QED BY <2>2, <3>1, <3>2, <3>3, <3>5
    <2> QED BY <1>2, <2>1, <2>2
<1>10. ASSUME NEW j \in 1..n, NEW k \in 1..n, j < k, win2[j] # win2[k]
       PROVE  M[win2[j]].reading + Window < M[win2[k]].reading
    <2>1. j \in 1..m /\ win2[j] = win[j] /\ M[win[j]] = L[win[j]]
        BY <1>1, <1>2, <1>3, <1>4, <1>10
    <2>2. CASE k \in 1..m
        <3>1. win2[k] = win[k] /\ M[win[k]] = L[win[k]]
            BY <1>1, <1>3, <1>4, <2>2
        <3> QED BY <1>10, <2>1, <2>2, <3>1 DEF Windowed, m
    <2>3. CASE k = n
        <3>1. win2[k] = w
            BY <1>3, <2>3
        <3>2. m \in 1..m /\ win[m] \in 1..m
            BY <1>1, <1>4, <2>1
        <3>3. win[j] = win[m] \/ L[win[j]].reading + Window < L[win[m]].reading
            <4>1. j = m \/ j < m
                BY <1>1, <2>1
            <4> QED BY <2>1, <3>2, <4>1 DEF Windowed, m
        <3>4. /\ L[win[j]].reading \in Nat
              /\ L[win[m]].reading \in Nat
            BY <1>1, <1>4, <2>1, <3>2
        <3>5. CASE w = n
            <4>1. o.reading > L[win[m]].reading + Window
                BY <1>1, <1>4, <1>5, <3>2, <3>5
            <4>2. M[w].reading = o.reading
                BY <1>8, <3>5
            <4>3. L[win[j]].reading <= L[win[m]].reading
                <5>1. CASE win[j] = win[m]
                    BY <3>4, <5>1
                <5>2. CASE L[win[j]].reading + Window < L[win[m]].reading
                    BY <3>4, <5>2, DetectorAssumption
                <5> QED BY <3>3, <5>1, <5>2
            <4>4. L[win[j]].reading + Window < o.reading
                <5>1. o.reading \in Nat /\ Window \in Nat
                    BY <1>1, DetectorAssumption
                <5> QED BY <3>4, <4>1, <4>3, <5>1, SMTT(30)
            <4>5. M[win2[j]].reading = L[win[j]].reading /\ M[win2[k]].reading = o.reading
                BY <2>1, <3>1, <4>2
            <4> QED BY <4>4, <4>5
        <3>6. CASE w # n
            <4>1. w = win[m] /\ M[w].reading = L[win[m]].reading
                BY <1>5, <1>8, <3>6
            <4>2. win[j] # win[m]
                BY <1>10, <2>1, <3>1, <4>1
            <4>3. L[win[j]].reading + Window < L[win[m]].reading
                BY <3>3, <4>2
            <4>4. M[win2[j]].reading = L[win[j]].reading /\ M[win2[k]].reading = L[win[m]].reading
                BY <2>1, <3>1, <4>1
            <4> QED BY <4>3, <4>4
        <3> QED BY <3>5, <3>6
    <2> QED BY <1>2, <2>2, <2>3
<1>11. R2 \subseteq 1..n
    <2>1. R \subseteq 1..n /\ n \in 1..n
        BY <1>1, <1>4
    <2> QED BY <1>r, <2>1
<1>12. Windowed(M, R2, T, win2)
    <2>1. /\ win2 \in [1..Len(M) -> 1..Len(M)]
          /\ R2 \subseteq 1..Len(M)
        BY <1>1, <1>7, <1>11
    <2>2. \A k \in 1..Len(M) :
            /\ win2[k] <= k
            /\ \A j \in win2[k]..k : win2[j] = win2[k]
            /\ M[k].reading <= M[win2[k]].reading + Window
            /\ k \in R2 <=> k - win2[k] + 1 = T
        BY <1>1, <1>9
    <2>3. \A j, k \in 1..Len(M) :
            j < k /\ win2[j] # win2[k] => M[win2[j]].reading + Window < M[win2[k]].reading
        BY <1>1, <1>10
    <2> QED BY <2>1, <2>2, <2>3 DEF Windowed
<1>13. QED
    BY <1>3, <1>6, <1>12 DEF M, n, w, win2, R2

\* A threshold is a natural number, and a kind is counted unless it is zero.
LEMMA ThresholdType ==
    ASSUME NEW p \in MapKeys
    PROVE  Threshold(p) \in Nat /\ (uncountedKind(p) <=> Threshold(p) = 0)
<1>1. Threshold(p) \in Nat
    BY DetectorAssumption DEF Threshold, thresholdFor
<1>2. uncountedKind(p) <=> Threshold(p) <= 0
    BY DEF uncountedKind, Threshold
<1>3. QED BY <1>1, <1>2

\* What a handler in progress may pass in.
LEMMA ReadingType ==
    ASSUME now \in Nat, NEW t \in Readings
    PROVE  /\ t \in Nat /\ t <= now /\ now <= t + MaxLag
           /\ [at |-> now, reading |-> t] \in Observation
<1>1. t \in Nat /\ t <= now /\ now <= t + MaxLag
    BY DetectorAssumption DEF Readings
<1>2. QED BY <1>1 DEF Observation

\* An observation moves the counter of its key the way it extends the log.
LEMMA CountedStep ==
    ASSUME DetectorInv, NEW p \in MapKeys, NEW t \in Readings, Threshold(p) > 0
    PROVE  LET M == Append(log[p], [at |-> now, reading |-> t])
               R2 == IF tripped(p, t) THEN reports[p] \cup {Len(log[p]) + 1} ELSE reports[p]
           IN  /\ counted(p, t) \in counterEntry
               /\ \E win2 \in [1..Len(M) -> 1..Len(M)] :
                    Windowed(M, R2, Threshold(p), win2) /\ Counter(M, win2, counted(p, t))
<1> DEFINE L == log[p]
           o == [at |-> now, reading |-> t]
           M == Append(L, o)
           m == Len(L)
           n == Len(L) + 1
           T == Threshold(p)
           R == reports[p]
           c == counts[p]
<1>1. /\ L \in Seq(Observation)
      /\ o \in Observation /\ o.reading = t
      /\ t \in Nat /\ now \in Nat
      /\ T \in Nat \ {0}
      /\ Window \in Nat
    BY ReadingType, ThresholdType, DetectorAssumption DEF DetectorInv
<1>2. PICK win \in [1..m -> 1..m] : Windowed(L, R, T, win) /\ Counter(L, win, c)
    BY DEF DetectorInv
<1>3. /\ m \in Nat /\ n \in Nat /\ n = m + 1
      /\ \A k \in 1..m : L[k].reading \in Nat
      /\ Len(M) = n
      /\ \A k \in 1..m : M[k] = L[k]
      /\ M[n] = o
    BY <1>1, LogType, LogAppend
<1>4. m # 0 => m \in 1..m /\ win[m] \in 1..m
    BY <1>2, <1>3
<1>5. m = 0 => c = None
    BY <1>2 DEF Counter
<1>6. m # 0 => c = [count |-> m - win[m] + 1, windowEnd |-> L[win[m]].reading + Window]
    BY <1>2 DEF Counter
<1>7. m # 0 => c \in counterEntry /\ c # None
    <2>1. m # 0 => m - win[m] + 1 \in Nat \ {0} /\ L[win[m]].reading + Window \in Nat
        <3>1. m # 0 => m - win[m] + 1 \in Nat \ {0}
            BY <1>3, <1>4
        <3>2. m # 0 => L[win[m]].reading \in Nat
            BY <1>1, <1>4, LogType
        <3>3. Window \in Nat
            BY DetectorAssumption
        <3> QED BY <3>1, <3>2, <3>3
    <2> QED BY <1>6, <2>1, NoneAssumption, SMTT(30) DEF counterEntry
<1> DEFINE opens == m = 0 \/ t > L[win[m]].reading + Window
           w == NextOpener(L, win, o)
           win2 == NextWin(L, win, o)
           R3 == NextReports(L, R, T, win, o)
<1>8. w = IF opens THEN n ELSE win[m]
    BY <1>1 DEF NextOpener
<1>9. R3 = IF n - w + 1 = T THEN R \cup {n} ELSE R
    <2>1. R3 = WithReport(R, T, n, w)
        BY DEF NextReports
    <2> HIDE DEF R3, n, w, R, T
    <2> QED BY <2>1 DEF WithReport
<1>10. Windowed(L, R, T, win)
    BY <1>2
<1>11. /\ Windowed(M, R3, T, win2)
       /\ win2[n] = w
       /\ w \in 1..n
    <2> HIDE DEF L, o, R, T
    <2> QED BY <1>1, <1>10, WindowAppend
<1> HIDE DEF w, win2, R3
<1>12. (c = None \/ t > c.windowEnd) <=> opens
    <2>1. CASE m = 0
        BY <1>5, <2>1
    <2>2. CASE m # 0
        BY <1>6, <1>7, <2>2
    <2> QED BY <2>1, <2>2
<1>13. counted(p, t) = [count |-> n - w + 1, windowEnd |-> M[w].reading + Window]
    <2>1. CASE opens
        <3>1. current(p, t) = [count |-> 0, windowEnd |-> t + Window]
            BY <1>12, <2>1 DEF current
        <3>2. counted(p, t) = [count |-> 1, windowEnd |-> t + Window]
            BY <3>1 DEF counted
        <3>3. w = n /\ n - w + 1 = 1 /\ M[w].reading = t
            BY <1>1, <1>3, <1>8, <2>1
        <3> HIDE DEF w, n, M
        <3> QED BY <3>2, <3>3
    <2>2. CASE ~opens
        <3>1. current(p, t) = c
            BY <1>12, <2>2 DEF current
        <3>2. counted(p, t) = [count |-> (m - win[m] + 1) + 1, windowEnd |-> L[win[m]].reading + Window]
            BY <1>6, <2>2, <3>1, SMTT(30) DEF counted
        <3>3. w = win[m] /\ M[w].reading = L[win[m]].reading
            BY <1>3, <1>4, <1>8, <2>2
        <3>4. n - w + 1 = (m - win[m] + 1) + 1
            BY <1>3, <1>4, <1>8, <2>2
        <3> HIDE DEF w, n, M, m
        <3> QED BY <3>2, <3>3, <3>4
    <2> QED BY <2>1, <2>2
<1>14. n - w + 1 \in Nat \ {0} /\ M[w].reading + Window \in Nat
    <2>1. w = n \/ w \in 1..m
        BY <1>3, <1>4, <1>8
    <2>2. M[w].reading \in Nat
        <3>1. CASE w = n
            BY <1>1, <1>3, <3>1
        <3>2. CASE w \in 1..m
            BY <1>3, <3>2
        <3> QED BY <2>1, <3>1, <3>2
    <2>3. n - w + 1 \in Nat \ {0}
        BY <1>3, <1>11
    <2> HIDE DEF w, M
    <2> QED BY <1>1, <2>2, <2>3
<1> HIDE DEF w, n, M, m, win2, R3, opens, L, o, R, c, T
<1>15. counted(p, t) \in counterEntry
    BY <1>13, <1>14 DEF counterEntry
<1>16. tripped(p, t) <=> n - w + 1 = T
    BY <1>13 DEF tripped, Threshold, T
<1>17. Counter(M, win2, counted(p, t))
    <2>1. Len(M) # 0
        BY <1>3
    <2> QED BY <1>3, <1>11, <1>13, <2>1 DEF Counter
<1>18. win2 \in [1..Len(M) -> 1..Len(M)]
    BY <1>11 DEF Windowed
<1>19. R3 = IF tripped(p, t) THEN R \cup {n} ELSE R
    BY <1>9, <1>16
<1>20. \E u \in [1..Len(M) -> 1..Len(M)] :
          /\ Windowed(M, IF tripped(p, t) THEN R \cup {n} ELSE R, T, u)
          /\ Counter(M, u, counted(p, t))
    BY <1>11, <1>17, <1>18, <1>19
<1>21. QED
    BY <1>15, <1>20 DEF M, L, o, R, n, T

\* An empty log is in windows.
LEMMA EmptyLog ==
    ASSUME NEW T, NEW t \in Nat
    PROVE  /\ Timed(<<>>, t)
           /\ \E win \in [1..Len(<<>>) -> 1..Len(<<>>)] :
                 Windowed(<<>>, {}, T, win) /\ Counter(<<>>, win, None)
<1>1. Len(<<>>) = 0 /\ 1..0 = {}
    OBVIOUS
<1>2. Timed(<<>>, t)
    BY <1>1 DEF Timed
<1> DEFINE win == [k \in {} |-> 0]
<1>3. win \in [1..Len(<<>>) -> 1..Len(<<>>)]
    BY <1>1
<1> HIDE DEF win
<1>4. Windowed(<<>>, {}, T, win)
    BY <1>1, <1>3 DEF Windowed
<1>5. Counter(<<>>, win, None)
    BY <1>1 DEF Counter
<1>6. QED BY <1>2, <1>3, <1>4, <1>5

\* The detector starts with no counter and nothing logged.
LEMMA InitDetector == Init => DetectorInv
<1> SUFFICES ASSUME Init PROVE DetectorInv
    OBVIOUS
<1>1. /\ now = 0
      /\ \A p \in MapKeys : log[p] = <<>> /\ reports[p] = {} /\ counts[p] = None
    BY DEF Init
<1>2. /\ now \in Nat
      /\ log \in [MapKeys -> Seq(Observation)]
      /\ counts \in [MapKeys -> counterEntry \cup {None}]
      /\ reports \in [MapKeys -> SUBSET Nat]
    BY DEF Init
<1>3. \A p \in MapKeys : Timed(log[p], now)
    BY <1>1, EmptyLog
<1>4. \A p \in MapKeys : Threshold(p) = 0 => counts[p] = None /\ reports[p] = {}
    BY <1>1
<1>5. ASSUME NEW p \in MapKeys
      PROVE  \E win \in [1..Len(log[p]) -> 1..Len(log[p])] :
                Windowed(log[p], reports[p], Threshold(p), win)
                /\ Counter(log[p], win, counts[p])
    <2>1. \E win \in [1..Len(<<>>) -> 1..Len(<<>>)] :
             Windowed(<<>>, {}, Threshold(p), win) /\ Counter(<<>>, win, None)
        BY <1>2, EmptyLog
    <2>2. log[p] = <<>> /\ reports[p] = {} /\ counts[p] = None
        BY <1>1
    <2> QED BY <2>1, <2>2, Zenon
<1>6. QED BY <1>2, <1>3, <1>4, <1>5 DEF DetectorInv

\* The clock leaves counters and log alone.
LEMMA TickDetector == DetectorInv /\ Tick => DetectorInv'
<1> SUFFICES ASSUME DetectorInv, Tick PROVE DetectorInv'
    OBVIOUS
<1>1. /\ now \in Nat /\ now' = now + 1 /\ now' \in Nat
      /\ counts' = counts /\ log' = log /\ reports' = reports
    BY DEF Tick, DetectorInv
<1>2. ASSUME NEW p \in MapKeys
      PROVE  Timed(log[p], now')
    <2>1. log[p] \in Seq(Observation) /\ Timed(log[p], now)
        BY DEF DetectorInv
    <2>2. \A k \in 1..Len(log[p]) : log[p][k].at \in Nat
        BY <2>1, LogType
    <2> QED BY <1>1, <2>1, <2>2 DEF Timed
<1>3. QED BY <1>1, <1>2 DEF DetectorInv

\* An observation, whatever the age of its reading.
LEMMA ObserveDetector ==
    ASSUME DetectorInv, NEW p \in Observed \X Keys, NEW t \in Readings, Observe(p, t)
    PROVE  DetectorInv'
<1> DEFINE o == [at |-> now, reading |-> t]
           M == Append(log[p], o)
           R2 == IF tripped(p, t) THEN reports[p] \cup {Len(log[p]) + 1} ELSE reports[p]
<1>1. p \in MapKeys
    BY DetectorAssumption DEF MapKeys
<1>2. /\ now \in Nat /\ now' = now
      /\ log \in [MapKeys -> Seq(Observation)]
      /\ counts \in [MapKeys -> counterEntry \cup {None}]
      /\ reports \in [MapKeys -> SUBSET Nat]
      /\ log[p] \in Seq(Observation)
      /\ Timed(log[p], now)
    BY <1>1 DEF DetectorInv, Observe
<1>3. /\ t \in Nat /\ t <= now /\ now <= t + MaxLag /\ o \in Observation
    BY <1>2, ReadingType
<1>4. /\ M \in Seq(Observation)
      /\ Timed(M, now)
    <2>1. o.at = now /\ o.reading = t
        OBVIOUS
    <2> HIDE DEF o
    <2> QED BY <1>2, <1>3, <2>1, LogAppend, TimedAppend
<1>5. log' = [log EXCEPT ![p] = M]
    BY DEF Observe
<1>6. \/ Threshold(p) = 0 /\ counts' = counts /\ reports' = reports
      \/ /\ Threshold(p) > 0
         /\ counts' = [counts EXCEPT ![p] = counted(p, t)]
         /\ reports' = [reports EXCEPT ![p] = R2]
    BY <1>1, ThresholdType DEF Observe
<1>7. Threshold(p) > 0 =>
         /\ counted(p, t) \in counterEntry
         /\ \E win2 \in [1..Len(M) -> 1..Len(M)] :
               Windowed(M, R2, Threshold(p), win2) /\ Counter(M, win2, counted(p, t))
    BY <1>1, CountedStep
<1>8. R2 \in SUBSET Nat
    <2>1. Len(log[p]) + 1 \in Nat /\ reports[p] \in SUBSET Nat
        BY <1>1, <1>2, LogType
    <2> QED BY <2>1
<1> HIDE DEF o, M, R2
<1>9. /\ log' \in [MapKeys -> Seq(Observation)]
      /\ log'[p] = M
      /\ \A q \in MapKeys \ {p} : log'[q] = log[q]
    BY <1>1, <1>2, <1>4, <1>5
<1>10. ASSUME NEW q \in MapKeys
       PROVE  Timed(log'[q], now')
    BY <1>2, <1>4, <1>9 DEF DetectorInv
<1>11. CASE Threshold(p) = 0 /\ counts' = counts /\ reports' = reports
    <2>1. \A q \in MapKeys : Threshold(q) > 0 => log'[q] = log[q]
        BY <1>9, <1>11
    <2> QED BY <1>2, <1>9, <1>10, <1>11, <2>1 DEF DetectorInv
<1>12. CASE /\ Threshold(p) > 0
            /\ counts' = [counts EXCEPT ![p] = counted(p, t)]
            /\ reports' = [reports EXCEPT ![p] = R2]
    <2>1. /\ counts' \in [MapKeys -> counterEntry \cup {None}]
          /\ reports' \in [MapKeys -> SUBSET Nat]
          /\ counts'[p] = counted(p, t) /\ reports'[p] = R2
          /\ \A q \in MapKeys \ {p} : counts'[q] = counts[q] /\ reports'[q] = reports[q]
        BY <1>1, <1>2, <1>7, <1>8, <1>12
    <2>2. Threshold(p) # 0
        BY <1>1, <1>12, ThresholdType
    <2>3. ASSUME NEW q \in MapKeys, Threshold(q) = 0
          PROVE  counts'[q] = None /\ reports'[q] = {}
        BY <2>1, <2>2, <2>3 DEF DetectorInv
    <2>4. ASSUME NEW q \in MapKeys, Threshold(q) > 0
          PROVE  \E win \in [1..Len(log'[q]) -> 1..Len(log'[q])] :
                    Windowed(log'[q], reports'[q], Threshold(q), win)
                    /\ Counter(log'[q], win, counts'[q])
        <3>1. CASE q = p
            BY <1>7, <1>9, <1>12, <2>1, <3>1
        <3>2. CASE q # p
            <4>1. log'[q] = log[q] /\ reports'[q] = reports[q] /\ counts'[q] = counts[q]
                BY <1>9, <2>1, <3>2
            <4> QED BY <2>4, <4>1 DEF DetectorInv
        <3> QED BY <3>1, <3>2
    <2> QED BY <1>2, <1>9, <1>10, <2>1, <2>3, <2>4 DEF DetectorInv
<1>13. QED BY <1>6, <1>11, <1>12

\* The log of every counted key stays in windows, each with its report
\* (detector.observe).
THEOREM DetectorHolds == Spec => []DetectorInv
<1>1. DetectorInv /\ [Next]_dvars => DetectorInv'
    <2> SUFFICES ASSUME DetectorInv, [Next]_dvars PROVE DetectorInv'
        OBVIOUS
    <2>1. CASE Tick
        BY <2>1, TickDetector
    <2>2. CASE \E p \in Observed \X Keys, t \in Readings : Observe(p, t)
        BY <2>2, ObserveDetector
    <2>3. CASE UNCHANGED dvars
        BY <2>3 DEF dvars, DetectorInv
    <2> QED BY <2>1, <2>2, <2>3 DEF Next
<1>2. QED BY <1>1, InitDetector, PTL DEF Spec

\* Counters, log and reports have their types.
THEOREM DetectorTypeCorrect == Spec => []DetectorTypeOK
<1>1. DetectorInv => DetectorTypeOK
    <2> SUFFICES ASSUME DetectorInv, NEW p \in MapKeys
                 PROVE  reports[p] \subseteq DOMAIN log[p]
        BY DEF DetectorInv, DetectorTypeOK
    <2>1. log[p] \in Seq(Observation)
        BY DEF DetectorInv
    <2>2. DOMAIN log[p] = 1..Len(log[p])
        BY <2>1, LogType
    <2>3. CASE Threshold(p) = 0
        BY <2>3 DEF DetectorInv
    <2>4. CASE Threshold(p) > 0
        <3>1. PICK win \in [1..Len(log[p]) -> 1..Len(log[p])] :
                Windowed(log[p], reports[p], Threshold(p), win)
            BY <2>4 DEF DetectorInv
        <3> QED BY <2>2, <3>1 DEF Windowed
    <2> QED BY <2>3, <2>4, ThresholdType
<1>2. QED BY <1>1, DetectorHolds, PTL

\* The windows of a counted key.
LEMMA WindowsOf ==
    ASSUME DetectorInv, NEW p \in MapKeys, Threshold(p) > 0
    PROVE  /\ log[p] \in Seq(Observation)
           /\ Timed(log[p], now)
           /\ \E win \in [1..Len(log[p]) -> 1..Len(log[p])] :
                 Windowed(log[p], reports[p], Threshold(p), win)
BY DEF DetectorInv

\* Only counted kinds are reported, at an event of the log.
LEMMA ReportsCounted ==
    ASSUME DetectorInv, NEW p \in MapKeys, NEW i \in reports[p]
    PROVE  Threshold(p) \in Nat \ {0}
<1>1. Threshold(p) # 0
    BY DEF DetectorInv
<1>2. QED BY <1>1, ThresholdType

\* The window of a reported event opened T - 1 events earlier.
LEMMA ReportWindow ==
    ASSUME NEW L \in Seq(Observation), NEW R, NEW T \in Nat \ {0}, NEW win,
           Windowed(L, R, T, win), NEW i \in R
    PROVE  /\ i \in 1..Len(L) /\ Len(L) \in Nat
           /\ win[i] = i - T + 1
           /\ T \in 1..i
           /\ win[i] \in 1..Len(L)
<1>1. i \in 1..Len(L) /\ Len(L) \in Nat
    BY LogType DEF Windowed
<1>2. win[i] \in 1..Len(L) /\ win[i] <= i /\ i - win[i] + 1 = T
    BY <1>1 DEF Windowed
<1>3. QED BY <1>1, <1>2

\* A report is earned by as many events as the threshold asks for, all of one
\* window but for the age of their readings (detector.observe).
THEOREM ReportsAreEarned == Spec => []ReportEarned
<1>1. DetectorInv => ReportEarned
    <2> SUFFICES ASSUME DetectorInv, NEW p \in MapKeys, NEW i \in reports[p]
                 PROVE  LET T == thresholdFor(kindOf(p)) IN
                        /\ T \in 1..i
                        /\ \A j \in (i - T + 1)..i :
                              log[p][j].reading \in
                                 (opener(p, i).reading - MaxLag)..(opener(p, i).reading + Window)
        BY DEF ReportEarned
    <2> DEFINE L == log[p]
               T == Threshold(p)
    <2>1. T \in Nat \ {0}
        BY ReportsCounted
    <2>2. L \in Seq(Observation) /\ Timed(L, now)
        BY <2>1, WindowsOf
    <2>3. PICK win : Windowed(L, reports[p], T, win)
        BY <2>1, WindowsOf
    <2>4. /\ i \in 1..Len(L) /\ Len(L) \in Nat
          /\ win[i] = i - T + 1
          /\ T \in 1..i
          /\ win[i] \in 1..Len(L)
        <3> HIDE DEF L, T
        <3> QED BY <2>1, <2>2, <2>3, ReportWindow
    <2>5. opener(p, i) = L[win[i]]
        BY <2>4 DEF opener, Threshold
    <2> HIDE DEF L, T
    <2>6. ASSUME NEW j \in win[i]..i
          PROVE  L[j].reading \in (L[win[i]].reading - MaxLag)..(L[win[i]].reading + Window)
        <3> DEFINE w == win[i]
        <3>1. j \in 1..Len(L) /\ w \in 1..Len(L) /\ w <= j
            BY <2>4
        <3>2. win[j] = w
            BY <2>3, <2>4 DEF Windowed
        <3>3. L[j].reading <= L[w].reading + Window
            BY <2>3, <3>1, <3>2 DEF Windowed
        <3>4. L[w].reading <= L[w].at /\ L[w].at <= L[j].at /\ L[j].at <= L[j].reading + MaxLag
            BY <2>2, <3>1 DEF Timed
        <3>5. /\ L[j].reading \in Nat /\ L[w].reading \in Nat
              /\ L[j].at \in Nat /\ L[w].at \in Nat
            BY <2>2, <3>1, LogType
        <3> HIDE DEF w
        <3>6. L[j].reading \in (L[w].reading - MaxLag)..(L[w].reading + Window)
            BY <3>3, <3>4, <3>5, DetectorAssumption
        <3> QED BY <3>6 DEF w
    <2>7. \A j \in (i - T + 1)..i :
             L[j].reading \in (opener(p, i).reading - MaxLag)..(opener(p, i).reading + Window)
        BY <2>4, <2>5, <2>6
    <2> QED BY <2>4, <2>7 DEF L, T, Threshold
<1>2. QED BY <1>1, DetectorHolds, PTL

\* Two reports for a key are of two windows, the second opened after the
\* first had ended: suspected_abuse is raised once per window
\* (detector.observe).
THEOREM OnceEachWindow == Spec => []OneReportPerWindow
<1>1. DetectorInv => OneReportPerWindow
    <2> SUFFICES ASSUME DetectorInv, NEW p \in MapKeys, NEW i \in reports[p], NEW j \in reports[p],
                        i < j
                 PROVE  opener(p, i).reading + Window < opener(p, j).reading
        BY DEF OneReportPerWindow
    <2> DEFINE L == log[p]
               T == Threshold(p)
    <2>1. T \in Nat \ {0}
        BY ReportsCounted
    <2>2. L \in Seq(Observation)
        BY <2>1, WindowsOf
    <2>3. PICK win : Windowed(L, reports[p], T, win)
        BY <2>1, WindowsOf
    <2> HIDE DEF L, T
    <2>4. /\ i \in 1..Len(L) /\ j \in 1..Len(L) /\ Len(L) \in Nat
          /\ win[i] = i - T + 1
          /\ win[j] = j - T + 1
        BY <2>1, <2>2, <2>3, ReportWindow
    <2>5. win[i] # win[j]
        BY <2>1, <2>4
    <2>6. L[win[i]].reading + Window < L[win[j]].reading
        BY <2>3, <2>4, <2>5 DEF Windowed
    <2>7. opener(p, i) = L[win[i]] /\ opener(p, j) = L[win[j]]
        BY <2>4 DEF opener, Threshold, L, T
    <2> QED BY <2>6, <2>7
<1>2. QED BY <1>1, DetectorHolds, PTL

\* A window that has grown to the threshold has its report.
LEMMA FullWindow ==
    ASSUME NEW L \in Seq(Observation), NEW R, NEW T \in Nat \ {0}, NEW win,
           Windowed(L, R, T, win), NEW e \in 1..Len(L), e - win[e] + 1 >= T
    PROVE  /\ win[e] + T - 1 \in R
           /\ win[e] + T - 1 \in win[e]..e
<1> DEFINE w == win[e]
           r == w + T - 1
<1>1. Len(L) \in Nat /\ w \in 1..Len(L) /\ w <= e
    BY LogType DEF Windowed
<1>2. e - w + 1 >= T
    OBVIOUS
<1> HIDE DEF w
<1>3. r \in w..e /\ r \in 1..Len(L) /\ r - w + 1 = T
    BY <1>1, <1>2
<1>4. win[r] = w
    BY <1>3 DEF Windowed, w
<1> HIDE DEF r
<1>5. r \in R
    BY <1>3, <1>4 DEF Windowed
<1>6. QED BY <1>3, <1>5 DEF r, w

\* An event of a window comes at most a window and a reading's age after any
\* event of it that is no earlier than its opener.
LEMMA WindowSpan ==
    ASSUME NEW L \in Seq(Observation), NEW R, NEW T, NEW win, NEW t,
           Windowed(L, R, T, win), Timed(L, t),
           NEW e \in 1..Len(L), NEW i \in win[e]..e, NEW r \in win[e]..e
    PROVE  L[r].at >= L[i].at - Window - MaxLag
<1> DEFINE w == win[e]
<1>1. Len(L) \in Nat /\ w \in 1..Len(L) /\ w <= e
    BY LogType DEF Windowed
<1>2. win[i] = w
    BY DEF Windowed
<1> HIDE DEF w
<1>3. i \in 1..Len(L) /\ r \in 1..Len(L) /\ w <= r
    BY <1>1 DEF w
<1>4. L[i].reading <= L[w].reading + Window
    BY <1>2, <1>3 DEF Windowed
<1>5. L[i].at <= L[i].reading + MaxLag /\ L[w].reading <= L[w].at /\ L[w].at <= L[r].at
    BY <1>1, <1>3 DEF Timed
<1>6. /\ L[i].at \in Nat /\ L[i].reading \in Nat
      /\ L[w].at \in Nat /\ L[w].reading \in Nat
      /\ L[r].at \in Nat
    BY <1>1, <1>3, LogType
<1> DEFINE ia == L[i].at
           ir == L[i].reading
           wa == L[w].at
           wr == L[w].reading
           ra == L[r].at
<1>7. /\ ir <= wr + Window
      /\ ia <= ir + MaxLag /\ wr <= wa /\ wa <= ra
      /\ ia \in Nat /\ ir \in Nat /\ wa \in Nat /\ wr \in Nat /\ ra \in Nat
      /\ Window \in Nat /\ MaxLag \in Nat
    BY <1>4, <1>5, <1>6, DetectorAssumption
<1> HIDE DEF ia, ir, wa, wr, ra
<1>8. ra >= ia - Window - MaxLag
    BY <1>7
<1>9. QED BY <1>8 DEF ia, ra

\* Twice the threshold, less one, within a window's length: the burst meets
\* at most two windows, and one of them is full.
LEMMA Burst ==
    ASSUME NEW L \in Seq(Observation), NEW R, NEW T \in Nat \ {0}, NEW win, NEW t,
           Windowed(L, R, T, win), Timed(L, t),
           NEW i \in 1..Len(L), NEW e \in 1..Len(L), e = i + 2 * T - 2,
           L[e].at - L[i].at <= Window - MaxLag
    PROVE  \E r \in R : r <= e /\ L[r].at >= L[i].at - Window - MaxLag
<1> DEFINE k == win[e]
<1>1. /\ Len(L) \in Nat /\ i <= e
      /\ k \in 1..Len(L) /\ k <= e
    BY LogType DEF Windowed
<1>2. \A j \in 1..Len(L) : L[j].at \in Nat /\ L[j].reading \in Nat
    BY LogType
<1>3. \A j, h \in 1..Len(L) : j <= h => L[j].at <= L[h].at
    BY DEF Timed
<1>4. Window \in Nat /\ MaxLag \in Nat
    BY DetectorAssumption
<1>5. CASE k <= i
    <2>1. e - k + 1 >= T
        BY <1>1, <1>5
    <2>2. k + T - 1 \in R /\ k + T - 1 \in k..e
        BY <2>1, FullWindow
    <2>3. i \in k..e
        BY <1>1, <1>5
    <2>4. L[k + T - 1].at >= L[i].at - Window - MaxLag
        BY <2>2, <2>3, WindowSpan
    <2> QED BY <1>1, <2>2, <2>4
<1>6. CASE k > i /\ e - k + 1 >= T
    <2> DEFINE r == k + T - 1
    <2>1. r \in R /\ r \in k..e
        BY <1>6, FullWindow
    <2>2. r \in 1..Len(L) /\ i <= r /\ r <= e
        BY <1>1, <1>6, <2>1, SMTT(30)
    <2> HIDE DEF r
    <2>3. L[i].at <= L[r].at
        BY <1>3, <2>2
    <2>4. L[r].at >= L[i].at - Window - MaxLag
        <3> DEFINE ia == L[i].at
                   ra == L[r].at
        <3>1. ia \in Nat /\ ra \in Nat /\ ia <= ra
            BY <1>2, <2>2, <2>3
        <3> HIDE DEF ia, ra
        <3>2. ra >= ia - Window - MaxLag
            BY <1>4, <3>1
        <3> QED BY <3>2 DEF ia, ra
    <2> QED BY <2>1, <2>2, <2>4
<1>7. CASE k > i /\ e - k + 1 < T
    <2> DEFINE d == k - 1
               w == win[d]
    <2>1. /\ d \in 1..Len(L) /\ i <= d /\ d < k /\ d <= e
          /\ d - i + 1 >= T
        <3>1. k \in Nat /\ i \in Nat /\ e \in Nat /\ 1 <= i
            BY <1>1
        <3>2. k > i /\ e - k + 1 < T /\ k <= e /\ k <= Len(L) /\ e = i + 2 * T - 2
            BY <1>1, <1>7
        <3> HIDE DEF k
        <3>3. d - i + 1 >= T
            BY <3>1, <3>2
        <3> QED BY <1>1, <3>1, <3>2, <3>3
    <2>2. w \in 1..Len(L) /\ w <= d
        BY <2>1 DEF Windowed
    <2> HIDE DEF d
    <2>3. CASE w <= i
        <3>1. d - w + 1 >= T
            BY <1>1, <2>1, <2>2, <2>3
        <3>2. w + T - 1 \in R /\ w + T - 1 \in w..d
            BY <2>1, <3>1, FullWindow
        <3>3. i \in w..d
            BY <1>1, <2>1, <2>2, <2>3
        <3>4. L[w + T - 1].at >= L[i].at - Window - MaxLag
            BY <2>1, <3>2, <3>3, WindowSpan
        <3>5. w + T - 1 <= e
            BY <1>1, <2>1, <2>2, <3>2
        <3> QED BY <3>2, <3>4, <3>5
    <2>4. CASE w > i
        <3>1. win[k] = k
            <4>1. \A j \in win[e]..e : win[j] = win[e]
                BY DEF Windowed
            <4>2. k \in win[e]..e
                BY <1>1
            <4> QED BY <4>1, <4>2
        <3>2. w # k
            BY <1>1, <2>1, <2>2
        <3> HIDE DEF k
        <3>3. L[w].reading + Window < L[k].reading
            BY <1>1, <2>1, <3>1, <3>2 DEF Windowed
        <3> HIDE DEF w
        <3>4. L[k].reading <= L[k].at /\ L[k].at <= L[e].at
            BY <1>1, <1>3 DEF Timed
        <3>5. L[w].at <= L[w].reading + MaxLag /\ L[i].at <= L[w].at
            BY <1>1, <1>3, <2>2, <2>4 DEF Timed
        <3>6. /\ L[i].at \in Nat /\ L[e].at \in Nat
              /\ L[w].at \in Nat /\ L[w].reading \in Nat
              /\ L[k].at \in Nat /\ L[k].reading \in Nat
            BY <1>1, <1>2, <2>2
        <3> DEFINE ia == L[i].at
                   ea == L[e].at
                   wa == L[w].at
                   wr == L[w].reading
                   ka == L[k].at
                   kr == L[k].reading
        <3>7. /\ wr + Window < kr
              /\ kr <= ka /\ ka <= ea
              /\ wa <= wr + MaxLag /\ ia <= wa
              /\ ea - ia <= Window - MaxLag
              /\ ia \in Nat /\ ea \in Nat /\ wa \in Nat /\ wr \in Nat /\ ka \in Nat /\ kr \in Nat
            BY <3>3, <3>4, <3>5, <3>6
        <3> HIDE DEF ia, ea, wa, wr, ka, kr
        <3> QED BY <1>4, <3>7
    <2> QED BY <1>1, <2>2, <2>3, <2>4
<1>8. QED BY <1>1, <1>5, <1>6, <1>7

\* A burst of twice the threshold, less one, within a window's length is
\* reported although windows do not slide (detector.observe).
THEOREM BurstsAreReported == Spec => []BurstReported
<1>1. DetectorInv => BurstReported
    <2> SUFFICES ASSUME DetectorInv, NEW p \in MapKeys, Threshold(p) > 0,
                        NEW i \in DOMAIN log[p],
                        i + 2 * Threshold(p) - 2 <= Len(log[p]),
                        log[p][i + 2 * Threshold(p) - 2].at - log[p][i].at <= Window - MaxLag
                 PROVE  \E r \in reports[p] :
                           /\ r <= i + 2 * Threshold(p) - 2
                           /\ log[p][r].at >= log[p][i].at - Window - MaxLag
        BY DEF BurstReported, Threshold
    <2> DEFINE L == log[p]
               T == Threshold(p)
               e == i + 2 * T - 2
    <2>1. T \in Nat \ {0}
        BY ThresholdType
    <2>2. L \in Seq(Observation) /\ Timed(L, now)
        BY WindowsOf
    <2>3. PICK win : Windowed(L, reports[p], T, win)
        BY WindowsOf
    <2>4. i \in 1..Len(L) /\ Len(L) \in Nat
        BY <2>2, LogType
    <2>5. e \in 1..Len(L) /\ e = i + 2 * T - 2 /\ L[e].at - L[i].at <= Window - MaxLag
        BY <2>1, <2>4
    <2> HIDE DEF L, T, e
    <2>6. \E r \in reports[p] : r <= e /\ L[r].at >= L[i].at - Window - MaxLag
        BY <2>1, <2>2, <2>3, <2>4, <2>5, Burst
    <2> QED BY <2>6 DEF L, T, e
<1>2. QED BY <1>1, DetectorHolds, PTL
=============================================================================
