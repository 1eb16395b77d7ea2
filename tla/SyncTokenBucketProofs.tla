------------------------ MODULE SyncTokenBucketProofs ------------------------
(***************************************************************************)
(* Proofs about SyncTokenBucket, for a bucket of any size, any wants and   *)
(* gaps, and any number of sections: the configured rate is kept in every  *)
(* stretch of time.  Induction over the sections of a schedule is by the   *)
(* first one at which something goes wrong.                                *)
(***************************************************************************)
EXTENDS SyncTokenBucket, InductionFacts, TLAPS

-----------------------------------------------------------------------------
(* The history of a schedule, section by section.                          *)

States == [time : Nat, tokens : -BucketSize..BucketSize, took : Nat, wait : Nat, forgiven : Nat]

Moments(s) == 1..Len(s)+1
Follows(s, h) ==
    h = [k \in Moments(s) |-> IF k = 1 THEN FullBucket ELSE After(h[k-1], s[k-1])]

\* Up to every section there is a history.
LEMMA HistoryExists ==
    ASSUME NEW n \in Nat, NEW s
    PROVE  \E h : h = [k \in 1..n+1 |-> IF k = 1 THEN FullBucket ELSE After(h[k-1], s[k-1])]
<1> DEFINE Upto(m, h) ==
               h = [k \in 1..m+1 |-> IF k = 1 THEN FullBucket ELSE After(h[k-1], s[k-1])]
           B == {m \in Nat : ~\E h : Upto(m, h)}
<1> SUFFICES ASSUME B # {} PROVE FALSE
  BY Zenon
<1>1. PICK m \in B : \A k \in B : m <= k
  <2> HIDE DEF B
  <2>1. B \in SUBSET Nat
    BY DEF B
  <2> QED
    BY <2>1, FirstOne
<1>2. m \in Nat /\ ~\E h : Upto(m, h)
  OBVIOUS
<1>3. m # 0
  <2> DEFINE h == [k \in 1..1 |-> FullBucket]
  <2>1. Upto(0, h)
    OBVIOUS
  <2> HIDE DEF Upto
  <2> QED
    BY <1>2, <2>1
<1>4. PICK g : Upto(m-1, g)
  <2>1. m-1 \in Nat /\ ~(m <= m-1)
    BY <1>2, <1>3
  <2>2. m-1 \notin B
    <3> HIDE DEF B
    <3> QED
      BY <1>1, <2>1
  <2> HIDE DEF Upto
  <2> QED
    BY <2>1, <2>2 DEF B
<1> HIDE DEF B
<1> DEFINE h == [k \in 1..m+1 |-> IF k = m+1 THEN After(g[m], s[m]) ELSE g[k]]
<1>5. ASSUME NEW k \in 1..m+1
      PROVE  h[k] = IF k = 1 THEN FullBucket ELSE After(h[k-1], s[k-1])
  <2>1. CASE k = m+1
    <3>1. h[k] = After(g[m], s[m]) /\ k # 1 /\ k-1 = m /\ m \in 1..m+1 /\ m # m+1
      BY <1>2, <1>3, <2>1
    <3>2. h[m] = g[m]
      BY <3>1
    <3> HIDE DEF h
    <3> QED
      BY <3>1, <3>2
  <2>2. CASE k # m+1
    <3>1. k \in 1..(m-1)+1 /\ h[k] = g[k]
      BY <1>2, <1>3, <2>2
    <3>2. g[k] = IF k = 1 THEN FullBucket ELSE After(g[k-1], s[k-1])
      BY <1>4, <3>1
    <3>3. k # 1 => h[k-1] = g[k-1]
      BY <1>2, <3>1
    <3> HIDE DEF h
    <3> QED
      BY <3>1, <3>2, <3>3
  <2> QED
    BY <2>1, <2>2
<1>6. Upto(m, h)
  <2>1. h = [k \in 1..m+1 |-> h[k]]
    OBVIOUS
  <2> HIDE DEF h
  <2> QED
    BY <1>5, <2>1
<1> QED
  <2> HIDE DEF h, Upto
  <2> QED
    BY <1>2, <1>6

\* A history starts with a full bucket, and each moment comes from the last.
LEMMA HistoryFollows ==
    ASSUME NEW s \in Schedules
    PROVE  /\ Len(s) \in Nat
           /\ Follows(s, History(s))
<1>1. Len(s) \in Nat
  BY BucketAssumption DEF Schedules
<1>2. \E h : Follows(s, h)
  BY <1>1, HistoryExists DEF Follows, Moments
<1>3. History(s) = CHOOSE h : Follows(s, h)
  BY DEF History, Follows, Moments
<1> QED
  BY <1>1, <1>2, <1>3
-----------------------------------------------------------------------------
(* One section.                                                            *)

\* A section settles its books: the bucket is down by what was taken, up by what
\* flowed in and fitted, and by what was forgiven.  The sleep it asks for makes
\* up for the debt, and one that took nothing for all it wants.
LEMMA OneSection ==
    ASSUME NEW x \in States, NEW c \in Sections
    PROVE  LET y == After(x, c) IN
           /\ y \in States
           /\ y.time = x.time + c.gap
           /\ y.tokens - Refilled(x.tokens, c.gap) = (y.forgiven - x.forgiven) - (y.took - x.took)
           /\ y.took >= x.took
           /\ -y.tokens <= y.wait
           /\ y.wait <= c.want + BucketSize
           /\ y.took = x.took => Refilled(y.tokens, y.wait) = c.want
           /\ ~Oversize(c.want) => y.forgiven = x.forgiven
<1> DEFINE B == BucketSize
           gap == c.gap
           n == c.want
           t == Refilled(x.tokens, gap)
           a == Acquire(t, n)
<1>1. /\ B \in Nat /\ B > 0 /\ gap \in Nat /\ n \in Nat /\ n > 0
      /\ x.time \in Nat /\ x.tokens \in -B..B /\ x.took \in Nat /\ x.forgiven \in Nat
  BY BucketAssumption DEF States, Sections
<1>2. t \in -B..B
  BY <1>1 DEF Refilled, Least
<1> HIDE DEF n, gap
<1>3. /\ a.tokens \in -B..B /\ a.took \in Nat /\ a.wait \in Nat /\ a.forgiven \in Nat
      /\ a.tokens - t = a.forgiven - a.took
      /\ -a.tokens <= a.wait
      /\ a.wait <= n + B
      /\ ~Oversize(n) => a.forgiven = 0
      /\ a.took = 0 => Refilled(a.tokens, a.wait) = n
  <2> HIDE DEF t
  <2>1. CASE Oversize(n)
    <3>1. a = [tokens |-> Most(-B, t - n), took |-> n, wait |-> Wait(t, n),
               forgiven |-> Most(0, n - t - B)]
      BY <2>1 DEF Acquire
    <3>2. /\ a.tokens = Most(-B, t - n) /\ a.took = n /\ a.wait = Wait(t, n)
          /\ a.forgiven = Most(0, n - t - B)
      BY <3>1
    <3> HIDE DEF a
    <3> QED
      BY <1>1, <1>2, <2>1, <3>2 DEF Oversize, Most, Wait
  <2>2. CASE ~Oversize(n) /\ t >= n
    <3>1. a = [tokens |-> t - n, took |-> n, wait |-> 0, forgiven |-> 0]
      BY <2>2 DEF Acquire
    <3>2. a.tokens = t - n /\ a.took = n /\ a.wait = 0 /\ a.forgiven = 0
      BY <3>1
    <3> HIDE DEF a
    <3> QED
      BY <1>1, <1>2, <2>2, <3>2
  <2>3. CASE ~Oversize(n) /\ ~(t >= n)
    <3>1. a = [tokens |-> t, took |-> 0, wait |-> Wait(t, n), forgiven |-> 0]
      BY <2>3 DEF Acquire
    <3>2. a.tokens = t /\ a.took = 0 /\ a.wait = Wait(t, n) /\ a.forgiven = 0
      BY <3>1
    <3> HIDE DEF a
    <3> QED
      BY <1>1, <1>2, <2>3, <3>2 DEF Oversize, Most, Wait, Refilled, Least
  <2> QED
    BY <2>1, <2>2, <2>3
<1> DEFINE y == After(x, c)
<1>4. y = [time |-> x.time + gap, tokens |-> a.tokens, took |-> x.took + a.took,
           wait |-> a.wait, forgiven |-> x.forgiven + a.forgiven]
  BY DEF After, gap, n
<1> HIDE DEF a, t
<1>5. /\ y.time = x.time + gap /\ y.tokens = a.tokens /\ y.took = x.took + a.took
      /\ y.wait = a.wait /\ y.forgiven = x.forgiven + a.forgiven
  BY <1>4
<1>6. y \in States
  <2>1. x.time + gap \in Nat /\ x.took + a.took \in Nat /\ x.forgiven + a.forgiven \in Nat
    BY <1>1, <1>3
  <2> QED
    BY <1>3, <1>4, <2>1 DEF States
<1> HIDE DEF y
<1>7. /\ y.tokens - t = (y.forgiven - x.forgiven) - (y.took - x.took)
      /\ y.took >= x.took
      /\ -y.tokens <= y.wait
      /\ y.wait <= n + B
      /\ ~Oversize(n) => y.forgiven = x.forgiven
      /\ y.took = x.took => Refilled(y.tokens, y.wait) = n
  BY <1>1, <1>2, <1>3, <1>5
<1> QED
  BY <1>5, <1>6, <1>7 DEF y, t, n, gap
-----------------------------------------------------------------------------
(* A whole schedule.                                                       *)

\* Every moment of a history is a state of the bucket.
LEMMA HistoryStates ==
    ASSUME NEW s \in Schedules
    PROVE  LET h == History(s) IN
           /\ \A k \in DOMAIN s : h[k+1] = After(h[k], s[k]) /\ s[k] \in Sections
           /\ \A k \in Moments(s) : h[k] \in States
<1> DEFINE h == History(s)
           B == {k \in Moments(s) : h[k] \notin States}
<1>1. Len(s) \in Nat /\ DOMAIN s = 1..Len(s) /\ \A k \in DOMAIN s : s[k] \in Sections
  BY BucketAssumption DEF Schedules
<1>2. Follows(s, h)
  BY HistoryFollows
<1> HIDE DEF h
<1>3. h[1] = FullBucket
  BY <1>1, <1>2 DEF Follows, Moments
<1>4. ASSUME NEW k \in DOMAIN s
      PROVE  h[k+1] = After(h[k], s[k])
  <2>1. k \in Nat /\ k+1 \in Moments(s) /\ k+1 # 1 /\ (k+1)-1 = k
    BY <1>1 DEF Moments
  <2> QED
    BY <1>2, <2>1 DEF Follows
<1>5. FullBucket \in States
  BY BucketAssumption DEF FullBucket, States
<1>6. B = {}
  <2> SUFFICES ASSUME B # {} PROVE FALSE
    OBVIOUS
  <2>1. PICK m \in B : \A k \in B : m <= k
    <3>1. B \in SUBSET Nat
      BY <1>1 DEF Moments
    <3> HIDE DEF B
    <3> QED
      BY <3>1, FirstOne
  <2>2. m \in Moments(s) /\ m # 1
    BY <1>3, <1>5
  <2>3. m-1 \in DOMAIN s /\ m-1 \in Moments(s) /\ (m-1)+1 = m /\ ~(m <= m-1)
    BY <1>1, <2>2 DEF Moments
  <2>4. h[m-1] \in States
    <3>1. m-1 \notin B
      <4> HIDE DEF B
      <4> QED
        BY <2>1, <2>3
    <3> QED
      BY <2>3, <3>1
  <2>5. h[m] = After(h[m-1], s[m-1]) /\ s[m-1] \in Sections
    BY <1>1, <1>4, <2>3
  <2>6. h[m] \in States
    BY <2>4, <2>5, OneSection
  <2> QED
    BY <2>6
<1> QED
  BY <1>1, <1>4, <1>6 DEF h

\* A bucket never holds more than it did, and what has flowed in and has been
\* forgiven since, less what was taken.
LEMMA BucketBalance ==
    ASSUME NEW s \in Schedules, NEW i \in Moments(s), NEW j \in Moments(s), i <= j
    PROVE  LET h == History(s) IN
           h[j].tokens - h[i].tokens <=
               (h[j].time - h[i].time) + (h[j].forgiven - h[i].forgiven) - (h[j].took - h[i].took)
<1> DEFINE h == History(s)
           P(k) == h[k].tokens - h[i].tokens <=
                       (h[k].time - h[i].time) + (h[k].forgiven - h[i].forgiven)
                           - (h[k].took - h[i].took)
           B == {k \in Moments(s) : i <= k /\ ~P(k)}
<1>1. Len(s) \in Nat /\ DOMAIN s = 1..Len(s)
  BY BucketAssumption DEF Schedules
<1>2. /\ \A k \in DOMAIN s : h[k+1] = After(h[k], s[k]) /\ s[k] \in Sections
      /\ \A k \in Moments(s) : h[k] \in States
  BY HistoryStates
<1> HIDE DEF h
<1>3. \A x \in States : /\ x.time \in Nat /\ x.tokens \in Int /\ x.took \in Nat
                        /\ x.wait \in Nat /\ x.forgiven \in Nat
  BY BucketAssumption DEF States
<1>4. B = {}
  <2> SUFFICES ASSUME B # {} PROVE FALSE
    OBVIOUS
  <2>1. PICK m \in B : \A k \in B : m <= k
    <3>1. B \in SUBSET Nat
      BY <1>1 DEF Moments
    <3> HIDE DEF B
    <3> QED
      BY <3>1, FirstOne
  <2>2. m \in Moments(s) /\ i <= m /\ ~P(m)
    OBVIOUS
  <2>3. m # i
    <3>1. P(i)
      BY <1>2, <1>3
    <3> HIDE DEF P, B
    <3> QED
      BY <2>2, <3>1
  <2>4. /\ m-1 \in DOMAIN s /\ m-1 \in Moments(s) /\ (m-1)+1 = m /\ ~(m <= m-1) /\ i <= m-1
    BY <1>1, <2>2, <2>3 DEF Moments
  <2>5. P(m-1)
    <3>1. m-1 \notin B
      <4> HIDE DEF B
      <4> QED
        BY <2>1, <2>4
    <3> HIDE DEF P
    <3> QED
      BY <2>4, <3>1
  <2> DEFINE x == h[m-1]
             y == h[m]
             c == s[m-1]
  <2>6. x \in States /\ c \in Sections /\ y = After(x, c)
    BY <1>2, <2>4
  <2> HIDE DEF B, x, y, c
  <2>7. /\ y \in States
        /\ y.time = x.time + c.gap
        /\ y.tokens - Refilled(x.tokens, c.gap) = (y.forgiven - x.forgiven) - (y.took - x.took)
    BY <2>6, OneSection
  <2>8. Refilled(x.tokens, c.gap) <= x.tokens + c.gap /\ Refilled(x.tokens, c.gap) \in Int
        /\ c.gap \in Nat
    BY <1>3, <2>6, BucketAssumption DEF Refilled, Least, Sections
  <2>9. h[i] \in States
    BY <1>2
  <2>10. /\ x.tokens - h[i].tokens <=
                (x.time - h[i].time) + (x.forgiven - h[i].forgiven) - (x.took - h[i].took)
         /\ ~(y.tokens - h[i].tokens <=
                (y.time - h[i].time) + (y.forgiven - h[i].forgiven) - (y.took - h[i].took))
    BY <2>2, <2>5 DEF x, y
  <2> HIDE DEF P
  <2> QED
    BY <1>3, <2>6, <2>7, <2>8, <2>9, <2>10
<1>5. P(j)
  BY <1>4
<1> QED
  BY <1>5 DEF h

\* Nothing is forgiven while no oversize request comes.
LEMMA NothingForgiven ==
    ASSUME NEW s \in Schedules, NEW i \in Moments(s), NEW j \in Moments(s), i <= j,
           \A k \in i..j-1 : ~Oversize(s[k].want)
    PROVE  History(s)[j].forgiven = History(s)[i].forgiven
<1> DEFINE h == History(s)
           B == {k \in Moments(s) : i <= k /\ k <= j /\ h[k].forgiven # h[i].forgiven}
<1>1. Len(s) \in Nat /\ DOMAIN s = 1..Len(s)
  BY BucketAssumption DEF Schedules
<1>2. /\ \A k \in DOMAIN s : h[k+1] = After(h[k], s[k]) /\ s[k] \in Sections
      /\ \A k \in Moments(s) : h[k] \in States
  BY HistoryStates
<1> HIDE DEF h
<1>3. B = {}
  <2> SUFFICES ASSUME B # {} PROVE FALSE
    OBVIOUS
  <2>1. PICK m \in B : \A k \in B : m <= k
    <3>1. B \in SUBSET Nat
      BY <1>1 DEF Moments
    <3> HIDE DEF B
    <3> QED
      BY <3>1, FirstOne
  <2>2. m \in Moments(s) /\ i <= m /\ m <= j /\ m # i /\ h[m].forgiven # h[i].forgiven
    OBVIOUS
  <2>3. /\ m-1 \in DOMAIN s /\ m-1 \in Moments(s) /\ (m-1)+1 = m /\ ~(m <= m-1)
        /\ i <= m-1 /\ m-1 <= j /\ m-1 \in i..j-1
    BY <1>1, <2>2 DEF Moments
  <2>4. h[m-1].forgiven = h[i].forgiven
    <3>1. m-1 \notin B
      <4> HIDE DEF B
      <4> QED
        BY <2>1, <2>3
    <3> QED
      BY <2>3, <3>1
  <2>5. h[m] = After(h[m-1], s[m-1]) /\ s[m-1] \in Sections /\ h[m-1] \in States
    BY <1>2, <2>3
  <2>6. h[m].forgiven = h[m-1].forgiven
    BY <2>3, <2>5, OneSection
  <2> QED
    BY <2>2, <2>4, <2>6
<1>4. h[j].forgiven = h[i].forgiven
  <2>1. j <= j
    BY <1>1 DEF Moments
  <2> QED
    BY <1>3, <2>1
<1> QED
  BY <1>4 DEF h

\* The argument of the theorem below, for one schedule and section at a time.
LEMMA SchedulesFit == SleepsFit /\ WindowsFit
<1> SUFFICES ASSUME NEW s \in Schedules, NEW j \in DOMAIN s
             PROVE  /\ SleepSuffices(History(s), s, j)
                    /\ SleepBounded(History(s), s, j)
                    /\ \A i \in 1..j : WindowBounded(History(s), s, i, j)
  BY DEF SleepsFit, WindowsFit
<1> DEFINE h == History(s)
<1>1. Len(s) \in Nat /\ DOMAIN s = 1..Len(s)
  BY BucketAssumption DEF Schedules
<1>2. /\ \A k \in DOMAIN s : h[k+1] = After(h[k], s[k]) /\ s[k] \in Sections
      /\ \A k \in Moments(s) : h[k] \in States
  BY HistoryStates
<1>3. \A k \in DOMAIN s : k \in Moments(s) /\ k+1 \in Moments(s)
  BY <1>1 DEF Moments
<1>4. \A x \in States : /\ x.time \in Nat /\ x.tokens \in Int /\ x.took \in Nat
                        /\ x.wait \in Nat /\ x.forgiven \in Nat
  BY BucketAssumption DEF States
<1>5. SleepSuffices(h, s, j) /\ SleepBounded(h, s, j)
  <2> HIDE DEF h
  <2>1. h[j] \in States /\ s[j] \in Sections /\ h[j+1] = After(h[j], s[j])
    BY <1>2, <1>3
  <2>2. /\ h[j+1].took = h[j].took => Refilled(h[j+1].tokens, h[j+1].wait) = s[j].want
        /\ h[j+1].wait <= s[j].want + BucketSize
    BY <2>1, OneSection
  <2>3. s[j].want \in Nat
    BY <2>1, BucketAssumption DEF Sections
  <2> QED
    BY <2>2, <2>3 DEF SleepSuffices, SleepBounded
<1>6. ASSUME NEW i \in 1..j
      PROVE  WindowBounded(h, s, i, j)
  <2>1. i \in DOMAIN s /\ i+1 <= j+1
    BY <1>1
  <2>2. h[j+1].tokens - h[i+1].tokens <=
            (h[j+1].time - h[i+1].time) + (h[j+1].forgiven - h[i+1].forgiven)
                - (h[j+1].took - h[i+1].took)
    <3>1. i+1 \in Moments(s) /\ j+1 \in Moments(s)
      BY <1>3, <2>1
    <3> QED
      BY <2>1, <3>1, BucketBalance
  <2>9. (\A k \in i..j : ~Oversize(s[k].want)) => h[j+1].forgiven = h[i].forgiven
    <3>1. i \in Moments(s) /\ j+1 \in Moments(s) /\ i <= j+1 /\ (j+1)-1 = j
      BY <1>1, <1>3, <2>1
    <3> QED
      BY <3>1, NothingForgiven
  <2> HIDE DEF h
  <2> DEFINE x == h[i]
             y == h[i+1]
             z == h[j+1]
             w == h[j]
  <2>3. /\ x \in States /\ s[i] \in Sections /\ y = After(x, s[i])
        /\ w \in States /\ s[j] \in Sections /\ z = After(w, s[j])
        /\ y \in States /\ z \in States
    BY <1>2, <1>3, <2>1
  <2> HIDE DEF x, y, z, w
  <2>4. /\ y.tokens - Refilled(x.tokens, s[i].gap)
              = (y.forgiven - x.forgiven) - (y.took - x.took)
        /\ -z.tokens <= z.wait
    BY <2>3, OneSection
  <2>5. /\ Refilled(x.tokens, s[i].gap) <= BucketSize /\ Refilled(x.tokens, s[i].gap) \in Int
        /\ BucketSize \in Nat
    <3>1. x.tokens \in Int /\ s[i].gap \in Nat /\ BucketSize \in Nat
      BY <1>4, <2>3, BucketAssumption DEF Sections
    <3> QED
      BY <3>1 DEF Refilled, Least
  <2>6. z.tokens - y.tokens <= (z.time - y.time) + (z.forgiven - y.forgiven) - (z.took - y.took)
    BY <2>2 DEF y, z
  <2>7. /\ x.took \in Nat /\ x.forgiven \in Nat
        /\ y.tokens \in Int /\ y.time \in Nat /\ y.took \in Nat /\ y.forgiven \in Nat
        /\ z.tokens \in Int /\ z.time \in Nat /\ z.took \in Nat /\ z.forgiven \in Nat
        /\ z.wait \in Nat
    BY <1>4, <2>3
  <2>8. z.took - x.took <= BucketSize + (z.time + z.wait - y.time) + (z.forgiven - x.forgiven)
    BY <2>4, <2>5, <2>6, <2>7
  <2>10. (\A k \in i..j : ~Oversize(s[k].want)) => z.forgiven - x.forgiven = 0
    BY <2>7, <2>9 DEF x, z
  <2> HIDE DEF Oversize
  <2>11. CASE \E k \in i..j : Oversize(s[k].want)
    BY <2>8, <2>11 DEF WindowBounded, x, y, z
  <2>12. CASE ~\E k \in i..j : Oversize(s[k].want)
    <3>1. z.took - x.took <= BucketSize + (z.time + z.wait - y.time) + 0
      BY <2>5, <2>7, <2>8, <2>10, <2>12
    <3> QED
      BY <2>12, <3>1 DEF WindowBounded, x, y, z
  <2> QED
    BY <2>11, <2>12
<1> QED
  BY <1>5, <1>6

\* In every stretch of time, from one caller's section to the moment another
\* goes on, no more passes than a full bucket and what flows in, but for what
\* oversize requests among them are forgiven; no caller is told to sleep too
\* little, and none for longer than its wants and a bucket take.
THEOREM TheRateIsKept == SchedulesKeepRate
  BY SchedulesFit DEF SchedulesKeepRate
=============================================================================
