--------------------------- MODULE SyncTokenBucket ---------------------------
(***************************************************************************)
(* The rate limiters of a provider (easyopd/methods/ropd/judge/            *)
(* rate_limit.py), one for requests and one for tokens, shared by all its  *)
(* threads.  acquire is a sequence of locked sections with sleeps between  *)
(* them: each section refills the bucket for the time that has passed, and *)
(* takes what it wants, or finds how long to sleep before it tries again.  *)
(* A request for more than the bucket holds takes everything at once,      *)
(* goes into debt for at most one bucket, and sleeps only once.            *)
(*                                                                         *)
(* The lock makes what threads do to the bucket a sequence of sections,    *)
(* here every short sequence: who woke up for which of them does not       *)
(* matter to the bucket.  One token flows in per tick; the code's clock    *)
(* and tokens are floats, whose rounding is left out.                      *)
(***************************************************************************)
EXTENDS Integers, Sequences

CONSTANTS
    BucketSize,    \* max_tokens
    MaxWant,       \* bound: tokens asked for, at least one bucket
    MaxGap,        \* bound: ticks between two sections
    MaxSections    \* bound: sections in a row

ASSUME BucketAssumption ==
    /\ BucketSize \in Nat \ {0} /\ MaxWant \in Nat /\ MaxWant >= BucketSize
    /\ MaxGap \in Nat /\ MaxSections \in Nat \ {0}

Least(x, y) == IF x <= y THEN x ELSE y
Most(x, y) == IF x >= y THEN x ELSE y

\* A section is entered gap ticks after the one before and wants n tokens.
Sections == [gap : 0..MaxGap, want : 1..MaxWant]
Schedules == UNION {[1..k -> Sections] : k \in 1..MaxSections}

\* Mutant: an idle bucket goes on filling.
RefilledWithoutBound(tokens, gap) == tokens + gap

Refilled(tokens, gap) == Least(BucketSize, tokens + gap)

Oversize(n) == n > BucketSize

\* Mutant: the sleep makes up for the debt of others only.
WaitTooShort(tokens, n) == Most(0, -tokens)

Wait(tokens, n) == Most(0, n - tokens)

\* One locked section: the bucket after it, what it took, and the sleep
\* before the caller goes on (took > 0) or tries again (took = 0).
\* forgiven is what an oversize request takes beyond the deepest debt.
Acquire(tokens, n) ==
    IF Oversize(n)
    THEN [tokens |-> Most(-BucketSize, tokens - n), took |-> n, wait |-> Wait(tokens, n),
          forgiven |-> Most(0, n - tokens - BucketSize)]
    ELSE IF tokens >= n
    THEN [tokens |-> tokens - n, took |-> n, wait |-> 0, forgiven |-> 0]
    ELSE [tokens |-> tokens, took |-> 0, wait |-> Wait(tokens, n), forgiven |-> 0]

\* What a section leaves behind, its effects added to the running totals.
After(last, section) ==
    LET a == Acquire(Refilled(last.tokens, section.gap), section.want)
    IN [time |-> last.time + section.gap, tokens |-> a.tokens, took |-> last.took + a.took,
        wait |-> a.wait, forgiven |-> last.forgiven + a.forgiven]

\* A full bucket, and what there is after each section of a schedule.
FullBucket == [time |-> 0, tokens |-> BucketSize, took |-> 0, wait |-> 0, forgiven |-> 0]
History(s) ==
    LET h[k \in 1..Len(s)+1] == IF k = 1 THEN FullBucket ELSE After(h[k-1], s[k-1]) IN h

\* Between section i and the moment the caller of section j goes on, no more
\* passes than a full bucket and what flowed in.  Only where an oversize
\* request is among them may it be more, by what is forgiven.
WindowBounded(h, s, i, j) ==
    h[j+1].took - h[i].took <=
        BucketSize + (h[j+1].time + h[j+1].wait - h[i+1].time)
                   + IF \E k \in i..j : Oversize(s[k].want)
                     THEN h[j+1].forgiven - h[i].forgiven ELSE 0

\* A caller that was told to sleep is not told to sleep again when nobody else
\* came in between.
SleepSuffices(h, s, i) ==
    h[i+1].took = h[i].took => Refilled(h[i+1].tokens, h[i+1].wait) >= s[i].want

\* No sleep is longer than it takes to fill a bucket and what the caller wants,
\* however many are waiting: this is what oversize requests are forgiven for,
\* and why many of them together go out faster than the configured rate.
SleepBounded(h, s, i) == h[i+1].wait <= s[i].want + BucketSize

\* A caller sleeps long enough, and not longer than it takes.
SleepsFit ==
    \A s \in Schedules :
        LET h == History(s) IN
        \A i \in DOMAIN s : SleepSuffices(h, s, i) /\ SleepBounded(h, s, i)

\* No stretch of time lets too much pass.
WindowsFit ==
    \A s \in Schedules :
        LET h == History(s) IN \A j \in DOMAIN s : \A i \in 1..j : WindowBounded(h, s, i, j)

\* Whatever the order in which threads come to acquire and wake: the configured
\* rate is kept in every stretch of time without oversize requests, and with
\* them up to what they are forgiven; and sleeps are long enough and bounded.
SchedulesKeepRate == SleepsFit /\ WindowsFit
=============================================================================
