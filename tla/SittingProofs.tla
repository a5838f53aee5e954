---------------------------- MODULE SittingProofs ----------------------------
(***************************************************************************)
(* Proofs about Sitting, for every number of requests in flight, sittings, *)
(* moments and limits.                                                     *)
(***************************************************************************)
EXTENDS Sitting, SequenceTheorems, FiniteSetTheorems, WellFoundedInduction, TLAPS

-----------------------------------------------------------------------------
(* What a sum of spans comes to.  *)

\* A property that fails at some number fails at a first one.
LEMMA FirstFailure ==
    ASSUME NEW S \in SUBSET Nat, S # {}
    PROVE  \E x \in S : \A y \in S : x <= y
  <1>1. \E x \in S : \A y \in S : ~ (<<y, x>> \in OpToRel(<, Nat))
    BY NatLessThanWellFounded, WFMin
  <1>2. PICK x \in S : \A y \in S : ~ (<<y, x>> \in OpToRel(<, Nat))
    BY <1>1
  <1>3. ASSUME NEW y \in S
        PROVE  x <= y
    <2>1. x \in Nat /\ y \in Nat
      OBVIOUS
    <2>2. ~ (y < x)
      BY <1>2, <2>1 DEF OpToRel
    <2> QED
      BY <2>1, <2>2
  <1> QED
    BY <1>2, <1>3

\* The partial sums of some spans, which Total takes the last of.
Sums(spans, n, sum) ==
    sum = [k \in 0..n |-> IF k = 0 THEN 0 ELSE sum[k - 1] + spans[k]]

LEMMA SumsExist ==
    ASSUME NEW spans, NEW n \in Nat, \A k \in 1..n : spans[k] \in Int
    PROVE  \E sum \in [0..n -> Int] : Sums(spans, n, sum)
  <1> DEFINE Bad == {m \in 0..n : ~ \E sum \in [0..m -> Int] : Sums(spans, m, sum)}
  <1>1. SUFFICES ASSUME Bad # {} PROVE FALSE
    OBVIOUS
  <1>2. PICK m \in Bad : \A y \in Bad : m <= y
    <2>1. Bad \in SUBSET Nat
      OBVIOUS
    <2> HIDE DEF Bad
    <2> QED
      BY <1>1, <2>1, FirstFailure
  <1>3. m \in 0..n /\ ~ \E sum \in [0..m -> Int] : Sums(spans, m, sum)
    OBVIOUS
  <1>4. m # 0
    <2>1. SUFFICES ASSUME m = 0 PROVE FALSE
      OBVIOUS
    <2> DEFINE none == [k \in 0..0 |-> 0]
    <2>2. none \in [0..0 -> Int] /\ Sums(spans, 0, none)
      BY DEF Sums
    <2> QED
      BY <1>3, <2>1, <2>2
  <1>5. m - 1 \in 0..n /\ m - 1 \notin Bad
    BY <1>2, <1>3, <1>4
  <1>6. PICK sum \in [0..m - 1 -> Int] : Sums(spans, m - 1, sum)
    BY <1>5
  <1> DEFINE more == [k \in 0..m |-> IF k = m THEN sum[m - 1] + spans[m] ELSE sum[k]]
  <1>7. spans[m] \in Int /\ m - 1 \in 0..m - 1
    BY <1>3, <1>4
  <1>8. more \in [0..m -> Int]
    BY <1>3, <1>7
  <1>9. ASSUME NEW k \in 0..m
        PROVE  more[k] = IF k = 0 THEN 0 ELSE more[k - 1] + spans[k]
    <2>1. CASE k = m
      BY <1>3, <1>4, <2>1
    <2>2. CASE k # m
      <3>1. k \in 0..m - 1 /\ more[k] = sum[k]
        BY <1>3, <2>2
      <3>2. sum[k] = IF k = 0 THEN 0 ELSE sum[k - 1] + spans[k]
        BY <1>6, <3>1 DEF Sums
      <3>3. k # 0 => k - 1 \in 0..m /\ k - 1 # m
        BY <1>3, <3>1
      <3> QED
        BY <3>1, <3>2, <3>3
    <2> QED
      BY <2>1, <2>2
  <1>10. Sums(spans, m, more)
    BY <1>9 DEF Sums
  <1> QED
    BY <1>3, <1>8, <1>10

\* Two lists of partial sums of the same spans agree.
Adds(spans, n, sum) ==
    \A k \in 0..n : sum[k] = IF k = 0 THEN 0 ELSE sum[k - 1] + spans[k]

LEMMA SumsAgree ==
    ASSUME NEW spans, NEW n \in Nat, NEW s, Adds(spans, n, s), NEW t, Adds(spans, n, t)
    PROVE  \A k \in 0..n : s[k] = t[k]
  <1> DEFINE Bad == {k \in 0..n : s[k] # t[k]}
  <1>1. SUFFICES ASSUME Bad # {} PROVE FALSE
    OBVIOUS
  <1>2. PICK k \in Bad : \A y \in Bad : k <= y
    <2>1. Bad \in SUBSET Nat
      OBVIOUS
    <2> HIDE DEF Bad
    <2> QED
      BY <1>1, <2>1, FirstFailure
  <1>3. k \in 0..n /\ s[k] # t[k]
    OBVIOUS
  <1>4. /\ s[k] = IF k = 0 THEN 0 ELSE s[k - 1] + spans[k]
        /\ t[k] = IF k = 0 THEN 0 ELSE t[k - 1] + spans[k]
    BY <1>3 DEF Adds
  <1>5. k # 0
    BY <1>3, <1>4
  <1>6. k - 1 \in 0..n /\ k - 1 \notin Bad
    BY <1>2, <1>3, <1>5
  <1>7. s[k - 1] = t[k - 1]
    BY <1>6
  <1> QED
    BY <1>3, <1>4, <1>5, <1>7

\* Some partial sums are the ones Total takes the last of.
LEMMA TotalIsASum ==
    ASSUME NEW spans \in Seq(Int)
    PROVE  \E sum : /\ sum \in [0..Len(spans) -> Int]
                    /\ Adds(spans, Len(spans), sum)
                    /\ Total(spans) = sum[Len(spans)]
  <1> DEFINE n == Len(spans)
  <1> DEFINE all == CHOOSE sum : Sums(spans, n, sum)
  <1>1. n \in Nat /\ \A k \in 1..n : spans[k] \in Int
    OBVIOUS
  <1>2. Total(spans) = all[n]
    BY DEF Total, Sums
  <1> HIDE DEF n
  <1>3. PICK sum \in [0..n -> Int] : Sums(spans, n, sum)
    BY <1>1, SumsExist
  <1>4. Sums(spans, n, all)
    BY <1>3
  <1> HIDE DEF all
  <1>5. Adds(spans, n, sum)
    BY <1>3 DEF Sums, Adds
  <1>6. Adds(spans, n, all)
    BY <1>4 DEF Sums, Adds
  <1>7. \A k \in 0..n : all[k] = sum[k]
    BY <1>1, <1>5, <1>6, SumsAgree
  <1>8. n \in 0..n
    BY <1>1
  <1> QED
    BY <1>2, <1>3, <1>5, <1>7, <1>8 DEF n

\* One more span adds what it spans.
LEMMA TotalOfOneMore ==
    ASSUME NEW g \in Seq(Int), NEW h \in Seq(Int), Len(h) = Len(g) + 1,
           \A k \in 1..Len(g) : g[k] = h[k]
    PROVE  Total(h) = Total(g) + h[Len(h)]
  <1> DEFINE n == Len(g)
  <1>1. n \in Nat /\ Len(h) = n + 1 /\ n + 1 \in Nat /\ \A k \in 1..n : g[k] = h[k]
    OBVIOUS
  <1>2. PICK s : s \in [0..n -> Int] /\ Adds(g, n, s) /\ Total(g) = s[n]
    BY TotalIsASum
  <1>3. PICK t : t \in [0..n + 1 -> Int] /\ Adds(h, n + 1, t) /\ Total(h) = t[n + 1]
    BY <1>1, TotalIsASum
  <1> HIDE DEF n
  <1>4. Adds(h, n, s) /\ Adds(h, n, t)
    <2>1. ASSUME NEW k \in 0..n
          PROVE  /\ s[k] = IF k = 0 THEN 0 ELSE s[k - 1] + h[k]
                 /\ t[k] = IF k = 0 THEN 0 ELSE t[k - 1] + h[k]
      <3>1. k \in 0..n + 1 /\ (k # 0 => k \in 1..n)
        BY <1>1
      <3>2. t[k] = IF k = 0 THEN 0 ELSE t[k - 1] + h[k]
        BY <1>3, <3>1 DEF Adds
      <3>3. s[k] = IF k = 0 THEN 0 ELSE s[k - 1] + g[k]
        BY <1>2 DEF Adds
      <3>4. k # 0 => g[k] = h[k]
        BY <1>1, <3>1
      <3> QED
        BY <3>2, <3>3, <3>4
    <2> QED
      BY <2>1 DEF Adds
  <1>5. \A k \in 0..n : s[k] = t[k]
    <2>1. n \in Nat
      BY <1>1
    <2>2. Adds(h, n, s) /\ Adds(h, n, t) => \A k \in 0..n : s[k] = t[k]
      BY ONLY <2>1, SumsAgree
    <2> QED
      BY <1>4, <2>2
  <1>6. s[n] = t[n]
    BY <1>1, <1>5
  <1>7. t[n + 1] = t[n] + h[n + 1]
    <2>1. n + 1 \in 0..n + 1 /\ n + 1 # 0 /\ (n + 1) - 1 = n
      BY <1>1
    <2> QED
      BY <1>3, <2>1 DEF Adds
  <1> QED
    BY <1>1, <1>2, <1>3, <1>6, <1>7

LEMMA TotalOfNone ==
    ASSUME NEW g \in Seq(Int), Len(g) = 0
    PROVE  Total(g) = 0
  <1>1. PICK s : s \in [0..0 -> Int] /\ Adds(g, 0, s) /\ Total(g) = s[0]
    BY TotalIsASum
  <1> QED
    BY <1>1 DEF Adds

LEMMA TotalIsAnInteger ==
    ASSUME NEW g \in Seq(Int)
    PROVE  Total(g) \in Int
  BY TotalIsASum

\* Spans that end before the next begins come to no more than the time from the
\* first edge to the last.
LEMMA TotalIsCovered ==
    ASSUME NEW g \in Seq(Int), NEW edge \in [0..Len(g) -> Int],
           \A k \in 1..Len(g) : g[k] <= edge[k] - edge[k - 1]
    PROVE  Total(g) <= edge[Len(g)] - edge[0]
  <1> DEFINE n == Len(g)
  <1>1. PICK s : s \in [0..n -> Int] /\ Adds(g, n, s) /\ Total(g) = s[n]
    BY TotalIsASum
  <1>2. n \in Nat /\ n \in 0..n /\ \A k \in 1..n : g[k] \in Int
    OBVIOUS
  <1>3. \A k \in 1..n : g[k] <= edge[k] - edge[k - 1]
    OBVIOUS
  <1>4. edge \in [0..n -> Int]
    OBVIOUS
  <1> HIDE DEF n
  <1> DEFINE Bad == {k \in 0..n : ~ (s[k] <= edge[k] - edge[0])}
  <1>5. Bad = {}
    <2>1. SUFFICES ASSUME Bad # {} PROVE FALSE
      OBVIOUS
    <2>2. PICK k \in Bad : \A y \in Bad : k <= y
      <3>1. Bad \in SUBSET Nat
        BY <1>2
      <3> HIDE DEF Bad
      <3> QED
        BY <2>1, <3>1, FirstFailure
    <2>3. k \in 0..n /\ ~ (s[k] <= edge[k] - edge[0])
      OBVIOUS
    <2>4. s[k] = IF k = 0 THEN 0 ELSE s[k - 1] + g[k]
      BY <1>1, <2>3 DEF Adds
    <2>5. edge[0] \in Int
      BY <1>2, <1>4
    <2>6. k # 0
      BY <2>3, <2>4, <2>5
    <2>7. k - 1 \in 0..n /\ k - 1 \notin Bad
      BY <1>2, <2>2, <2>3, <2>6
    <2>8. s[k - 1] <= edge[k - 1] - edge[0]
      BY <2>7
    <2>9. g[k] <= edge[k] - edge[k - 1] /\ g[k] \in Int
      BY <1>2, <1>3, <2>3, <2>6
    <2>10. edge[k] \in Int /\ edge[k - 1] \in Int /\ s[k - 1] \in Int
      BY <1>1, <1>4, <2>3, <2>7
    <2>11. s[k] = s[k - 1] + g[k]
      BY <2>4, <2>6
    <2>12. ~ (s[k] <= edge[k] - edge[0])
      BY <2>3
    <2> HIDE DEF Bad
    <2> QED
      BY SMTT(40), <2>5, <2>8, <2>9, <2>10, <2>11, <2>12
  <1> QED
    BY <1>1, <1>2, <1>5 DEF n

-----------------------------------------------------------------------------
(* What the record's own operators come to.  *)

\* Every pause but the last.
Before(pauses) == [k \in 1..Len(pauses) - 1 |-> pauses[k]]

Span(pause, at) == (IF pause.until # 0 THEN pause.until ELSE at) - pause.at

LEMMA BeforeIsPauses ==
    ASSUME NEW pauses \in Seq(Pause), Len(pauses) # 0
    PROVE  /\ Before(pauses) \in Seq(Pause)
           /\ Len(Before(pauses)) = Len(pauses) - 1
           /\ Last(pauses) \in Pause
  <1>1. Len(pauses) - 1 \in Nat
    OBVIOUS
  <1>2. \A k \in 1..Len(pauses) - 1 : pauses[k] \in Pause
    OBVIOUS
  <1>3. Last(pauses) \in Pause
    BY DEF Last
  <1> QED
    BY <1>1, <1>2, <1>3 DEF Before

LEMMA SpansAreIntegers ==
    ASSUME NEW pauses \in Seq(Pause), NEW at \in Nat
    PROVE  /\ Spans(pauses, at) \in Seq(Int) /\ Len(Spans(pauses, at)) = Len(pauses)
           /\ \A k \in 1..Len(pauses) :
                /\ Spans(pauses, at)[k] = Span(pauses[k], at)
                /\ Span(pauses[k], at) \in Int
  <1>1. ASSUME NEW k \in 1..Len(pauses)
        PROVE  Span(pauses[k], at) \in Int
    <2>1. pauses[k] \in Pause
      OBVIOUS
    <2> QED
      BY <2>1 DEF Pause, Span
  <1>2. Spans(pauses, at) = [k \in 1..Len(pauses) |-> Span(pauses[k], at)]
    BY DEF Spans, Span
  <1>3. Len(pauses) \in Nat
    OBVIOUS
  <1>4. ASSUME NEW n \in Nat, \A k \in 1..n : Span(pauses[k], at) \in Int
        PROVE  /\ [k \in 1..n |-> Span(pauses[k], at)] \in Seq(Int)
               /\ Len([k \in 1..n |-> Span(pauses[k], at)]) = n
    BY <1>4
  <1> QED
    BY <1>1, <1>2, <1>3, <1>4

LEMMA TotalOfLast ==
    ASSUME NEW pauses \in Seq(Pause), Len(pauses) # 0, NEW at \in Nat
    PROVE  /\ Total(Spans(pauses, at))
                = Total(Spans(Before(pauses), at)) + Span(Last(pauses), at)
           /\ Total(Spans(Before(pauses), at)) \in Int
           /\ Span(Last(pauses), at) \in Int
  <1> DEFINE g == Spans(Before(pauses), at)
             h == Spans(pauses, at)
  <1>1. Before(pauses) \in Seq(Pause) /\ Len(Before(pauses)) = Len(pauses) - 1
    BY BeforeIsPauses
  <1>2. /\ g \in Seq(Int) /\ Len(g) = Len(pauses) - 1
        /\ \A k \in 1..Len(g) : g[k] = Span(Before(pauses)[k], at)
    BY <1>1, SpansAreIntegers
  <1>3. /\ h \in Seq(Int) /\ Len(h) = Len(pauses)
        /\ \A k \in 1..Len(h) : h[k] = Span(pauses[k], at)
    BY SpansAreIntegers
  <1>4. Len(h) = Len(g) + 1
    BY <1>2, <1>3
  <1> HIDE DEF g, h
  <1>5. ASSUME NEW k \in 1..Len(g)
        PROVE  g[k] = h[k]
    <2>1. k \in 1..Len(pauses) - 1 /\ k \in 1..Len(h)
      BY <1>2, <1>3
    <2>2. Before(pauses)[k] = pauses[k]
      BY <2>1 DEF Before
    <2> QED
      BY <1>2, <1>3, <2>1, <2>2
  <1>6. Total(h) = Total(g) + h[Len(h)]
    BY <1>2, <1>3, <1>4, <1>5, TotalOfOneMore
  <1>7. Len(h) \in 1..Len(h) /\ h[Len(h)] \in Int
    BY <1>3
  <1>8. h[Len(h)] = Span(Last(pauses), at)
    BY <1>3, <1>7 DEF Last
  <1>9. Total(g) \in Int
    BY <1>2, TotalIsAnInteger
  <1> QED
    BY <1>6, <1>7, <1>8, <1>9 DEF g, h

LEMMA SpanOfClosed ==
    ASSUME NEW pauses \in Seq(Pause), NEW at, NEW later,
           \A k \in 1..Len(pauses) : pauses[k].until # 0
    PROVE  Spans(pauses, at) = Spans(pauses, later)
  BY DEF Spans

LEMMA ElapsedIsAnInteger ==
    ASSUME NEW one \in Record, NEW at \in Nat
    PROVE  Elapsed(one, at) \in Int
  <1>1. one.pauses \in Seq(Pause) /\ one.ended \in Nat /\ one.clock \in Nat
    BY DEF Record
  <1>2. Total(Spans(one.pauses, at)) \in Int
    BY <1>1, SpansAreIntegers, TotalIsAnInteger
  <1> QED
    BY <1>1, <1>2 DEF Elapsed

\* Time that passes adds to the clock of a sitting, but for one paused.
LEMMA ElapsedLater ==
    ASSUME NEW one \in Record, Valid(one), Running(one), NEW at \in Nat, NEW later \in Nat
    PROVE  Elapsed(one, later)
             = Elapsed(one, at) + (IF Paused(one) THEN 0 ELSE later - at)
  <1> DEFINE pauses == one.pauses
  <1>1. pauses \in Seq(Pause) /\ one.clock \in Nat /\ one.ended = 0
    BY DEF Record, Running
  <1>2. \A k \in 1..Len(pauses) : pauses[k].until = 0 => k = Len(pauses)
    BY DEF Valid
  <1>3. /\ Elapsed(one, at) = at - one.clock - Total(Spans(pauses, at))
        /\ Elapsed(one, later) = later - one.clock - Total(Spans(pauses, later))
    BY <1>1 DEF Elapsed
  <1>4. Total(Spans(pauses, at)) \in Int /\ Total(Spans(pauses, later)) \in Int
    BY <1>1, SpansAreIntegers, TotalIsAnInteger
  <1>5. CASE Paused(one)
    <2>1. Len(pauses) # 0 /\ Last(pauses).until = 0
      BY <1>1, <1>5 DEF Paused
    <2>2. Before(pauses) \in Seq(Pause) /\ Len(Before(pauses)) = Len(pauses) - 1
          /\ Last(pauses) \in Pause
      BY <1>1, <2>1, BeforeIsPauses
    <2>3. \A k \in 1..Len(Before(pauses)) : Before(pauses)[k].until # 0
      <3> SUFFICES ASSUME NEW k \in 1..Len(Before(pauses))
                   PROVE  Before(pauses)[k].until # 0
        OBVIOUS
      <3>1. k \in 1..Len(pauses) - 1 /\ k \in 1..Len(pauses) /\ k # Len(pauses)
        BY <1>1, <2>2
      <3>2. Before(pauses)[k] = pauses[k]
        BY <3>1 DEF Before
      <3>3. pauses[k].until # 0
        BY <1>2, <3>1
      <3> QED
        BY <3>2, <3>3
    <2>4. Spans(Before(pauses), at) = Spans(Before(pauses), later)
      BY <2>2, <2>3, SpanOfClosed
    <2>5. /\ Total(Spans(pauses, at))
               = Total(Spans(Before(pauses), at)) + Span(Last(pauses), at)
          /\ Total(Spans(Before(pauses), at)) \in Int
      BY <1>1, <2>1, TotalOfLast
    <2>6. Total(Spans(pauses, later))
               = Total(Spans(Before(pauses), later)) + Span(Last(pauses), later)
      BY <1>1, <2>1, TotalOfLast
    <2>7. /\ Span(Last(pauses), at) = at - Last(pauses).at
          /\ Span(Last(pauses), later) = later - Last(pauses).at
          /\ Last(pauses).at \in Nat
      BY <2>1, <2>2 DEF Span, Pause
    <2> QED
      BY SMTT(40), <1>1, <1>3, <1>5, <2>4, <2>5, <2>6, <2>7
  <1>6. CASE ~ Paused(one)
    <2>1. \A k \in 1..Len(pauses) : pauses[k].until # 0
      BY <1>1, <1>2, <1>6 DEF Paused, Last
    <2>2. Spans(pauses, at) = Spans(pauses, later)
      BY <1>1, <2>1, SpanOfClosed
    <2> QED
      BY <1>1, <1>3, <1>4, <1>6, <2>2
  <1> QED
    BY <1>5, <1>6

LEMMA ClosedPauses ==
    ASSUME NEW pauses \in Seq(Pause), Len(pauses) # 0, NEW at \in Nat
    PROVE  /\ Closed(pauses, at) \in Seq(Pause) /\ Len(Closed(pauses, at)) = Len(pauses)
           /\ \A k \in 1..Len(pauses) :
                Closed(pauses, at)[k] = IF k = Len(pauses) THEN [pauses[k] EXCEPT !.until = at]
                                                           ELSE pauses[k]
           /\ Before(Closed(pauses, at)) = Before(pauses)
           /\ Last(Closed(pauses, at)) = [Last(pauses) EXCEPT !.until = at]
  <1> DEFINE n == Len(pauses)
             new == Closed(pauses, at)
  <1>1. n \in Nat /\ n \in 1..n /\ pauses[n] \in Pause
    OBVIOUS
  <1>2. [pauses[n] EXCEPT !.until = at] \in Pause
    BY <1>1 DEF Pause
  <1>3. new = [pauses EXCEPT ![n] = [pauses[n] EXCEPT !.until = at]]
    BY <1>1 DEF Closed
  <1>4. new \in Seq(Pause) /\ Len(new) = n
    BY <1>1, <1>2, <1>3
  <1>5. \A k \in 1..n : new[k] = IF k = n THEN [pauses[k] EXCEPT !.until = at]
                                          ELSE pauses[k]
    BY <1>1, <1>3
  <1>6. \A k \in 1..n - 1 : k \in 1..n /\ k # n
    BY <1>1
  <1>7. \A k \in 1..n - 1 : new[k] = pauses[k]
    BY <1>5, <1>6
  <1>8. Before(new) = Before(pauses)
    BY <1>4, <1>7 DEF Before
  <1>9. Last(new) = [Last(pauses) EXCEPT !.until = at]
    BY <1>1, <1>4, <1>5 DEF Last
  <1> QED
    BY <1>4, <1>5, <1>8, <1>9

\* A pause opened at `p` takes what follows off the clock, and one closed there
\* gives it back.
LEMMA ElapsedAsPaused ==
    ASSUME NEW one \in Record, Running(one), NEW p \in Nat, NEW at \in Nat
    PROVE  /\ PausedAt(one, p) \in Record
           /\ Elapsed(PausedAt(one, p), at) = Elapsed(one, at) - (at - p)
  <1> DEFINE pauses == one.pauses
             opened == [at |-> p, until |-> 0]
             more == Append(pauses, opened)
  <1>1. pauses \in Seq(Pause) /\ one.clock \in Nat /\ one.ended = 0 /\ opened \in Pause
    BY DEF Record, Running, Pause
  <1>2. /\ more \in Seq(Pause) /\ Len(more) = Len(pauses) + 1 /\ Len(more) # 0
        /\ Last(more) = opened
    BY <1>1 DEF Last
  <1>3. /\ PausedAt(one, p) \in Record /\ PausedAt(one, p).pauses = more
        /\ PausedAt(one, p).clock = one.clock /\ PausedAt(one, p).ended = one.ended
    BY <1>1, <1>2 DEF PausedAt, Record
  <1>4. Before(more) = pauses
    <2>1. \A k \in 1..Len(pauses) : more[k] = pauses[k]
      BY <1>1
    <2>2. Len(more) - 1 = Len(pauses)
      BY <1>1, <1>2
    <2>3. pauses = [k \in 1..Len(pauses) |-> pauses[k]]
      BY <1>1
    <2> QED
      BY <2>1, <2>2, <2>3 DEF Before
  <1> HIDE DEF more
  <1>5. /\ Total(Spans(more, at)) = Total(Spans(pauses, at)) + Span(opened, at)
        /\ Total(Spans(pauses, at)) \in Int
    BY <1>2, <1>4, TotalOfLast
  <1>6. Span(opened, at) = at - p
    BY DEF Span
  <1>7. Elapsed(one, at) = at - one.clock - Total(Spans(pauses, at))
    BY <1>1 DEF Elapsed
  <1>8. Elapsed(PausedAt(one, p), at) = at - one.clock - Total(Spans(more, at))
    BY <1>1, <1>3 DEF Elapsed
  <1> QED
    BY <1>1, <1>3, <1>5, <1>6, <1>7, <1>8

LEMMA ElapsedAsResumed ==
    ASSUME NEW one \in Record, Running(one), Paused(one), NEW p \in Nat \ {0}, NEW at \in Nat
    PROVE  /\ ResumedAt(one, p) \in Record
           /\ Elapsed(ResumedAt(one, p), at) = Elapsed(one, at) + (at - p)
  <1> DEFINE pauses == one.pauses
             closed == Closed(pauses, p)
  <1>1. pauses \in Seq(Pause) /\ one.clock \in Nat /\ one.ended = 0
    BY DEF Record, Running
  <1>2. Len(pauses) # 0 /\ Last(pauses).until = 0
    BY <1>1 DEF Paused
  <1>3. /\ closed \in Seq(Pause) /\ Len(closed) = Len(pauses)
        /\ Before(closed) = Before(pauses)
        /\ Last(closed) = [Last(pauses) EXCEPT !.until = p]
    BY <1>1, <1>2, ClosedPauses
  <1> HIDE DEF closed
  <1>4. /\ ResumedAt(one, p) \in Record /\ ResumedAt(one, p).pauses = closed
        /\ ResumedAt(one, p).clock = one.clock /\ ResumedAt(one, p).ended = one.ended
    BY <1>1, <1>3 DEF ResumedAt, Record, closed
  <1>5. Last(pauses) \in Pause
    BY <1>1, <1>2, BeforeIsPauses
  <1>6. /\ Total(Spans(pauses, at))
             = Total(Spans(Before(pauses), at)) + Span(Last(pauses), at)
        /\ Total(Spans(Before(pauses), at)) \in Int
    BY <1>1, <1>2, TotalOfLast
  <1>7. Total(Spans(closed, at)) = Total(Spans(Before(pauses), at)) + Span(Last(closed), at)
    BY <1>2, <1>3, TotalOfLast
  <1>8. /\ Span(Last(pauses), at) = at - Last(pauses).at
        /\ Span(Last(closed), at) = p - Last(pauses).at
        /\ Last(pauses).at \in Nat
    BY <1>2, <1>3, <1>5 DEF Span, Pause
  <1>9. Elapsed(one, at) = at - one.clock - Total(Spans(pauses, at))
    BY <1>1 DEF Elapsed
  <1>10. Elapsed(ResumedAt(one, p), at) = at - one.clock - Total(Spans(closed, at))
    BY <1>1, <1>4 DEF Elapsed
  <1> QED
    BY SMTT(40), <1>1, <1>4, <1>6, <1>7, <1>8, <1>9, <1>10

\* No clock of a sitting that can be stored has run for less than nothing, at
\* its last edge or later.
LEMMA ElapsedIsNoLess ==
    ASSUME NEW one \in Record, Valid(one), Running(one), Timed(one), NEW at \in Nat,
           Edge(one, Len(one.pauses)) <= at
    PROVE  Elapsed(one, at) >= 0
  <1> DEFINE pauses == one.pauses
             n == Len(pauses)
             g == Spans(pauses, at)
             end(k) == IF pauses[k].until # 0 THEN pauses[k].until ELSE at
             edge == [k \in 0..n |-> IF k = 0 THEN one.clock ELSE end(k)]
  <1>1. pauses \in Seq(Pause) /\ one.clock \in Nat /\ one.ended = 0 /\ n \in Nat
        /\ one.clock # 0
    BY DEF Record, Running, Timed
  <1>2. ASSUME NEW k \in 1..n
        PROVE  pauses[k].at \in Nat /\ pauses[k].until \in Nat /\ end(k) \in Nat
    <2>1. pauses[k] \in Pause
      BY <1>1
    <2> QED
      BY <2>1 DEF Pause
  <1>3. \A k \in 1..n : /\ pauses[k].at >= Edge(one, k - 1)
                        /\ pauses[k].until = 0 => k = n
    BY DEF Valid
  <1>4. /\ g \in Seq(Int) /\ Len(g) = n
        /\ \A k \in 1..n : g[k] = Span(pauses[k], at)
    BY <1>1, SpansAreIntegers
  <1>5. edge \in [0..n -> Int]
    BY <1>1, <1>2
  <1>6. ASSUME NEW k \in 1..n
        PROVE  g[k] <= edge[k] - edge[k - 1]
    <2>1. g[k] = end(k) - pauses[k].at /\ edge[k] = end(k)
      BY <1>1, <1>4 DEF Span
    <2>2. k - 1 \in 0..n /\ k - 1 # n
      BY <1>1
    <2>3. CASE k = 1
      <3>1. edge[k - 1] = one.clock /\ Edge(one, k - 1) = one.clock
        BY <1>1, <2>2, <2>3 DEF Edge
      <3>2. pauses[k].at >= one.clock
        BY <1>3, <3>1
      <3> QED
        BY <1>1, <1>2, <2>1, <3>1, <3>2
    <2>4. CASE k # 1
      <3>1. k - 1 \in 1..n
        BY <1>1, <2>4
      <3>2. pauses[k - 1].until # 0
        BY <1>3, <2>2, <3>1
      <3>3. edge[k - 1] = pauses[k - 1].until /\ Edge(one, k - 1) = pauses[k - 1].until
        BY <1>1, <2>2, <3>1, <3>2 DEF Edge
      <3>4. pauses[k].at >= pauses[k - 1].until
        BY <1>3, <3>3
      <3>5. pauses[k].at \in Nat /\ end(k) \in Nat /\ pauses[k - 1].until \in Nat
        BY <1>2, <3>1
      <3> HIDE DEF edge, g, end
      <3> QED
        BY SMTT(40), <2>1, <3>3, <3>4, <3>5
    <2> QED
      BY <2>3, <2>4
  <1>7. edge[0] = one.clock /\ edge[n] <= at
    <2>1. CASE n = 0
      BY <1>1, <2>1 DEF Edge
    <2>2. CASE n # 0
      <3>1. n \in 1..n /\ n \in 0..n
        BY <1>1, <2>2
      <3>2. pauses[n].until # 0 => Edge(one, n) = pauses[n].until
        BY <3>1, <2>2 DEF Edge
      <3> QED
        BY <1>1, <1>2, <2>2, <3>1, <3>2
    <2> QED
      BY <2>1, <2>2
  <1>8. edge[n] \in Int
    BY <1>1, <1>5
  <1> HIDE DEF edge, g
  <1>9. Total(g) <= edge[n] - edge[0] /\ Total(g) \in Int
    BY <1>4, <1>5, <1>6, TotalIsCovered, TotalIsAnInteger
  <1>10. Elapsed(one, at) = at - one.clock - Total(g)
    BY <1>1 DEF Elapsed, g
  <1> QED
    BY <1>1, <1>7, <1>8, <1>9, <1>10

-----------------------------------------------------------------------------
(* The records a request alone in flight writes can be stored.  *)

LEMMA StartedIsValid ==
    ASSUME NEW one \in Record, Valid(one), Running(one), one.clock = 0,
           NEW at \in Nat \ {0}, one.started <= at
    PROVE  LET new == ClockStarted(one, at)
           IN  /\ new \in Record /\ Valid(new) /\ Running(new)
               /\ new.pauses = <<>> /\ Edge(new, Len(new.pauses)) = at
               /\ Elapsed(new, at) = 0
  <1> DEFINE new == ClockStarted(one, at)
  <1>1. one.pauses = <<>> /\ one.ended = 0 /\ one.started \in Nat
    BY DEF Valid, Running, Record
  <1>2. /\ new \in Record /\ new.pauses = <<>> /\ new.ended = 0 /\ new.clock = at
        /\ new.started = one.started
    BY <1>1 DEF ClockStarted, Record
  <1> HIDE DEF new
  <1>3. Len(new.pauses) = 0
    BY <1>2
  <1>4. Valid(new) /\ Running(new) /\ Edge(new, Len(new.pauses)) = at
    BY <1>1, <1>2, <1>3 DEF Valid, Running, Edge, Paused
  <1>5. Spans(new.pauses, at) \in Seq(Int) /\ Len(Spans(new.pauses, at)) = 0
    <2>1. new.pauses \in Seq(Pause)
      BY <1>2 DEF Record
    <2> QED
      BY <1>3, <2>1, SpansAreIntegers
  <1>6. Total(Spans(new.pauses, at)) = 0
    BY <1>5, TotalOfNone
  <1>7. Elapsed(new, at) = 0
    BY <1>2, <1>6 DEF Elapsed
  <1> QED
    BY <1>2, <1>4, <1>7 DEF new

LEMMA PausedIsValid ==
    ASSUME NEW one \in Record, Valid(one), Running(one), one.clock # 0, ~ Paused(one),
           NEW at \in Nat \ {0}, Edge(one, Len(one.pauses)) <= at
    PROVE  LET new == PausedAt(one, at)
           IN  /\ new \in Record /\ Valid(new) /\ Running(new)
               /\ Edge(new, Len(new.pauses)) = at
  <1> DEFINE new == PausedAt(one, at)
             pauses == one.pauses
             n == Len(pauses)
  <1>1. pauses \in Seq(Pause) /\ one.ended = 0 /\ n \in Nat
    BY DEF Running, Record
  <1>2. /\ new \in Record /\ new.pauses = Append(pauses, [at |-> at, until |-> 0])
        /\ new.ended = 0 /\ new.clock = one.clock /\ new.started = one.started
    BY <1>1, ElapsedAsPaused DEF PausedAt, Record
  <1> HIDE DEF new
  <1>3. /\ Len(new.pauses) = n + 1 /\ new.pauses # <<>>
        /\ new.pauses[n + 1] = [at |-> at, until |-> 0]
        /\ \A k \in 1..n : new.pauses[k] = pauses[k]
    BY <1>1, <1>2
  <1>4. \A k \in 0..n : Edge(new, k) = Edge(one, k)
    BY <1>1, <1>2, <1>3 DEF Edge
  <1>5. Edge(new, n + 1) = at
    BY <1>1, <1>3 DEF Edge
  <1>6. \A k \in 1..n : /\ pauses[k].at >= Edge(one, k - 1)
                        /\ pauses[k].until # 0 => pauses[k].until >= pauses[k].at
                        /\ pauses[k].until = 0 => k = n
    BY DEF Valid
  <1>7. \A k \in 1..n : pauses[k].until # 0
    BY <1>1, <1>6 DEF Paused, Last
  <1>8. ASSUME NEW k \in 1..n + 1
        PROVE  LET p == new.pauses[k] IN
               /\ p.at >= Edge(new, k - 1)
               /\ p.until # 0 => p.until >= p.at
               /\ p.until = 0 => k = n + 1
    <2>1. CASE k = n + 1
      <3>1. Edge(new, k - 1) = Edge(one, n)
        BY <1>1, <1>4, <2>1
      <3>2. Edge(one, n) <= at
        OBVIOUS
      <3>3. new.pauses[k] = [at |-> at, until |-> 0]
        BY <1>3, <2>1
      <3>4. Edge(one, n) \in Nat
        <4>1. n # 0 => pauses[n] \in Pause
          BY <1>1
        <4> QED
          BY <4>1 DEF Edge, Pause, Record
      <3> QED
        BY <2>1, <3>1, <3>2, <3>3, <3>4
    <2>2. CASE k # n + 1
      <3>1. k \in 1..n /\ k - 1 \in 0..n
        BY <1>1, <2>2
      <3>2. Edge(new, k - 1) = Edge(one, k - 1) /\ new.pauses[k] = pauses[k]
        BY <1>3, <1>4, <3>1
      <3> QED
        BY <1>6, <1>7, <3>1, <3>2
    <2> QED
      BY <2>1, <2>2
  <1>9. new.clock # 0 /\ new.clock >= new.started
    BY <1>2 DEF Valid
  <1>10. Valid(new)
    BY <1>2, <1>3, <1>8, <1>9 DEF Valid
  <1> QED
    BY <1>2, <1>3, <1>5, <1>10 DEF new, Running

\* The record with its last pause closed, where it had one open.
LEMMA ClosedIsValid ==
    ASSUME NEW one \in Record, Valid(one), Paused(one),
           NEW at \in Nat \ {0}, Edge(one, Len(one.pauses)) <= at,
           NEW new \in Record, new.pauses = Closed(one.pauses, at),
           new.clock = one.clock, new.started = one.started,
           new.ended # 0 => new.ended = at
    PROVE  Valid(new) /\ Edge(new, Len(new.pauses)) = at
  <1> DEFINE pauses == one.pauses
             n == Len(pauses)
  <1>1. pauses \in Seq(Pause) /\ n \in Nat /\ n # 0 /\ pauses[n].until = 0
    BY DEF Record, Paused, Last
  <1>2. /\ Len(new.pauses) = n /\ new.pauses # <<>>
        /\ \A k \in 1..n : new.pauses[k] = IF k = n THEN [pauses[k] EXCEPT !.until = at]
                                                    ELSE pauses[k]
    <2>1. at \in Nat /\ Len(pauses) # 0
      BY <1>1
    <2>2. /\ Len(Closed(pauses, at)) = n
          /\ \A k \in 1..n : Closed(pauses, at)[k] =
               IF k = n THEN [pauses[k] EXCEPT !.until = at] ELSE pauses[k]
      BY <1>1, <2>1, ClosedPauses
    <2> QED
      BY <1>1, <2>2
  <1>3. n \in 1..n /\ pauses[n] \in Pause
    BY <1>1
  <1>4. /\ new.pauses[n] = [pauses[n] EXCEPT !.until = at]
        /\ new.pauses[n].at = pauses[n].at /\ new.pauses[n].until = at
    BY <1>2, <1>3 DEF Pause
  <1>5. ASSUME NEW k \in 0..n - 1
        PROVE  Edge(new, k) = Edge(one, k)
    <2>1. k # 0 => k \in 1..n /\ k # n
      BY <1>1
    <2>2. k # 0 => new.pauses[k] = pauses[k]
      BY <1>2, <2>1
    <2> QED
      BY <2>2 DEF Edge
  <1>6. Edge(new, n) = at /\ Edge(one, n) = pauses[n].at
    BY <1>1, <1>4 DEF Edge
  <1>7. \A k \in 1..n : /\ pauses[k].at >= Edge(one, k - 1)
                        /\ pauses[k].until # 0 => pauses[k].until >= pauses[k].at
                        /\ pauses[k].until = 0 => k = n
    BY DEF Valid
  <1>8. ASSUME NEW k \in 1..n
        PROVE  LET p == new.pauses[k] IN
               /\ p.at >= Edge(new, k - 1)
               /\ p.until # 0 => p.until >= p.at
               /\ p.until = 0 => k = n
    <2>1. k - 1 \in 0..n - 1
      BY <1>1
    <2>2. Edge(new, k - 1) = Edge(one, k - 1) /\ pauses[k].at >= Edge(one, k - 1)
      BY <1>5, <1>7, <2>1
    <2>3. CASE k = n
      <3>1. pauses[n].at <= at
        BY <1>6
      <3> QED
        BY <1>3, <1>4, <2>2, <2>3, <3>1 DEF Pause
    <2>4. CASE k # n
      BY <1>2, <1>7, <2>2, <2>4
    <2> QED
      BY <2>3, <2>4
  <1>9. new.clock # 0 /\ new.clock >= new.started
    <2>1. one.pauses # <<>>
      BY DEF Paused
    <2> QED
      BY <2>1 DEF Valid
  <1>10. ~ Paused(new)
    BY <1>2, <1>4 DEF Paused, Last
  <1>11. new.ended # 0 => new.ended >= Edge(new, Len(new.pauses)) /\ ~ Paused(new)
    BY <1>2, <1>6, <1>10
  <1> QED
    BY <1>2, <1>6, <1>8, <1>9, <1>11 DEF Valid

LEMMA ResumedIsValid ==
    ASSUME NEW one \in Record, Valid(one), Running(one), Paused(one),
           NEW at \in Nat \ {0}, Edge(one, Len(one.pauses)) <= at
    PROVE  LET new == ResumedAt(one, at)
           IN  /\ new \in Record /\ Valid(new) /\ Running(new)
               /\ Edge(new, Len(new.pauses)) = at
  <1> DEFINE new == ResumedAt(one, at)
  <1>1. new \in Record
    <2>1. at \in Nat
      OBVIOUS
    <2> QED
      BY <2>1, ElapsedAsResumed
  <1>2. /\ new.pauses = Closed(one.pauses, at) /\ new.ended = 0 /\ new.clock = one.clock
        /\ new.started = one.started
    BY DEF ResumedAt, Record, Running
  <1> HIDE DEF new
  <1>3. Valid(new) /\ Edge(new, Len(new.pauses)) = at
    BY <1>1, <1>2, ClosedIsValid
  <1> QED
    BY <1>1, <1>2, <1>3 DEF new, Running

LEMMA EndedIsValid ==
    ASSUME NEW one \in Record, Valid(one), Running(one),
           NEW at \in Nat \ {0}, Edge(one, Len(one.pauses)) <= at
    PROVE  LET new == Ended(one, at)
           IN  new \in Record /\ Valid(new) /\ ~ Running(new)
  <1> DEFINE new == Ended(one, at)
  <1>1. one.pauses \in Seq(Pause) /\ at \in Nat
    BY DEF Record
  <1>2. CASE Paused(one)
    <2>1. Len(one.pauses) # 0
      BY <1>1, <1>2 DEF Paused
    <2>2. Closed(one.pauses, at) \in Seq(Pause)
      BY <1>1, <2>1, ClosedPauses
    <2>3. /\ new \in Record /\ new.pauses = Closed(one.pauses, at) /\ new.ended = at
          /\ new.clock = one.clock /\ new.started = one.started
      BY <1>1, <1>2, <2>2 DEF Ended, Record
    <2> HIDE DEF new
    <2>4. Valid(new)
      BY <1>2, <2>3, ClosedIsValid
    <2> QED
      BY <2>3, <2>4 DEF new, Running
  <1>3. CASE ~ Paused(one)
    <2>1. /\ new \in Record /\ new.pauses = one.pauses /\ new.ended = at
          /\ new.clock = one.clock /\ new.started = one.started
      BY <1>1, <1>3 DEF Ended, Record
    <2> HIDE DEF new
    <2>2. \A k : Edge(new, k) = Edge(one, k)
      BY <2>1 DEF Edge
    <2>3. ~ Paused(new)
      BY <1>3, <2>1 DEF Paused
    <2>4. new.ended >= Edge(new, Len(new.pauses))
      BY <2>1, <2>2
    <2>5. Valid(new)
      BY <2>1, <2>2, <2>3, <2>4 DEF Valid
    <2> QED
      BY <2>1, <2>5 DEF new, Running
  <1> QED
    BY <1>2, <1>3

LEMMA TouchedIsValid ==
    ASSUME NEW one \in Record, NEW at \in Nat
    PROVE  LET new == Touched(one, at)
           IN  /\ new \in Record /\ (Valid(one) => Valid(new))
               /\ (Running(one) <=> Running(new)) /\ new.active = at
               /\ new.started = one.started /\ new.clock = one.clock
               /\ new.pauses = one.pauses /\ new.ended = one.ended
               /\ Edge(new, Len(new.pauses)) = Edge(one, Len(one.pauses))
               /\ \A t : Elapsed(new, t) = Elapsed(one, t)
  <1> DEFINE new == Touched(one, at)
  <1>1. /\ new \in Record /\ new.pauses = one.pauses /\ new.ended = one.ended
        /\ new.clock = one.clock /\ new.started = one.started /\ new.active = at
    BY DEF Touched, Record
  <1> HIDE DEF new
  <1>2. \A k : Edge(new, k) = Edge(one, k)
    BY <1>1 DEF Edge
  <1>3. Paused(new) <=> Paused(one)
    BY <1>1 DEF Paused
  <1>4. Valid(one) => Valid(new)
    BY <1>1, <1>2, <1>3 DEF Valid
  <1>5. \A t : Elapsed(new, t) = Elapsed(one, t)
    BY <1>1 DEF Elapsed
  <1> QED
    BY <1>1, <1>2, <1>4, <1>5 DEF new, Running

-----------------------------------------------------------------------------
(***************************************************************************)
(* The invariant.  Base holds whatever overlaps: what is stored is valid,  *)
(* one sitting at most runs, and a request in flight holds a record of a   *)
(* sitting that is served.  Alone holds until two requests overlap: what a *)
(* request read is then what is stored, and each clock says what it ran.   *)
(***************************************************************************)

Known(id) == id \in Ids /\ Served(id)

\* The steps at which a request holds a record it read.
Submitting == {"count", "touch", "judge", "append", "verify", "close"}
Holding == {"pauses", "act"} \cup Submitting

SlotOK(s) ==
  /\ s.step # "free" => s.at \in 1..now
  /\ s.step # "free" /\ s.kind # "serve" => Known(s.id)
  /\ s.step \in Holding => Known(s.id) /\ s.one.started # 0
  /\ s.step \in {"pauses", "act"} /\ s.kind = "serve" => Running(s.one)
  /\ s.step = "mint" => s.kind = "serve"
  /\ s.step \in Submitting => s.kind = "submit" /\ Running(s.one)
  /\ s.step \in {"verify", "close"} =>
       /\ s.attempt \in 1..Len(attempts)
       /\ attempts[s.attempt].sitting = s.id
       /\ attempts[s.attempt].solved = s.solved
  /\ s.step = "close" => s.solved
  /\ s.step \notin {"verify", "close"} => s.attempt = 0

Minted == \E n \in Nat : {id \in Ids : Served(id)} = 1..n

Whole == \A id \in Ids : Served(id) => stored[id].started # 0 /\ Valid(stored[id])

OneRunning ==
  \A i, j \in Ids :
    Served(i) /\ Running(stored[i]) /\ Served(j) /\ Running(stored[j]) => i = j

OfServed == \A k \in 1..Len(attempts) : Served(attempts[k].sitting)

Base ==
  /\ TypeOK /\ now # 0
  /\ Minted /\ Whole /\ OneRunning /\ OfServed
  /\ \A r \in Slots : SlotOK(slots[r])

\* A running sitting was last touched at its last edge or later, and its clock
\* has run for what its record says.
Live(id, at) ==
  /\ Edge(stored[id], Len(stored[id].pauses)) <= stored[id].active
  /\ stored[id].active \in 1..at
  /\ Timed(stored[id]) => ran[id] = Elapsed(stored[id], now)

AloneOK(s) ==
  /\ s.step # "free" => \A id \in Ids : Known(id) /\ Running(stored[id]) =>
                                          stored[id].active <= s.at
  /\ s.step = "pauses" => s.one = [stored[s.id] EXCEPT !.pauses = <<>>]
  /\ s.step \in Holding \ {"pauses"} => s.one = stored[s.id]
  /\ s.step = "mint" => \A id \in Ids : Known(id) => ~ Running(stored[id])
  /\ s.step # "free" /\ s.kind = "submit" /\ Running(stored[s.id]) /\ Timed(stored[s.id]) =>
       s.ran = Elapsed(stored[s.id], s.at)

Alone ==
  ~ overlapped =>
    /\ ~ failed
    /\ \A r, s \in Slots : ~ At(r, "free") /\ ~ At(s, "free") => r = s
    /\ \A id \in Ids : Known(id) /\ Running(stored[id]) => Live(id, now)
    /\ \A r \in Slots : AloneOK(slots[r])
    /\ TimeIsWhatTheClockRan
    /\ SolvedEndsTheSitting

-----------------------------------------------------------------------------
(* Base, step by step.  *)

LEMMA FreeIsTyped ==
    Free \in Slot /\ Absent \in Record
  <1>1. Absent \in Record
    BY DEF Absent, Record
  <1> QED
    BY <1>1 DEF Free, Slot, Steps, Kinds

\* What a request in flight relies on stays, whatever else is served or appended.
LEMMA SlotStays ==
    ASSUME NEW s, SlotOK(s),
           \A id \in Ids : Served(id) => Served(id)',
           now \in Nat, now' \in Nat, now <= now',
           Len(attempts) \in Nat, Len(attempts') \in Nat, Len(attempts) <= Len(attempts'),
           \A k \in 1..Len(attempts) : /\ attempts'[k].sitting = attempts[k].sitting
                                       /\ attempts'[k].solved = attempts[k].solved
    PROVE  SlotOK(s)'
  <1>1. \A id : Known(id) => Known(id)'
    BY DEF Known
  <1>2. s.at \in 1..now => s.at \in 1..now'
    OBVIOUS
  <1>3. s.attempt \in 1..Len(attempts) => s.attempt \in 1..Len(attempts')
    OBVIOUS
  <1> QED
    BY <1>1, <1>2, <1>3 DEF SlotOK

\* A step of one request that stores and appends nothing.
LEMMA SlotMoves ==
    ASSUME Base, NEW r \in Slots, NEW new \in Slot, SlotOK(new),
           slots' = [slots EXCEPT ![r] = new],
           UNCHANGED <<stored, attempts, now>>, ran' \in [Ids -> Int],
           requests' \in Nat, overlapped' \in BOOLEAN, died' \in BOOLEAN, failed' \in BOOLEAN
    PROVE  Base'
  <1>1. TypeOK'
    BY DEF Base, TypeOK
  <1>2. now' # 0 /\ Minted' /\ Whole' /\ OneRunning' /\ OfServed'
    BY DEF Base, Minted, Whole, OneRunning, OfServed, Served
  <1>3. ASSUME NEW s \in Slots
        PROVE  SlotOK(slots[s])'
    <2>1. SlotOK(slots[s]) /\ slots'[s] = IF s = r THEN new ELSE slots[s]
      BY DEF Base, TypeOK
    <2>2. \A t : SlotOK(t) => SlotOK(t)'
      BY DEF SlotOK, Known, Served
    <2>3. SlotOK(slots'[s])
      BY <2>1
    <2> QED
      BY <2>2, <2>3 DEF SlotOK, Known, Served
  <1> QED
    BY <1>1, <1>2, <1>3 DEF Base

\* A step of one request that stores the record of a sitting served.
LEMMA RecordMoves ==
    ASSUME Base, NEW r \in Slots, NEW new \in Slot, SlotOK(new),
           slots' = [slots EXCEPT ![r] = new],
           NEW id, Known(id), NEW one \in Record, one.started # 0, Storable(id, one),
           stored' = [stored EXCEPT ![id] = one],
           UNCHANGED <<attempts, now, requests, overlapped, died, failed>>,
           ran' \in [Ids -> Int]
    PROVE  Base'
  <1>1. id \in Ids /\ Served(id) /\ stored \in [Ids -> Record]
    BY DEF Base, TypeOK, Known
  <1>2. TypeOK'
    BY <1>1 DEF Base, TypeOK
  <1>3. \A i \in Ids : stored'[i] = IF i = id THEN one ELSE stored[i]
    BY <1>1
  <1>4. one # Absent
    BY DEF Absent
  <1>5. \A i \in Ids : Served(i)' <=> Served(i)
    BY <1>1, <1>3, <1>4 DEF Served
  <1>6. \A i : Known(i)' <=> Known(i)
    BY <1>5 DEF Known
  <1>7. Minted'
    <2>1. {i \in Ids : Served(i)}' = {i \in Ids : Served(i)}
      BY <1>5
    <2> QED
      BY <2>1 DEF Base, Minted
  <1>8. Whole'
    <2>1. ASSUME NEW i \in Ids, Served(i)'
          PROVE  stored'[i].started # 0 /\ Valid(stored'[i])
      BY <1>3, <1>5, <2>1 DEF Base, Whole, Storable
    <2> QED
      BY <2>1 DEF Whole
  <1>9. OneRunning'
    <2>1. ASSUME NEW i \in Ids, NEW j \in Ids, Served(i)', Running(stored'[i]),
                 Served(j)', Running(stored'[j])
          PROVE  i = j
      <3>1. Served(i) /\ Served(j)
        BY <1>5, <2>1
      <3>2. CASE i # id /\ j # id
        BY <1>3, <2>1, <3>1, <3>2 DEF Base, OneRunning
      <3>3. CASE i = id
        BY <1>3, <2>1, <3>1, <3>3 DEF Storable
      <3>4. CASE j = id
        BY <1>3, <2>1, <3>1, <3>4 DEF Storable
      <3> QED
        BY <3>2, <3>3, <3>4
    <2> QED
      BY <2>1 DEF OneRunning
  <1>10. OfServed'
    <2>1. ASSUME NEW k \in 1..Len(attempts)
          PROVE  Served(attempts[k].sitting)'
      <3>1. attempts[k] \in Attempt
        BY DEF Base, TypeOK
      <3>2. attempts[k].sitting \in Ids
        BY <3>1 DEF Attempt
      <3> QED
        BY <1>5, <3>2 DEF Base, OfServed
    <2> QED
      BY <2>1 DEF OfServed
  <1>11. ASSUME NEW s \in Slots
         PROVE  SlotOK(slots[s])'
    <2>1. SlotOK(slots[s]) /\ slots'[s] = IF s = r THEN new ELSE slots[s]
      BY DEF Base, TypeOK
    <2>2. SlotOK(slots'[s])
      BY <2>1
    <2> QED
      BY <1>6, <2>2 DEF SlotOK
  <1> QED
    BY <1>2, <1>7, <1>8, <1>9, <1>10, <1>11 DEF Base

LEMMA SlotIsTyped ==
    ASSUME Base, NEW r \in Slots
    PROVE  slots[r] \in Slot /\ SlotOK(slots[r])
  BY DEF Base, TypeOK

\* A request that goes on keeps what it holds, but for its step and its record.
Taking(r, one, step) == [slots[r] EXCEPT !.step = step, !.one = one]

LEMMA TakingIsTyped ==
    ASSUME Base, NEW r \in Slots, NEW one \in Record, NEW step, step \in Steps
    PROVE  LET new == Taking(r, one, step)
           IN  /\ new \in Slot /\ new.step = step /\ new.one = one
               /\ new.kind = slots[r].kind /\ new.at = slots[r].at
               /\ new.id = slots[r].id /\ new.solved = slots[r].solved
               /\ new.attempt = slots[r].attempt /\ new.ran = slots[r].ran
  <1>1. slots[r] \in Slot
    BY SlotIsTyped
  <1> QED
    BY <1>1 DEF Slot, Taking

LEMMA GoesOn ==
    ASSUME NEW r, NEW one, NEW step, Go(r, one, step)
    PROVE  /\ step = "free" => slots' = [slots EXCEPT ![r] = Free]
           /\ step # "free" => slots' = [slots EXCEPT ![r] = Taking(r, one, step)]
  BY DEF Go, Taking

Kept == /\ requests' \in Nat /\ overlapped' \in BOOLEAN
        /\ died' \in BOOLEAN /\ failed' \in BOOLEAN /\ ran' \in [Ids -> Int]

LEMMA AnswerKeepsBase ==
    ASSUME Base, NEW r \in Slots, Answer(r), UNCHANGED <<stored, attempts, now>>, Kept
    PROVE  Base'
  <1>1. slots' = [slots EXCEPT ![r] = Free]
    BY GoesOn DEF Answer
  <1>2. SlotOK(Free)
    BY DEF SlotOK, Free, Holding, Submitting
  <1> QED
    BY <1>1, <1>2, FreeIsTyped, SlotMoves DEF Kept

LEMMA PutKeepsBase ==
    ASSUME Base, NEW r \in Slots, slots[r].step \in Holding,
           NEW one \in Record, one.started # 0, NEW step \in {"free", "mint", "judge"},
           step = "mint" => slots[r].step = "act" /\ slots[r].kind = "serve",
           step = "judge" => slots[r].step = "touch" /\ Running(one),
           Put(r, one, step), ran' \in [Ids -> Int],
           UNCHANGED <<now, requests, overlapped, died>>
    PROVE  Base'
  <1>1. /\ slots[r] \in Slot /\ SlotOK(slots[r]) /\ requests \in Nat
        /\ overlapped \in BOOLEAN /\ died \in BOOLEAN /\ failed \in BOOLEAN
    BY SlotIsTyped DEF Base, TypeOK
  <1>2. CASE Fail(r)
    BY <1>1, <1>2, AnswerKeepsBase DEF Fail, Kept
  <1>3. CASE /\ Storable(slots[r].id, one)
             /\ stored' = [stored EXCEPT ![slots[r].id] = one]
             /\ Go(r, one, step)
             /\ UNCHANGED <<attempts, failed>>
    <2>1. Known(slots[r].id)
      BY <1>1 DEF SlotOK
    <2>2. CASE step = "free"
      <3>1. slots' = [slots EXCEPT ![r] = Free]
        BY <1>3, <2>2, GoesOn
      <3>2. SlotOK(Free)
        BY DEF SlotOK, Free, Holding, Submitting
      <3> QED
        BY <1>3, <2>1, <3>1, <3>2, FreeIsTyped, RecordMoves
    <2>3. CASE step # "free"
      <3> DEFINE new == Taking(r, one, step)
      <3>1. step \in Steps
        BY DEF Steps
      <3>2. /\ new \in Slot /\ new.step = step /\ new.one = one
            /\ new.kind = slots[r].kind /\ new.at = slots[r].at
            /\ new.id = slots[r].id /\ new.attempt = slots[r].attempt
        BY <3>1, TakingIsTyped
      <3>3. slots' = [slots EXCEPT ![r] = new]
        BY <1>3, <2>3, GoesOn
      <3> HIDE DEF new
      <3>4. SlotOK(new)
        <4>1. CASE step = "mint"
          BY <1>1, <3>2, <4>1 DEF SlotOK, Holding, Submitting
        <4>2. CASE step = "judge"
          BY <1>1, <3>2, <4>2 DEF SlotOK, Holding, Submitting
        <4> QED
          BY <2>3, <4>1, <4>2
      <3> QED
        BY <1>3, <2>1, <3>2, <3>3, <3>4, RecordMoves
    <2> QED
      BY <2>2, <2>3
  <1> QED
    BY <1>2, <1>3 DEF Put

\* What a request holds is typed, and its moment is one the clock reached.
LEMMA HeldIsTyped ==
    ASSUME Base, NEW r \in Slots
    PROVE  /\ slots[r].one \in Record /\ slots[r].at \in Nat /\ slots[r].attempt \in Nat
           /\ ran \in [Ids -> Int] /\ now \in Nat /\ requests \in Nat
           /\ overlapped \in BOOLEAN /\ died \in BOOLEAN /\ failed \in BOOLEAN
           /\ slots[r].step # "free" => slots[r].at \in 1..now
           /\ slots[r].step \in Holding =>
                /\ slots[r].id \in Ids /\ Served(slots[r].id) /\ slots[r].one.started # 0
  <1>1. slots[r] \in Slot /\ SlotOK(slots[r])
    BY SlotIsTyped
  <1> QED
    BY <1>1 DEF Slot, SlotOK, Known, Base, TypeOK

\* The records a request makes of the one it holds.
LEMMA MadeIsTyped ==
    ASSUME NEW one \in Record, one.started # 0, NEW at \in Nat
    PROVE  /\ Touched(one, at) \in Record /\ Touched(one, at).started # 0
           /\ ClockStarted(one, at) \in Record /\ ClockStarted(one, at).started # 0
           /\ PausedAt(one, at) \in Record /\ PausedAt(one, at).started # 0
           /\ Paused(one) => ResumedAt(one, at) \in Record /\ ResumedAt(one, at).started # 0
           /\ Ended(one, at) \in Record /\ Ended(one, at).started # 0
  <1>1. one.pauses \in Seq(Pause) /\ [at |-> at, until |-> 0] \in Pause
    BY DEF Record, Pause
  <1>2. Append(one.pauses, [at |-> at, until |-> 0]) \in Seq(Pause)
    BY <1>1
  <1>3. Paused(one) => Closed(one.pauses, at) \in Seq(Pause)
    <2>1. SUFFICES ASSUME Paused(one) PROVE Closed(one.pauses, at) \in Seq(Pause)
      OBVIOUS
    <2>2. Len(one.pauses) # 0
      BY <1>1, <2>1 DEF Paused
    <2> QED
      BY <1>1, <2>2, ClosedPauses
  <1>4. Touched(one, at) \in Record /\ Touched(one, at).started = one.started
    BY DEF Touched, Record
  <1>5. ClockStarted(one, at) \in Record /\ ClockStarted(one, at).started = one.started
    BY DEF ClockStarted, Record
  <1>6. PausedAt(one, at) \in Record /\ PausedAt(one, at).started = one.started
    BY <1>2 DEF PausedAt, Record
  <1>7. Paused(one) => ResumedAt(one, at) \in Record
                         /\ ResumedAt(one, at).started = one.started
    BY <1>3 DEF ResumedAt, Record
  <1>8. Ended(one, at) \in Record /\ Ended(one, at).started = one.started
    BY <1>3 DEF Ended, Record
  <1> QED
    BY <1>4, <1>5, <1>6, <1>7, <1>8

LEMMA ArriveKeepsBase ==
    ASSUME Base, NEW r \in Slots, NEW kind \in Kinds, NEW id \in Ids \cup {0},
           Arrive(r, kind, id)
    PROVE  Base'
  <1> DEFINE new == [Free EXCEPT !.step = "row", !.kind = kind, !.at = now,
                                 !.id = id, !.ran = IF id = 0 THEN 0 ELSE ran[id]]
  <1>1. now \in Nat /\ now # 0 /\ ran \in [Ids -> Int] /\ requests \in Nat
        /\ overlapped \in BOOLEAN /\ died \in BOOLEAN /\ failed \in BOOLEAN
    BY DEF Base, TypeOK
  <1>2. (IF id = 0 THEN 0 ELSE ran[id]) \in Int
    BY <1>1
  <1>3. /\ new \in Slot /\ new.step = "row" /\ new.kind = kind /\ new.at = now
        /\ new.id = id /\ new.attempt = 0
    BY <1>1, <1>2, FreeIsTyped DEF Free, Slot, Steps
  <1>4. slots' = [slots EXCEPT ![r] = new]
    BY DEF Arrive
  <1> HIDE DEF new
  <1>5. kind # "serve" => Known(id)
    BY DEF Arrive, Known
  <1>6. SlotOK(new)
    BY <1>1, <1>3, <1>5 DEF SlotOK, Holding, Submitting
  <1>7. overlapped' \in BOOLEAN /\ requests' \in Nat
    BY <1>1 DEF Arrive
  <1>8. UNCHANGED <<stored, attempts, now, ran, died, failed>>
    BY DEF Arrive
  <1> QED
    BY <1>1, <1>3, <1>4, <1>6, <1>7, <1>8, SlotMoves

LEMMA ReadRowKeepsBase ==
    ASSUME Base, NEW r \in Slots, ReadRow(r)
    PROVE  Base'
  <1> DEFINE open == {id \in Ids : Served(id) /\ Running(stored[id])}
             from == IF slots[r].kind = "serve" THEN open ELSE {slots[r].id}
  <1>1. /\ slots[r] \in Slot /\ SlotOK(slots[r]) /\ slots[r].step = "row"
        /\ stored \in [Ids -> Record]
    BY SlotIsTyped DEF ReadRow, At, Base, TypeOK
  <1>2. /\ UNCHANGED <<stored, attempts, now, ran, requests, overlapped, died, failed>>
        /\ ran \in [Ids -> Int] /\ requests \in Nat /\ overlapped \in BOOLEAN
        /\ died \in BOOLEAN /\ failed \in BOOLEAN
    BY DEF ReadRow, Histories, Base, TypeOK
  <1>3. CASE slots[r].kind = "serve" /\ open = {} /\ Go(r, Absent, "mint")
    <2> DEFINE new == Taking(r, Absent, "mint")
    <2>1. "mint" \in Steps /\ Absent \in Record
      BY FreeIsTyped DEF Steps
    <2>2. /\ new \in Slot /\ new.step = "mint"
          /\ new.kind = slots[r].kind /\ new.at = slots[r].at
          /\ new.id = slots[r].id /\ new.attempt = slots[r].attempt
      BY <2>1, TakingIsTyped
    <2>3. slots' = [slots EXCEPT ![r] = new]
      BY <1>3, GoesOn
    <2> HIDE DEF new
    <2>4. SlotOK(new)
      BY <1>1, <1>3, <2>2 DEF SlotOK, Holding, Submitting
    <2> QED
      BY <1>2, <2>2, <2>3, <2>4, SlotMoves
  <1>4. ASSUME NEW id \in from,
               slots' = [slots EXCEPT ![r] =
                           [@ EXCEPT !.step = "pauses", !.id = id,
                                     !.one = [stored[id] EXCEPT !.pauses = <<>>]]]
        PROVE  Base'
    <2> DEFINE row == [stored[id] EXCEPT !.pauses = <<>>]
               new == [slots[r] EXCEPT !.step = "pauses", !.id = id, !.one = row]
    <2>1. Known(id) /\ (slots[r].kind = "serve" => Running(stored[id]))
      <3>1. CASE slots[r].kind = "serve"
        BY <3>1, <1>4 DEF Known
      <3>2. CASE slots[r].kind # "serve"
        BY <1>1, <3>2 DEF SlotOK
      <3> QED
        BY <3>1, <3>2
    <2>2. stored[id] \in Record /\ stored[id].started # 0 /\ id \in Ids
      BY <1>1, <2>1 DEF Known, Base, Whole
    <2>3. /\ row \in Record /\ row.started = stored[id].started
          /\ row.ended = stored[id].ended
      <3>1. <<>> \in Seq(Pause)
        OBVIOUS
      <3> QED
        BY <2>2, <3>1 DEF Record
    <2> HIDE DEF row
    <2>4. /\ new \in Slot /\ new.step = "pauses" /\ new.one = row
          /\ new.kind = slots[r].kind /\ new.at = slots[r].at
          /\ new.id = id /\ new.attempt = slots[r].attempt
      BY <1>1, <2>2, <2>3 DEF Slot, Steps
    <2>5. slots' = [slots EXCEPT ![r] = new]
      BY <1>4 DEF row
    <2> HIDE DEF new
    <2>6. SlotOK(new)
      BY <1>1, <2>1, <2>2, <2>3, <2>4 DEF SlotOK, Holding, Submitting, Running
    <2> QED
      BY <1>2, <2>4, <2>5, <2>6, SlotMoves
  <1> QED
    BY <1>3, <1>4 DEF ReadRow

LEMMA ReadPausesKeepsBase ==
    ASSUME Base, NEW r \in Slots, ReadPauses(r)
    PROVE  Base'
  <1> DEFINE id == slots[r].id
             whole == [slots[r].one EXCEPT !.pauses = stored[id].pauses]
             at == IF slots[r].kind = "get" THEN now ELSE slots[r].at
             new == [slots[r] EXCEPT !.step = "act", !.one = whole, !.at = at]
  <1>1. /\ slots[r] \in Slot /\ SlotOK(slots[r]) /\ slots[r].step = "pauses"
        /\ stored \in [Ids -> Record] /\ now \in Nat /\ now # 0
    BY SlotIsTyped DEF ReadPauses, At, Base, TypeOK
  <1>2. /\ UNCHANGED <<stored, attempts, now, ran, requests, overlapped, died>>
        /\ ran \in [Ids -> Int] /\ requests \in Nat /\ overlapped \in BOOLEAN
        /\ died \in BOOLEAN /\ failed \in BOOLEAN
    BY DEF ReadPauses, Fail, Base, TypeOK
  <1>3. id \in Ids /\ slots[r].one \in Record /\ slots[r].one.started # 0 /\ Known(id)
    BY <1>1 DEF SlotOK, Known, Holding, Slot
  <1>4. stored[id] \in Record
    BY <1>1, <1>3
  <1>5. /\ whole \in Record /\ whole.started # 0
        /\ (Running(slots[r].one) => Running(whole))
    BY <1>3, <1>4 DEF Record, Running
  <1>6. at \in 1..now /\ at \in Nat
    BY <1>1 DEF SlotOK
  <1>7. CASE Valid(whole) /\ slots' = [slots EXCEPT ![r] = new] /\ UNCHANGED failed
    <2> HIDE DEF whole, at
    <2>1. /\ new \in Slot /\ new.step = "act" /\ new.one = whole
          /\ new.kind = slots[r].kind /\ new.at = at
          /\ new.id = id /\ new.attempt = slots[r].attempt
      BY <1>1, <1>5, <1>6 DEF Slot, Steps
    <2> HIDE DEF new
    <2>2. SlotOK(new)
      BY <1>1, <1>3, <1>5, <1>6, <2>1 DEF SlotOK, Holding, Submitting
    <2> QED
      BY <1>2, <1>7, <2>1, <2>2, SlotMoves
  <1>8. CASE Fail(r)
    BY <1>2, <1>8, AnswerKeepsBase DEF Fail, Kept
  <1> QED
    BY <1>7, <1>8 DEF ReadPauses

LEMMA LeaveKeepsBase ==
    ASSUME Base, NEW r \in Slots, Leave(r), UNCHANGED <<now, requests, overlapped, died>>
    PROVE  Base'
  <1>1. Kept
    BY DEF Leave, Kept, Base, TypeOK
  <1> QED
    BY <1>1, AnswerKeepsBase DEF Leave

\* A request that acts on the record it read.
LEMMA ActKeepsBase ==
    ASSUME Base, NEW r \in Slots, Act(r)
    PROVE  Base'
  <1> DEFINE one == slots[r].one
             at == slots[r].at
             id == slots[r].id
  <1>1. slots[r].step = "act" /\ slots[r].step \in Holding /\ slots[r].step # "touch"
    BY DEF Act, At, Holding
  <1>2. UNCHANGED <<now, requests, overlapped, died>>
    BY DEF Act
  <1>3. /\ one \in Record /\ one.started # 0 /\ at \in Nat /\ at # 0 /\ id \in Ids
        /\ now \in Nat /\ ran \in [Ids -> Int] /\ one.active \in Nat
    BY <1>1, HeldIsTyped DEF Record
  <1>4. /\ Touched(one, at) \in Record /\ Touched(one, at).started # 0
        /\ ClockStarted(one, at) \in Record /\ ClockStarted(one, at).started # 0
        /\ PausedAt(one, at) \in Record /\ PausedAt(one, at).started # 0
        /\ Paused(one) => ResumedAt(one, at) \in Record /\ ResumedAt(one, at).started # 0
        /\ Ended(one, at) \in Record /\ Ended(one, at).started # 0
    BY <1>3, MadeIsTyped
  <1>5. EndedIdle(one) \in Record /\ EndedIdle(one).started # 0
    BY <1>3, MadeIsTyped DEF EndedIdle
  <1> HIDE DEF one, at, id
  <1>6. ASSUME Leave(r)
        PROVE  Base'
    BY <1>2, <1>6, LeaveKeepsBase
  <1>7. ASSUME NEW new, new \in Record, new.started # 0, Put(r, new, "free"),
               ran' \in [Ids -> Int]
        PROVE  Base'
    BY <1>1, <1>2, <1>7, PutKeepsBase
  <1>8. CASE ServeAct(r)
    <2>1. ran' = ran /\ slots[r].kind = "serve"
      BY <1>8 DEF ServeAct
    <2>2. CASE Put(r, EndedIdle(one), "mint")
      BY <1>1, <1>2, <1>3, <1>5, <2>1, <2>2, PutKeepsBase
    <2>3. CASE Put(r, Touched(one, at), "free")
      BY <1>3, <1>4, <1>7, <2>1, <2>3
    <2> QED
      BY <1>8, <2>2, <2>3 DEF ServeAct, one, at
  <1>9. CASE GetAct(r)
    <2>1. ASSUME NEW t \in at .. now, Put(r, Touched(one, t), "free"), ran' = ran
          PROVE  Base'
      <3>1. t \in Nat
        BY <1>3
      <3>2. Touched(one, t) \in Record /\ Touched(one, t).started # 0
        BY <1>3, <3>1, MadeIsTyped
      <3> QED
        BY <1>3, <1>7, <2>1, <3>2
    <2>2. ASSUME Put(r, EndedIdle(one), "free"), ran' = ran
          PROVE  Base'
      BY <1>3, <1>5, <1>7, <2>2
    <2> QED
      BY <1>6, <1>9, <2>1, <2>2 DEF GetAct, one, at
  <1>10. CASE SubmitAct(r)
    <2>1. ran' = ran /\ slots[r].kind = "submit"
      BY <1>10 DEF SubmitAct
    <2>2. CASE Put(r, EndedIdle(one), "free")
      BY <1>3, <1>5, <1>7, <2>1, <2>2
    <2>3. CASE Running(one) /\ Go(r, one, "count") /\ UNCHANGED <<stored, attempts, failed>>
      <3> DEFINE new == Taking(r, one, "count")
      <3>1. "count" \in Steps
        BY DEF Steps
      <3>2. /\ new \in Slot /\ new.step = "count" /\ new.one = one
            /\ new.kind = slots[r].kind /\ new.at = slots[r].at
            /\ new.id = slots[r].id /\ new.attempt = slots[r].attempt
        BY <1>3, <3>1, TakingIsTyped
      <3>3. slots' = [slots EXCEPT ![r] = new]
        BY <2>3, GoesOn
      <3> HIDE DEF new
      <3>4. SlotOK(slots[r])
        BY SlotIsTyped
      <3>5. SlotOK(new)
        BY <1>1, <1>3, <2>1, <2>3, <3>2, <3>4 DEF SlotOK, Holding, Submitting
      <3>6. requests' \in Nat /\ overlapped' \in BOOLEAN /\ died' \in BOOLEAN
            /\ failed' \in BOOLEAN
        BY <1>2, <2>3, HeldIsTyped
      <3> QED
        BY <1>2, <1>3, <2>1, <2>3, <3>2, <3>3, <3>5, <3>6, SlotMoves
    <2> QED
      BY <1>6, <1>10, <2>2, <2>3 DEF SubmitAct, one, at
  <1>11. ASSUME NEW new, new \in Record, new.started # 0, NEW n \in Int, Press(r, new, n)
         PROVE  Base'
    <2>1. ran' \in [Ids -> Int]
      BY <1>3, <1>11 DEF Press
    <2> QED
      BY <1>7, <1>11, <2>1 DEF Press
  <1>12. CASE StartClock(r)
    <2>1. now - at \in Int
      BY <1>3
    <2> QED
      BY <1>4, <1>6, <1>11, <1>12, <2>1 DEF StartClock, one, at
  <1>13. CASE PauseClock(r)
    <2>1. ran[id] - (now - at) \in Int
      BY <1>3
    <2> QED
      BY <1>4, <1>6, <1>11, <1>13, <2>1 DEF PauseClock, one, at, id
  <1>14. CASE ResumeClock(r)
    <2>1. ran[id] + (now - at) \in Int
      BY <1>3
    <2> QED
      BY <1>4, <1>6, <1>11, <1>14, <2>1 DEF ResumeClock, one, at, id
  <1>15. CASE End(r)
    <2>1. CASE Put(r, Ended(one, at), "free") /\ UNCHANGED ran
      BY <1>3, <1>4, <1>7, <2>1
    <2> QED
      BY <1>6, <1>15, <2>1 DEF End, one, at
  <1> QED
    BY <1>8, <1>9, <1>10, <1>12, <1>13, <1>14, <1>15 DEF Act

\* Where n sittings are served, the next one minted is n + 1, and is new.
LEMMA MintsTheNext ==
    ASSUME NEW n \in Nat, {i \in Ids : Served(i)} = 1..n
    PROVE  Cardinality({i \in Ids : Served(i)}) + 1 = n + 1
  <1>1. Cardinality(1..n) = IF 1 > n THEN 0 ELSE n - 1 + 1
    BY FS_Interval
  <1>2. Cardinality(1..n) = n
    BY <1>1
  <1> DEFINE S == {i \in Ids : Served(i)}
  <1>3. S = 1..n
    OBVIOUS
  <1> HIDE DEF S
  <1> QED
    BY <1>2, <1>3 DEF S

\* A sitting minted is a running one, and it can be read back.
LEMMA MintedIsValid ==
    ASSUME NEW at \in Nat \ {0}
    PROVE  LET one == [Absent EXCEPT !.started = at, !.active = at]
           IN  /\ one \in Record /\ one.started = at /\ one.active = at /\ one.clock = 0
               /\ one.ended = 0 /\ one.pauses = <<>> /\ Valid(one)
               /\ Running(one) /\ Edge(one, Len(one.pauses)) = at
  <1> DEFINE one == [Absent EXCEPT !.started = at, !.active = at]
  <1>1. /\ one \in Record /\ one.started = at /\ one.active = at /\ one.clock = 0
        /\ one.ended = 0 /\ one.pauses = <<>>
    BY FreeIsTyped DEF Absent, Record
  <1> HIDE DEF one
  <1>2. Len(one.pauses) = 0
    BY <1>1
  <1>3. Valid(one) /\ Running(one) /\ Edge(one, Len(one.pauses)) = at
    BY <1>1, <1>2 DEF Valid, Running, Edge
  <1> QED
    BY <1>1, <1>3 DEF one

\* What a mint stores is a sitting nobody was served, over what was served before.
MintsOver(r, id, one) ==
  /\ id \in Ids /\ ~ Served(id)
  /\ one \in Record /\ one.started = slots[r].at /\ one.active = slots[r].at
  /\ one.clock = 0 /\ one.ended = 0 /\ one.pauses = <<>> /\ Valid(one)
  /\ Running(one) /\ Edge(one, Len(one.pauses)) = slots[r].at /\ one.started # 0
  /\ {i \in Ids : Served(i)} = 1..id - 1

LEMMA MintShape ==
    ASSUME Base, NEW r \in Slots, Mint(r)
    PROVE  /\ slots[r].step = "mint"
           /\ UNCHANGED <<now, requests, ran, overlapped, died, attempts>>
           /\ slots' = [slots EXCEPT ![r] = Free]
           /\ \E id, one :
                /\ MintsOver(r, id, one)
                /\ \/ /\ Storable(id, one) /\ UNCHANGED failed
                      /\ stored' = [stored EXCEPT ![id] = one]
                   \/ /\ ~ Storable(id, one) /\ failed' = TRUE
                      /\ UNCHANGED stored
  <1> DEFINE at == slots[r].at
             id == Cardinality({i \in Ids : Served(i)}) + 1
             one == [Absent EXCEPT !.started = at, !.active = at]
  <1>1. slots[r].step = "mint"
    BY DEF Mint, At
  <1>2. at \in Nat \ {0}
    BY <1>1, HeldIsTyped
  <1>3. PICK n \in Nat : {i \in Ids : Served(i)} = 1..n
    BY DEF Base, Minted
  <1>4. id = n + 1
    BY <1>3, MintsTheNext
  <1>5. id \in Ids /\ UNCHANGED <<now, requests, ran, overlapped, died>>
    BY DEF Mint
  <1>6. ~ Served(id) /\ {i \in Ids : Served(i)} = 1..id - 1
    <2>1. id \notin 1..n /\ id - 1 = n
      BY <1>3, <1>4
    <2> HIDE DEF id
    <2> QED
      BY <1>3, <1>5, <2>1
  <1>7. /\ one \in Record /\ one.started = at /\ one.active = at /\ one.clock = 0
        /\ one.ended = 0 /\ one.pauses = <<>> /\ Valid(one)
        /\ Running(one) /\ Edge(one, Len(one.pauses)) = at
    BY <1>2, MintedIsValid
  <1>8. \/ /\ Storable(id, one) /\ UNCHANGED failed /\ Answer(r) /\ UNCHANGED attempts
           /\ stored' = [stored EXCEPT ![id] = one]
        \/ /\ ~ Storable(id, one) /\ failed' = TRUE /\ Answer(r)
           /\ UNCHANGED <<stored, attempts>>
    BY DEF Mint, Fail
  <1> HIDE DEF id, one
  <1>9. slots' = [slots EXCEPT ![r] = Free] /\ UNCHANGED attempts
    BY <1>8, GoesOn DEF Answer
  <1>10. MintsOver(r, id, one)
    BY <1>2, <1>5, <1>6, <1>7 DEF MintsOver
  <1> QED
    BY <1>1, <1>5, <1>8, <1>9, <1>10

LEMMA MintKeepsBase ==
    ASSUME Base, NEW r \in Slots, Mint(r)
    PROVE  Base'
  <1>1. /\ slots[r].step = "mint"
        /\ UNCHANGED <<now, requests, ran, overlapped, died, attempts>>
        /\ slots' = [slots EXCEPT ![r] = Free]
    BY MintShape
  <1>2. PICK id, one :
          /\ MintsOver(r, id, one)
          /\ \/ /\ Storable(id, one) /\ UNCHANGED failed
                /\ stored' = [stored EXCEPT ![id] = one]
             \/ /\ ~ Storable(id, one) /\ failed' = TRUE
                /\ UNCHANGED stored
    BY MintShape
  <1>3. /\ ran \in [Ids -> Int] /\ requests \in Nat /\ overlapped \in BOOLEAN
        /\ died \in BOOLEAN /\ failed \in BOOLEAN
    BY HeldIsTyped
  <1>4. SlotOK(Free)
    BY DEF SlotOK, Free, Holding, Submitting
  <1>5. CASE failed' = TRUE /\ UNCHANGED stored
    BY <1>1, <1>3, <1>4, <1>5, FreeIsTyped, SlotMoves
  <1>6. CASE /\ Storable(id, one) /\ UNCHANGED failed
             /\ stored' = [stored EXCEPT ![id] = one]
    <2>1. /\ id \in Ids /\ ~ Served(id) /\ one \in Record /\ one.started # 0
          /\ {i \in Ids : Served(i)} = 1..id - 1 /\ id \in Nat \ {0}
      BY <1>2, SittingAssumption DEF MintsOver
    <2>2. stored \in [Ids -> Record]
      BY DEF Base, TypeOK
    <2>3. \A i \in Ids : stored'[i] = IF i = id THEN one ELSE stored[i]
      BY <1>6, <2>1, <2>2
    <2>4. one # Absent
      BY <2>1 DEF Absent
    <2>5. \A i \in Ids : Served(i)' <=> (i = id \/ Served(i))
      BY <2>3, <2>4 DEF Served
    <2>6. TypeOK'
      BY <1>1, <1>3, <1>6, <2>1, <2>2, FreeIsTyped DEF Base, TypeOK
    <2>7. Minted'
      <3>1. {i \in Ids : Served(i)}' = {i \in Ids : Served(i)} \cup {id}
        BY <2>1, <2>5
      <3>2. (1..id - 1) \cup {id} = 1..id
        BY <2>1
      <3>3. {i \in Ids : Served(i)}' = 1..id
        BY <2>1, <3>1, <3>2
      <3>4. id \in Nat
        BY <2>1
      <3> QED
        BY <3>3, <3>4 DEF Minted
    <2>8. Whole'
      <3>1. ASSUME NEW i \in Ids, Served(i)'
            PROVE  stored'[i].started # 0 /\ Valid(stored'[i])
        BY <1>2, <1>6, <2>1, <2>3, <2>5, <3>1 DEF Base, Whole, Storable
      <3> QED
        BY <3>1 DEF Whole
    <2>9. OneRunning'
      <3>1. ASSUME NEW i \in Ids, NEW j \in Ids, Served(i)', Running(stored'[i]),
                   Served(j)', Running(stored'[j]), i # j
            PROVE  FALSE
        <4>1. Running(one) => \A other \in Ids \ {id} :
                                ~ (Served(other) /\ Running(stored[other]))
          BY <1>6 DEF Storable
        <4>2. CASE i # id /\ j # id
          BY <2>3, <2>5, <3>1, <4>2 DEF Base, OneRunning
        <4>3. CASE i = id
          BY <2>3, <2>5, <3>1, <4>1, <4>3
        <4>4. CASE j = id
          BY <2>3, <2>5, <3>1, <4>1, <4>4
        <4> QED
          BY <4>2, <4>3, <4>4
      <3> QED
        BY <3>1 DEF OneRunning
    <2>10. OfServed'
      <3>1. ASSUME NEW k \in 1..Len(attempts)
            PROVE  Served(attempts[k].sitting)'
        <4>1. attempts[k] \in Attempt
          BY DEF Base, TypeOK
        <4>2. attempts[k].sitting \in Ids
          BY <4>1 DEF Attempt
        <4> QED
          BY <1>1, <2>5, <4>2 DEF Base, OfServed
      <3> QED
        BY <1>1, <3>1 DEF OfServed
    <2>11. ASSUME NEW s \in Slots
           PROVE  SlotOK(slots[s])'
      <3>1. SlotOK(slots[s]) /\ slots'[s] = IF s = r THEN Free ELSE slots[s]
        BY <1>1 DEF Base, TypeOK
      <3>2. SlotOK(slots'[s])
        BY <1>4, <3>1
      <3>3. \A i : Known(i) => Known(i)'
        BY <2>5 DEF Known
      <3> QED
        BY <1>1, <3>2, <3>3 DEF SlotOK
    <2> QED
      BY <1>1, <2>6, <2>7, <2>8, <2>9, <2>10, <2>11 DEF Base
  <1> QED
    BY <1>2, <1>5, <1>6

\* A submission's steps before it appends.
LEMMA SubmissionKeepsBase ==
    ASSUME Base, NEW r \in Slots, Count(r) \/ Touch(r) \/ Judge(r) \/ CloseSolved(r)
    PROVE  Base'
  <1>1. slots[r] \in Slot /\ SlotOK(slots[r])
    BY SlotIsTyped
  <1>2. slots[r].step \in Submitting
    BY DEF Count, Touch, Judge, CloseSolved, At, Submitting
  <1>3. /\ slots[r].one \in Record /\ slots[r].one.started # 0 /\ slots[r].at \in Nat
        /\ slots[r].id \in Ids /\ ran \in [Ids -> Int] /\ Running(slots[r].one)
        /\ requests \in Nat /\ overlapped \in BOOLEAN /\ died \in BOOLEAN /\ failed \in BOOLEAN
    BY <1>1, <1>2, HeldIsTyped DEF Holding, SlotOK
  <1>4. CASE /\ Answer(r) /\ UNCHANGED <<stored, attempts, now, requests, Histories>>
    BY <1>3, <1>4, AnswerKeepsBase DEF Kept, Histories
  <1>5. CASE Count(r)
    <2>1. CASE Go(r, slots[r].one, "touch")
      <3> DEFINE new == Taking(r, slots[r].one, "touch")
      <3>1. "touch" \in Steps
        BY DEF Steps
      <3>2. /\ new \in Slot /\ new.step = "touch" /\ new.one = slots[r].one
            /\ new.kind = slots[r].kind /\ new.at = slots[r].at
            /\ new.id = slots[r].id /\ new.attempt = slots[r].attempt
        BY <1>3, <3>1, TakingIsTyped
      <3>3. slots' = [slots EXCEPT ![r] = new]
        BY <2>1, GoesOn
      <3>4. slots[r].step = "count"
        BY <1>5 DEF Count, At
      <3> HIDE DEF new
      <3>5. SlotOK(new)
        BY <1>1, <1>3, <3>2, <3>4 DEF SlotOK, Holding, Submitting
      <3> QED
        BY <1>3, <1>5, <3>2, <3>3, <3>5, SlotMoves DEF Count, Histories
    <2> QED
      BY <1>4, <1>5, <2>1 DEF Count
  <1>6. CASE Touch(r)
    <2>1. /\ Touched(slots[r].one, slots[r].at) \in Record
          /\ Touched(slots[r].one, slots[r].at).started # 0
      BY <1>3, MadeIsTyped
    <2>2. Running(Touched(slots[r].one, slots[r].at))
      BY <1>3, TouchedIsValid
    <2>3. slots[r].step = "touch" /\ slots[r].step \in Holding
      BY <1>6 DEF Touch, At, Holding, Submitting
    <2> QED
      BY <1>3, <1>6, <2>1, <2>2, <2>3, PutKeepsBase DEF Touch
  <1>7. CASE Judge(r)
    <2>1. ASSUME NEW solved \in BOOLEAN,
                 slots' = [slots EXCEPT ![r] =
                             [@ EXCEPT !.step = "append", !.solved = solved]]
          PROVE  Base'
      <3> DEFINE new == [slots[r] EXCEPT !.step = "append", !.solved = solved]
      <3>1. /\ new \in Slot /\ new.step = "append" /\ new.one = slots[r].one
            /\ new.kind = slots[r].kind /\ new.at = slots[r].at
            /\ new.id = slots[r].id /\ new.attempt = slots[r].attempt
        BY <1>1 DEF Slot, Steps
      <3>2. slots' = [slots EXCEPT ![r] = new]
        BY <2>1
      <3>3. slots[r].step = "judge"
        BY <1>7 DEF Judge, At
      <3> HIDE DEF new
      <3>4. SlotOK(new)
        BY <1>1, <1>3, <3>1, <3>3 DEF SlotOK, Holding, Submitting
      <3> QED
        BY <1>3, <1>7, <3>1, <3>2, <3>4, SlotMoves DEF Judge, Histories
    <2> QED
      BY <1>4, <1>7, <2>1 DEF Judge
  <1>8. CASE CloseSolved(r)
    <2>1. /\ Ended(slots[r].one, slots[r].at) \in Record
          /\ Ended(slots[r].one, slots[r].at).started # 0
      BY <1>3, MadeIsTyped
    <2>2. slots[r].step = "close" /\ slots[r].step \in Holding
      BY <1>8 DEF CloseSolved, At, Holding, Submitting
    <2> QED
      BY <1>3, <1>8, <2>1, <2>2, PutKeepsBase DEF CloseSolved
  <1> QED
    BY <1>5, <1>6, <1>7, <1>8

\* A step that appends, or says an attempt is verified, with one request moved.
LEMMA AttemptsMove ==
    ASSUME Base, NEW r \in Slots, NEW new \in Slot, slots' = [slots EXCEPT ![r] = new],
           SlotOK(new)', attempts' \in Seq(Attempt), Len(attempts) <= Len(attempts'),
           \A k \in 1..Len(attempts) : /\ attempts'[k].sitting = attempts[k].sitting
                                       /\ attempts'[k].solved = attempts[k].solved,
           \A k \in 1..Len(attempts') : k > Len(attempts) => Served(attempts'[k].sitting),
           UNCHANGED <<stored, now, ran, requests, overlapped, died, failed>>
    PROVE  Base'
  <1>1. TypeOK'
    BY DEF Base, TypeOK
  <1>2. now' # 0 /\ Minted' /\ Whole' /\ OneRunning'
    BY DEF Base, Minted, Whole, OneRunning, Served
  <1>3. attempts \in Seq(Attempt) /\ now \in Nat
    BY DEF Base, TypeOK
  <1>4. Len(attempts) \in Nat /\ Len(attempts') \in Nat
    BY <1>3
  <1>5. OfServed'
    <2>1. ASSUME NEW k \in 1..Len(attempts')
          PROVE  Served(attempts'[k].sitting)
      <3>1. CASE k > Len(attempts)
        BY <3>1
      <3>2. CASE ~ (k > Len(attempts))
        <4>1. k \in 1..Len(attempts)
          BY <1>4, <3>2
        <4> QED
          BY <4>1 DEF Base, OfServed
      <3> QED
        BY <3>1, <3>2
    <2> QED
      BY <2>1 DEF OfServed, Served
  <1>6. ASSUME NEW s \in Slots
        PROVE  SlotOK(slots[s])'
    <2>1. SlotOK(slots[s]) /\ slots'[s] = IF s = r THEN new ELSE slots[s]
      BY DEF Base, TypeOK
    <2>2. CASE s = r
      BY <2>1, <2>2 DEF SlotOK, Known, Served
    <2>3. CASE s # r
      <3> DEFINE mine == slots[s]
      <3>1. slots'[s] = mine /\ SlotOK(mine)
        BY <2>1, <2>3
      <3>2. \A id \in Ids : Served(id) => Served(id)'
        BY DEF Served
      <3>3. now' = now /\ now <= now'
        BY <1>3
      <3>4. ASSUME NEW t, SlotOK(t)
            PROVE  SlotOK(t)'
        BY <1>3, <1>4, <3>2, <3>3, <3>4, SlotStays
      <3>5. SlotOK(slots'[s])
        BY <3>1
      <3> HIDE DEF mine
      <3>6. ASSUME NEW t, t = slots'[s]
            PROVE  SlotOK(t)' => SlotOK(slots[s])'
        BY <3>6 DEF SlotOK, Known, Served
      <3> QED
        BY <3>4, <3>5, <3>6
    <2> QED
      BY <2>2, <2>3
  <1> QED
    BY <1>1, <1>2, <1>5, <1>6 DEF Base

\* The attempt a submission appends.
Made(r) ==
  LET one == slots[r].one  at == slots[r].at IN
  [sitting |-> slots[r].id, at |-> at, solved |-> slots[r].solved,
   timed |-> Timed(one), time |-> IF Timed(one) THEN Elapsed(one, at) ELSE 0,
   ran |-> slots[r].ran, verified |-> FALSE]

LEMMA MadeIsAnAttempt ==
    ASSUME Base, NEW r \in Slots, slots[r].step = "append",
           Counted(slots[r].one, slots[r].at)
    PROVE  Made(r) \in Attempt
  <1> DEFINE one == slots[r].one
             at == slots[r].at
  <1>1. one \in Record /\ at \in Nat /\ slots[r].id \in Ids
    BY HeldIsTyped DEF Holding, Submitting
  <1>2. slots[r] \in Slot
    BY SlotIsTyped
  <1>3. slots[r].solved \in BOOLEAN /\ slots[r].ran \in Int
    BY <1>2 DEF Slot
  <1>4. Timed(one) \in BOOLEAN
    BY DEF Timed
  <1>5. (IF Timed(one) THEN Elapsed(one, at) ELSE 0) \in Nat
    BY <1>1, ElapsedIsAnInteger DEF Counted
  <1> QED
    BY <1>1, <1>3, <1>4, <1>5 DEF Made, Attempt

LEMMA AppendShape ==
    ASSUME Base, NEW r \in Slots, AppendAttempt(r), Counted(slots[r].one, slots[r].at)
    PROVE  LET new == [slots[r] EXCEPT !.step = "verify", !.attempt = Len(attempts) + 1]
           IN  /\ new \in Slot /\ slots' = [slots EXCEPT ![r] = new]
               /\ new.step = "verify" /\ new.attempt = Len(attempts) + 1
               /\ new.one = slots[r].one /\ new.kind = slots[r].kind
               /\ new.at = slots[r].at /\ new.id = slots[r].id
               /\ new.solved = slots[r].solved /\ new.ran = slots[r].ran
               /\ attempts' = Append(attempts, Made(r))
               /\ UNCHANGED <<stored, failed>>
  <1>1. slots[r] \in Slot /\ attempts \in Seq(Attempt)
    BY SlotIsTyped DEF Base, TypeOK
  <1>2. /\ attempts' = Append(attempts, Made(r))
        /\ slots' = [slots EXCEPT ![r] = [@ EXCEPT !.step = "verify",
                                                   !.attempt = Len(attempts) + 1]]
        /\ UNCHANGED <<stored, failed>>
    BY DEF AppendAttempt, Made
  <1>3. Len(attempts) + 1 \in Nat /\ "verify" \in Steps
    BY <1>1 DEF Steps
  <1>4. LET new == [slots[r] EXCEPT !.step = "verify", !.attempt = Len(attempts) + 1]
        IN  /\ new \in Slot
            /\ new.step = "verify" /\ new.attempt = Len(attempts) + 1
            /\ new.one = slots[r].one /\ new.kind = slots[r].kind
            /\ new.at = slots[r].at /\ new.id = slots[r].id
            /\ new.solved = slots[r].solved /\ new.ran = slots[r].ran
    BY <1>1, <1>3 DEF Slot
  <1> QED
    BY <1>2, <1>4

LEMMA AppendAttemptKeepsBase ==
    ASSUME Base, NEW r \in Slots, AppendAttempt(r)
    PROVE  Base'
  <1>1. slots[r].step = "append" /\ slots[r].step \in Holding
    BY DEF AppendAttempt, At, Holding, Submitting
  <1>2. UNCHANGED <<now, requests, ran, overlapped, died>>
    BY DEF AppendAttempt
  <1>3. CASE Fail(r)
    BY <1>2, <1>3, HeldIsTyped, AnswerKeepsBase DEF Fail, Kept
  <1>4. CASE Counted(slots[r].one, slots[r].at)
    <2> DEFINE new == [slots[r] EXCEPT !.step = "verify", !.attempt = Len(attempts) + 1]
    <2>1. /\ new \in Slot /\ slots' = [slots EXCEPT ![r] = new]
          /\ new.step = "verify" /\ new.attempt = Len(attempts) + 1
          /\ new.one = slots[r].one /\ new.kind = slots[r].kind
          /\ new.at = slots[r].at /\ new.id = slots[r].id
          /\ new.solved = slots[r].solved /\ new.ran = slots[r].ran
          /\ attempts' = Append(attempts, Made(r))
          /\ UNCHANGED <<stored, failed>>
      BY <1>4, AppendShape
    <2> HIDE DEF new
    <2>2. Made(r) \in Attempt /\ attempts \in Seq(Attempt)
      BY <1>1, <1>4, MadeIsAnAttempt DEF Base, TypeOK
    <2>3. /\ attempts' \in Seq(Attempt) /\ Len(attempts') = Len(attempts) + 1
          /\ Len(attempts) \in Nat /\ attempts'[Len(attempts) + 1] = Made(r)
          /\ \A k \in 1..Len(attempts) : attempts'[k] = attempts[k]
      BY <2>1, <2>2
    <2>4. Made(r).sitting = slots[r].id /\ Made(r).solved = slots[r].solved
      BY DEF Made
    <2>5. SlotOK(slots[r]) /\ Served(slots[r].id)
      BY <1>1, SlotIsTyped, HeldIsTyped
    <2>6. ASSUME NEW t, t = new
          PROVE  SlotOK(t)'
      BY <1>1, <1>2, <2>1, <2>3, <2>4, <2>5, <2>6
         DEF SlotOK, Holding, Submitting, Known, Served
    <2>7. ASSUME NEW k \in 1..Len(attempts'), k > Len(attempts)
          PROVE  Served(attempts'[k].sitting)
      <3>1. k = Len(attempts) + 1
        BY <2>3, <2>7
      <3> QED
        BY <2>3, <2>4, <2>5, <3>1
    <2>8. Len(attempts) <= Len(attempts')
      BY <2>3
    <2>9. ASSUME NEW t, t = new
          PROVE  Base'
      <3>1. SlotOK(t)' /\ t \in Slot /\ slots' = [slots EXCEPT ![r] = t]
        BY <2>1, <2>6, <2>9
      <3>2. \A k \in 1..Len(attempts) : /\ attempts'[k].sitting = attempts[k].sitting
                                        /\ attempts'[k].solved = attempts[k].solved
        BY <2>3
      <3> QED
        BY <1>2, <2>1, <2>3, <2>7, <2>8, <3>1, <3>2, AttemptsMove
    <2> QED
      BY <2>9
  <1> QED
    BY <1>3, <1>4 DEF AppendAttempt

LEMMA VerificationShape ==
    ASSUME Base, NEW r \in Slots, AppendVerification(r)
    PROVE  /\ slots[r].step = "verify" /\ slots[r].attempt \in 1..Len(attempts)
           /\ attempts' \in Seq(Attempt) /\ Len(attempts') = Len(attempts)
           /\ \A k \in 1..Len(attempts) :
                /\ attempts'[k].sitting = attempts[k].sitting
                /\ attempts'[k].solved = attempts[k].solved
                /\ attempts'[k].timed = attempts[k].timed
                /\ attempts'[k].time = attempts[k].time
                /\ attempts'[k].ran = attempts[k].ran
                /\ attempts'[k].at = attempts[k].at
           /\ Go(r, slots[r].one, IF slots[r].solved THEN "close" ELSE "free")
           /\ UNCHANGED <<stored, now, requests, ran, overlapped, died, failed>>
  <1> DEFINE n == slots[r].attempt
  <1>1. slots[r].step = "verify"
    BY DEF AppendVerification, At
  <1>2. n \in 1..Len(attempts) /\ attempts \in Seq(Attempt)
    BY <1>1, SlotIsTyped DEF SlotOK, Base, TypeOK
  <1>3. attempts' = [attempts EXCEPT ![n].verified = TRUE]
    BY DEF AppendVerification
  <1>4. attempts[n] \in Attempt
    BY <1>2
  <1>5. [attempts[n] EXCEPT !.verified = TRUE] \in Attempt
    BY <1>4 DEF Attempt
  <1> DEFINE changed == [attempts[n] EXCEPT !.verified = TRUE]
  <1>6. attempts' = [attempts EXCEPT ![n] = changed] /\ changed \in Attempt
        /\ changed.sitting = attempts[n].sitting /\ changed.solved = attempts[n].solved
        /\ changed.timed = attempts[n].timed /\ changed.time = attempts[n].time
        /\ changed.ran = attempts[n].ran /\ changed.at = attempts[n].at
    BY <1>2, <1>3, <1>4, <1>5 DEF Attempt
  <1> HIDE DEF n, changed
  <1>7. attempts' \in Seq(Attempt) /\ Len(attempts') = Len(attempts)
    BY <1>2, <1>6
  <1>8. ASSUME NEW k \in 1..Len(attempts)
        PROVE  /\ attempts'[k].sitting = attempts[k].sitting
               /\ attempts'[k].solved = attempts[k].solved
               /\ attempts'[k].timed = attempts[k].timed
               /\ attempts'[k].time = attempts[k].time
               /\ attempts'[k].ran = attempts[k].ran
               /\ attempts'[k].at = attempts[k].at
    <2>1. CASE k = n
      <3>1. attempts'[k] = changed
        BY <1>2, <1>6, <2>1
      <3> QED
        BY <1>6, <2>1, <3>1
    <2>2. CASE k # n
      <3>1. attempts'[k] = attempts[k]
        BY <1>2, <1>6, <2>2
      <3> QED
        BY <3>1
    <2> QED
      BY <2>1, <2>2
  <1>9. /\ Go(r, slots[r].one, IF slots[r].solved THEN "close" ELSE "free")
        /\ UNCHANGED <<stored, now, requests, ran, overlapped, died, failed>>
    BY DEF AppendVerification, Histories
  <1> QED
    BY <1>1, <1>2, <1>7, <1>8, <1>9 DEF n

LEMMA AppendVerificationKeepsBase ==
    ASSUME Base, NEW r \in Slots, AppendVerification(r)
    PROVE  Base'
  <1>1. /\ slots[r].step = "verify" /\ attempts' \in Seq(Attempt)
        /\ Len(attempts') = Len(attempts)
        /\ \A k \in 1..Len(attempts) : /\ attempts'[k].sitting = attempts[k].sitting
                                       /\ attempts'[k].solved = attempts[k].solved
        /\ Go(r, slots[r].one, IF slots[r].solved THEN "close" ELSE "free")
        /\ UNCHANGED <<stored, now, requests, ran, overlapped, died, failed>>
    BY VerificationShape
  <1>2. slots[r] \in Slot /\ SlotOK(slots[r]) /\ slots[r].step \in Holding
    BY <1>1, SlotIsTyped DEF Holding, Submitting
  <1>3. Len(attempts) \in Nat
    BY DEF Base, TypeOK
  <1>4. Len(attempts) <= Len(attempts') /\ \A k \in 1..Len(attempts') : ~ (k > Len(attempts))
    BY <1>1, <1>3
  <1>5. CASE ~ slots[r].solved
    <2>1. slots' = [slots EXCEPT ![r] = Free]
      <3>1. Go(r, slots[r].one, "free")
        BY <1>1, <1>5
      <3> QED
        BY <3>1, GoesOn
    <2>2. SlotOK(Free)'
      BY DEF SlotOK, Free, Holding, Submitting
    <2> QED
      BY <1>1, <1>4, <2>1, <2>2, FreeIsTyped, AttemptsMove
  <1>6. CASE slots[r].solved
    <2> DEFINE new == Taking(r, slots[r].one, "close")
    <2>1. "close" \in Steps /\ slots[r].one \in Record
      BY HeldIsTyped DEF Steps
    <2>2. /\ new \in Slot /\ new.step = "close" /\ new.one = slots[r].one
          /\ new.kind = slots[r].kind /\ new.at = slots[r].at /\ new.id = slots[r].id
          /\ new.solved = slots[r].solved /\ new.attempt = slots[r].attempt
      BY <2>1, TakingIsTyped
    <2>3. slots' = [slots EXCEPT ![r] = new]
      <3>1. Go(r, slots[r].one, "close")
        BY <1>1, <1>6
      <3> QED
        BY <3>1, GoesOn
    <2> HIDE DEF new
    <2>4. ASSUME NEW t, t = new
          PROVE  SlotOK(t)'
      BY <1>1, <1>2, <1>6, <2>2, <2>4 DEF SlotOK, Holding, Submitting, Known, Served
    <2>5. ASSUME NEW t, t = new
          PROVE  Base'
      <3>1. SlotOK(t)' /\ t \in Slot /\ slots' = [slots EXCEPT ![r] = t]
        BY <2>2, <2>3, <2>4, <2>5
      <3> QED
        BY <1>1, <1>4, <3>1, AttemptsMove
    <2> QED
      BY <2>5
  <1>7. slots[r].solved \in BOOLEAN
    BY <1>2 DEF Slot
  <1> QED
    BY <1>5, <1>6, <1>7

LEMMA TickKeepsBase ==
    ASSUME Base, Tick
    PROVE  Base'
  <1>1. /\ now \in Nat /\ now' = now + 1 /\ now' # 0 /\ now <= now' /\ now' \in Nat
        /\ UNCHANGED <<stored, attempts, slots, requests, overlapped, died, failed>>
    BY DEF Tick, Base, TypeOK
  <1>2. ran' \in [Ids -> Int]
    <2>1. ran \in [Ids -> Int]
      BY DEF Base, TypeOK
    <2>2. ASSUME NEW id \in Ids
          PROVE  (IF Served(id) /\ Running(stored[id]) /\ Timed(stored[id])
                       /\ ~ Paused(stored[id])
                  THEN ran[id] + 1 ELSE ran[id]) \in Int
      BY <2>1
    <2> QED
      BY <2>2 DEF Tick
  <1>3. TypeOK'
    BY <1>1, <1>2 DEF Base, TypeOK
  <1>4. Minted' /\ Whole' /\ OneRunning' /\ OfServed'
    BY <1>1 DEF Base, Minted, Whole, OneRunning, OfServed, Served
  <1>5. ASSUME NEW s \in Slots
        PROVE  SlotOK(slots[s])'
    <2>1. SlotOK(slots[s]) /\ slots[s] \in Slot
      BY SlotIsTyped
    <2>2. slots[s].at \in 1..now => slots[s].at \in 1..now'
      BY <1>1
    <2> QED
      BY <1>1, <2>1, <2>2 DEF SlotOK, Known, Served
  <1> QED
    BY <1>1, <1>3, <1>4, <1>5 DEF Base

LEMMA RestartKeepsBase ==
    ASSUME Base, Restart
    PROVE  Base'
  <1>1. /\ slots' = [r \in Slots |-> Free] /\ died' = TRUE
        /\ UNCHANGED <<stored, attempts, now, requests, ran, overlapped, failed>>
    BY DEF Restart
  <1>2. TypeOK'
    BY <1>1, FreeIsTyped DEF Base, TypeOK
  <1>3. now' # 0 /\ Minted' /\ Whole' /\ OneRunning' /\ OfServed'
    BY <1>1 DEF Base, Minted, Whole, OneRunning, OfServed, Served
  <1>4. ASSUME NEW s \in Slots
        PROVE  SlotOK(slots[s])'
    BY <1>1 DEF SlotOK, Free, Holding, Submitting
  <1> QED
    BY <1>2, <1>3, <1>4 DEF Base

LEMMA InitBase ==
    ASSUME Init
    PROVE  Base
  <1>1. \A id \in Ids : ~ Served(id)
    BY DEF Init, Served
  <1>2. TypeOK
    <2>1. <<>> \in Seq(Attempt)
      OBVIOUS
    <2>2. attempts \in Seq(Attempt)
      BY <2>1 DEF Init
    <2>3. /\ stored \in [Ids -> Record] /\ slots \in [Slots -> Slot]
          /\ now \in Nat /\ requests \in Nat /\ ran \in [Ids -> Int]
      BY FreeIsTyped DEF Init
    <2>4. overlapped \in BOOLEAN /\ died \in BOOLEAN /\ failed \in BOOLEAN
      BY Zenon DEF Init
    <2> QED
      BY <2>2, <2>3, <2>4 DEF TypeOK
  <1>3. Minted
    <2>1. {id \in Ids : Served(id)} = 1..0
      BY <1>1
    <2> QED
      BY <2>1 DEF Minted
  <1>4. Whole /\ OneRunning /\ OfServed
    BY <1>1 DEF Init, Whole, OneRunning, OfServed
  <1>5. ASSUME NEW s \in Slots
        PROVE  SlotOK(slots[s])
    BY DEF Init, SlotOK, Free, Holding, Submitting
  <1> QED
    BY <1>2, <1>3, <1>4, <1>5 DEF Init, Base

LEMMA StepKeepsBase ==
    ASSUME Base, [Next]_vars
    PROVE  Base'
  <1>1. CASE UNCHANGED vars
    <2>1. TypeOK' /\ now' # 0
      BY <1>1 DEF vars, Base, TypeOK
    <2>2. Minted' /\ Whole' /\ OneRunning' /\ OfServed'
      BY <1>1 DEF vars, Base, Minted, Whole, OneRunning, OfServed, Served
    <2>3. ASSUME NEW s \in Slots
          PROVE  SlotOK(slots[s])'
      BY <1>1 DEF vars, Base, SlotOK, Known, Served
    <2> QED
      BY <2>1, <2>2, <2>3 DEF Base
  <1>2. ASSUME NEW r \in Slots, NEW kind \in Kinds, NEW id \in Ids \cup {0},
               Arrive(r, kind, id)
        PROVE  Base'
    BY <1>2, ArriveKeepsBase
  <1>3. ASSUME NEW r \in Slots, ReadRow(r)
        PROVE  Base'
    BY <1>3, ReadRowKeepsBase
  <1>4. ASSUME NEW r \in Slots, ReadPauses(r)
        PROVE  Base'
    BY <1>4, ReadPausesKeepsBase
  <1>5. ASSUME NEW r \in Slots, Act(r)
        PROVE  Base'
    BY <1>5, ActKeepsBase
  <1>6. ASSUME NEW r \in Slots, Mint(r)
        PROVE  Base'
    BY <1>6, MintKeepsBase
  <1>7. ASSUME NEW r \in Slots, Count(r) \/ Touch(r) \/ Judge(r) \/ CloseSolved(r)
        PROVE  Base'
    BY <1>7, SubmissionKeepsBase
  <1>8. ASSUME NEW r \in Slots, AppendAttempt(r)
        PROVE  Base'
    BY <1>8, AppendAttemptKeepsBase
  <1>9. ASSUME NEW r \in Slots, AppendVerification(r)
        PROVE  Base'
    BY <1>9, AppendVerificationKeepsBase
  <1> QED
    BY <1>1, <1>2, <1>3, <1>4, <1>5, <1>6, <1>7, <1>8, <1>9, TickKeepsBase, RestartKeepsBase
       DEF Next

-----------------------------------------------------------------------------
(* Alone, step by step.  *)

\* What a request alone in flight finds.
LEMMA WhatIsAlone ==
    ASSUME Base, Alone, ~ overlapped, NEW r \in Slots, slots[r].step # "free"
    PROVE  /\ ~ failed /\ AloneOK(slots[r])
           /\ \A s \in Slots \ {r} : slots[s].step = "free" /\ slots[s].attempt = 0
           /\ \A id \in Ids : Known(id) /\ Running(stored[id]) =>
                                Live(id, now) /\ stored[id].active <= slots[r].at
  <1>1. /\ ~ failed /\ AloneOK(slots[r])
        /\ \A s \in Slots : slots[s].step # "free" => s = r
        /\ \A id \in Ids : Known(id) /\ Running(stored[id]) => Live(id, now)
    BY DEF Alone, At
  <1>2. \A s \in Slots : slots[s].step = "free" => slots[s].attempt = 0
    BY DEF Base, SlotOK
  <1>3. \A id \in Ids : Known(id) /\ Running(stored[id]) => stored[id].active <= slots[r].at
    BY <1>1 DEF AloneOK
  <1> QED
    BY <1>1, <1>2, <1>3

\* One request moved and the others stayed free.
LEMMA AloneFrom ==
    ASSUME Base, Alone, ~ overlapped, NEW r \in Slots, slots[r].step # "free",
           NEW new \in Slot, slots' = [slots EXCEPT ![r] = new],
           ~ failed', AloneOK(new)',
           \A id \in Ids : Known(id)' /\ Running(stored'[id]) => Live(id, now)',
           TimeIsWhatTheClockRan', SolvedEndsTheSitting'
    PROVE  Alone'
  <1>1. \A s \in Slots \ {r} : slots[s].step = "free"
    BY WhatIsAlone
  <1>2. \A s \in Slots : slots'[s] = IF s = r THEN new ELSE slots[s]
    BY DEF Base, TypeOK
  <1>3. \A s, t \in Slots : ~ At(s, "free")' /\ ~ At(t, "free")' => s = t
    BY <1>1, <1>2 DEF At
  <1>4. ASSUME NEW s \in Slots
        PROVE  AloneOK(slots[s])'
    <2>1. CASE s = r
      <3>1. slots'[s] = new
        BY <1>2, <2>1
      <3> QED
        BY <3>1 DEF AloneOK, Known, Served
    <2>2. CASE s # r
      <3>1. slots'[s].step = "free"
        BY <1>1, <1>2, <2>2
      <3> QED
        BY <3>1 DEF AloneOK, Holding, Submitting
    <2> QED
      BY <2>1, <2>2
  <1> QED
    BY <1>3, <1>4 DEF Alone

\* One request moved and nothing else did; an attempt it appended is still its.
LEMMA AloneSlotMoves ==
    ASSUME Base, Alone, ~ overlapped, NEW r \in Slots, slots[r].step # "free",
           NEW new \in Slot, slots' = [slots EXCEPT ![r] = new], AloneOK(new),
           slots[r].attempt = 0 \/ new.attempt = slots[r].attempt,
           UNCHANGED <<stored, attempts, now, ran, overlapped, died, failed>>
    PROVE  Alone'
  <1>1. ~ failed' /\ \A id \in Ids : Known(id)' /\ Running(stored'[id]) => Live(id, now)'
    BY WhatIsAlone DEF Live, Known, Served
  <1>2. AloneOK(new)'
    BY DEF AloneOK, Known, Served
  <1>3. TimeIsWhatTheClockRan'
    BY DEF Alone, TimeIsWhatTheClockRan
  <1>4. SolvedEndsTheSitting'
    <2>1. SUFFICES ASSUME ~ died, NEW k \in 1..Len(attempts), attempts[k].solved,
                          Running(stored[attempts[k].sitting])
                   PROVE  \E s \in Slots : slots'[s].attempt = k
      BY DEF SolvedEndsTheSitting
    <2>2. PICK s \in Slots : slots[s].attempt = k
      BY <2>1 DEF Alone, SolvedEndsTheSitting
    <2>3. k # 0
      BY <2>1
    <2>4. s = r
      BY <2>2, <2>3, WhatIsAlone
    <2>5. slots'[r] = new
      BY DEF Base, TypeOK
    <2> QED
      BY <2>2, <2>3, <2>4, <2>5
  <1> QED
    BY <1>1, <1>2, <1>3, <1>4, AloneFrom

LEMMA FreeIsAlone ==
    AloneOK(Free)
  BY DEF AloneOK, Free, Holding, Submitting

LEMMA AloneAnswers ==
    ASSUME Base, Alone, ~ overlapped, NEW r \in Slots,
           slots[r].step \notin {"free", "verify", "close"}, Answer(r),
           UNCHANGED <<stored, attempts, now, ran, overlapped, died, failed>>
    PROVE  Alone'
  <1>1. slots' = [slots EXCEPT ![r] = Free]
    BY GoesOn DEF Answer
  <1>2. slots[r].attempt = 0
    BY SlotIsTyped DEF SlotOK
  <1> QED
    BY <1>1, <1>2, FreeIsAlone, FreeIsTyped, AloneSlotMoves

\* A request alone in flight stores what it makes of the running sitting.
LEMMA AloneStores ==
    ASSUME Base, NEW id, Known(id), Running(stored[id]), NEW one, Valid(one)
    PROVE  /\ Storable(id, one)
           /\ \A i \in Ids \ {id} : Known(i) => ~ Running(stored[i])
  <1>1. \A i \in Ids \ {id} : Served(i) => ~ Running(stored[i])
    BY DEF Base, OneRunning, Known
  <1> QED
    BY <1>1 DEF Storable, Known

LEMMA AlonePuts ==
    ASSUME Base, Alone, ~ overlapped, NEW r \in Slots, slots[r].step \in Holding,
           NEW id, id = slots[r].id, Running(stored[id]),
           NEW one \in Record, one.started # 0, Valid(one),
           NEW step \in {"free", "mint", "judge"}, Put(r, one, step),
           UNCHANGED <<now, overlapped, died>>,
           \A i \in Ids \ {id} : ran'[i] = ran[i],
           Running(one) => /\ Edge(one, Len(one.pauses)) <= one.active
                           /\ one.active \in 1..now
                           /\ Timed(one) => ran'[id] = Elapsed(one, now)
                           /\ slots[r].attempt = 0,
           step = "mint" => ~ Running(one) /\ slots[r].kind = "serve",
           step = "judge" => /\ one.active <= slots[r].at
                             /\ Timed(one) => slots[r].ran = Elapsed(one, slots[r].at)
    PROVE  Alone'
  <1>1. id \in Ids /\ Served(id) /\ Known(id) /\ slots[r].step # "free"
    BY HeldIsTyped DEF Known, Holding, Submitting
  <1>2. Storable(id, one) /\ \A i \in Ids \ {id} : Known(i) => ~ Running(stored[i])
    BY <1>1, AloneStores
  <1>3. /\ stored' = [stored EXCEPT ![id] = one] /\ Go(r, one, step)
        /\ UNCHANGED <<attempts, failed>>
    BY <1>2 DEF Put
  <1>4. stored'[id] = one /\ \A i \in Ids \ {id} : stored'[i] = stored[i]
    BY <1>1, <1>3 DEF Base, TypeOK
  <1>5. \A i \in Ids : Known(i)' <=> Known(i)
    <2>1. one # Absent
      BY DEF Absent
    <2> QED
      BY <1>1, <1>4, <2>1 DEF Known, Served
  <1>6. \A i \in Ids \ {id} : Known(i)' => ~ Running(stored'[i])
    BY <1>2, <1>4, <1>5
  <1>7. ASSUME NEW i \in Ids, Known(i)', Running(stored'[i])
        PROVE  Live(i, now)'
    <2>1. i = id
      BY <1>6, <1>7
    <2> QED
      BY <1>4, <1>7, <2>1 DEF Live
  <1>8. ~ failed' /\ TimeIsWhatTheClockRan'
    BY <1>1, <1>3, WhatIsAlone DEF Alone, TimeIsWhatTheClockRan
  <1>9. SolvedEndsTheSitting'
    <2>1. SUFFICES ASSUME ~ died, NEW k \in 1..Len(attempts), attempts[k].solved,
                          Running(stored'[attempts[k].sitting])
                   PROVE  FALSE
      BY <1>3 DEF SolvedEndsTheSitting
    <2>2. Known(attempts[k].sitting)
      <3>1. attempts[k] \in Attempt
        BY DEF Base, TypeOK
      <3> QED
        BY <3>1 DEF Attempt, Base, OfServed, Known
    <2>3. attempts[k].sitting = id
      BY <1>5, <1>6, <2>1, <2>2 DEF Known
    <2>4. PICK s \in Slots : slots[s].attempt = k
      BY <2>1, <2>3 DEF Alone, SolvedEndsTheSitting
    <2>5. slots[r].attempt = 0
      BY <1>4, <2>1, <2>3
    <2>6. k # 0
      BY <2>1
    <2> QED
      BY <1>1, <2>4, <2>5, <2>6, WhatIsAlone
  <1>10. CASE step = "free"
    <2>1. slots' = [slots EXCEPT ![r] = Free]
      BY <1>3, <1>10, GoesOn
    <2>2. AloneOK(Free)'
      BY DEF AloneOK, Free, Holding, Submitting
    <2> QED
      BY <1>1, <1>7, <1>8, <1>9, <2>1, <2>2, FreeIsTyped, AloneFrom
  <1>11. CASE step # "free"
    <2> DEFINE new == Taking(r, one, step)
    <2>1. step \in Steps
      BY DEF Steps
    <2>2. /\ new \in Slot /\ new.step = step /\ new.one = one
          /\ new.kind = slots[r].kind /\ new.at = slots[r].at
          /\ new.id = id /\ new.ran = slots[r].ran
      BY <2>1, TakingIsTyped
    <2>3. slots' = [slots EXCEPT ![r] = new]
      BY <1>3, <1>11, GoesOn
    <2> HIDE DEF new
    <2>4. ASSUME NEW t, t = new
          PROVE  AloneOK(t)'
      <3>1. CASE step = "mint"
        <4>1. \A i \in Ids : Known(i)' => ~ Running(stored'[i])
          BY <1>4, <1>6, <3>1
        <4> QED
          BY <2>2, <2>4, <3>1, <4>1 DEF AloneOK, Holding, Submitting
      <3>2. CASE step = "judge"
        <4>1. \A i \in Ids : Known(i)' /\ Running(stored'[i]) => stored'[i].active <= t.at
          BY <1>4, <1>6, <2>2, <2>4, <3>2
        <4>2. /\ t.one = stored'[t.id]
              /\ Timed(stored'[t.id]) => t.ran = Elapsed(stored'[t.id], t.at)
          BY <1>4, <2>2, <2>4, <3>2
        <4> QED
          BY <2>2, <2>4, <3>2, <4>1, <4>2 DEF AloneOK, Holding, Submitting
      <3> QED
        BY <1>11, <3>1, <3>2
    <2>5. ASSUME NEW t, t = new
          PROVE  Alone'
      <3>1. t \in Slot /\ slots' = [slots EXCEPT ![r] = t] /\ AloneOK(t)'
        BY <2>2, <2>3, <2>4, <2>5
      <3> QED
        BY <1>1, <1>7, <1>8, <1>9, <3>1, AloneFrom
    <2> QED
      BY <2>5
  <1> QED
    BY <1>10, <1>11

LEMMA ArriveKeepsAlone ==
    ASSUME Base, Alone, NEW r \in Slots, NEW kind \in Kinds, NEW id \in Ids \cup {0},
           Arrive(r, kind, id)
    PROVE  Alone'
  <1>1. SUFFICES ASSUME ~ overlapped' PROVE Alone'
    BY DEF Alone
  <1> DEFINE new == [Free EXCEPT !.step = "row", !.kind = kind, !.at = now,
                                 !.id = id, !.ran = IF id = 0 THEN 0 ELSE ran[id]]
  <1>2. /\ ~ overlapped /\ UNCHANGED <<stored, attempts, now, ran, died, failed>>
        /\ \A s \in Slots : slots[s].step = "free"
        /\ slots' = [slots EXCEPT ![r] = new]
    BY <1>1 DEF Arrive, At
  <1>3. /\ new.step = "row" /\ new.kind = kind /\ new.at = now
        /\ new.id = id /\ new.attempt = 0 /\ new.ran = IF id = 0 THEN 0 ELSE ran[id]
    BY DEF Free
  <1> HIDE DEF new
  <1>4. \A s \in Slots : slots'[s] = IF s = r THEN new ELSE slots[s]
    BY <1>2 DEF Base, TypeOK
  <1>5. /\ ~ failed /\ TimeIsWhatTheClockRan /\ SolvedEndsTheSitting
        /\ \A i \in Ids : Known(i) /\ Running(stored[i]) => Live(i, now)
    BY <1>2 DEF Alone
  <1>6. \A s \in Slots : slots[s].attempt = 0
    BY <1>2 DEF Base, SlotOK
  <1>7. AloneOK(new)
    <2>1. \A i \in Ids : Known(i) /\ Running(stored[i]) => stored[i].active <= now
      BY <1>5 DEF Live, Base, TypeOK
    <2>2. kind = "submit" => Known(id)
      BY DEF Arrive, Known
    <2>3. kind = "submit" => id # 0
      BY <2>2, SittingAssumption DEF Known
    <2>4. kind = "submit" /\ Running(stored[id]) /\ Timed(stored[id]) =>
            new.ran = Elapsed(stored[id], now)
      BY <1>3, <1>5, <2>2, <2>3 DEF Live, Known
    <2> QED
      BY <1>3, <2>1, <2>4 DEF AloneOK, Holding, Submitting
  <1>8. ASSUME NEW s \in Slots
        PROVE  AloneOK(slots[s])'
    <2>1. CASE s = r
      <3>1. slots'[s] = new
        BY <1>4, <2>1
      <3> QED
        BY <1>2, <1>7, <3>1 DEF AloneOK, Known, Served
    <2>2. CASE s # r
      <3>1. slots'[s].step = "free"
        BY <1>2, <1>4, <2>2
      <3> QED
        BY <3>1 DEF AloneOK, Holding, Submitting
    <2> QED
      BY <2>1, <2>2
  <1>9. \A s, t \in Slots : ~ At(s, "free")' /\ ~ At(t, "free")' => s = t
    BY <1>2, <1>4 DEF At
  <1>10. /\ ~ failed' /\ TimeIsWhatTheClockRan'
         /\ \A i \in Ids : Known(i)' /\ Running(stored'[i]) => Live(i, now)'
    BY <1>1, <1>2, <1>5 DEF TimeIsWhatTheClockRan, Known, Served, Live
  <1>11. SolvedEndsTheSitting'
    <2>1. ASSUME ~ died, NEW k \in 1..Len(attempts), attempts[k].solved
          PROVE  ~ Running(stored[attempts[k].sitting])
      <3>1. k # 0
        BY SMTT(40), <2>1
      <3> QED
        BY <1>2, <1>5, <1>6, <2>1, <3>1 DEF SolvedEndsTheSitting
    <2> QED
      BY <1>2, <2>1 DEF SolvedEndsTheSitting
  <1> QED
    BY <1>8, <1>9, <1>10, <1>11 DEF Alone

LEMMA ReadRowKeepsAlone ==
    ASSUME Base, Alone, NEW r \in Slots, ReadRow(r)
    PROVE  Alone'
  <1>1. UNCHANGED <<stored, attempts, now, ran, overlapped, died, failed>>
    BY DEF ReadRow, Histories
  <1>2. SUFFICES ASSUME ~ overlapped PROVE Alone'
    BY SMTT(40), <1>1 DEF Alone
  <1> DEFINE open == {id \in Ids : Served(id) /\ Running(stored[id])}
             from == IF slots[r].kind = "serve" THEN open ELSE {slots[r].id}
  <1>3. /\ slots[r] \in Slot /\ SlotOK(slots[r]) /\ slots[r].step = "row"
        /\ stored \in [Ids -> Record] /\ slots[r].attempt = 0
    BY SlotIsTyped DEF ReadRow, At, Base, TypeOK, SlotOK
  <1>4. /\ AloneOK(slots[r])
        /\ \A id \in Ids : Known(id) /\ Running(stored[id]) =>
                             stored[id].active <= slots[r].at
    BY <1>2, <1>3, WhatIsAlone
  <1>5. CASE slots[r].kind = "serve" /\ open = {} /\ Go(r, Absent, "mint")
    <2> DEFINE new == Taking(r, Absent, "mint")
    <2>1. "mint" \in Steps /\ Absent \in Record
      BY FreeIsTyped DEF Steps
    <2>2. /\ new \in Slot /\ new.step = "mint"
          /\ new.kind = slots[r].kind /\ new.at = slots[r].at
      BY <2>1, TakingIsTyped
    <2>3. slots' = [slots EXCEPT ![r] = new]
      BY <1>5, GoesOn
    <2> HIDE DEF new
    <2>4. \A id \in Ids : Known(id) => ~ Running(stored[id])
      BY <1>5 DEF Known
    <2>5. AloneOK(new)
      BY <1>5, <2>2, <2>4 DEF AloneOK, Holding, Submitting
    <2> QED
      BY <1>1, <1>2, <1>3, <2>2, <2>3, <2>5, AloneSlotMoves
  <1>6. ASSUME NEW id \in from,
               slots' = [slots EXCEPT ![r] =
                           [@ EXCEPT !.step = "pauses", !.id = id,
                                     !.one = [stored[id] EXCEPT !.pauses = <<>>]]]
        PROVE  Alone'
    <2> DEFINE row == [stored[id] EXCEPT !.pauses = <<>>]
               new == [slots[r] EXCEPT !.step = "pauses", !.id = id, !.one = row]
    <2>1. id \in Ids /\ (slots[r].kind # "serve" => id = slots[r].id)
      BY <1>3, <1>6 DEF SlotOK, Known
    <2>2. stored[id] \in Record
      BY <1>3, <2>1
    <2>3. row \in Record
      <3>1. <<>> \in Seq(Pause)
        OBVIOUS
      <3> QED
        BY <2>2, <3>1 DEF Record
    <2> HIDE DEF row
    <2>4. /\ new \in Slot /\ new.step = "pauses" /\ new.one = row
          /\ new.kind = slots[r].kind /\ new.at = slots[r].at
          /\ new.id = id /\ new.ran = slots[r].ran
      BY <1>3, <2>1, <2>3 DEF Slot, Steps
    <2>5. slots' = [slots EXCEPT ![r] = new]
      BY <1>6 DEF row
    <2> HIDE DEF new
    <2>6. new.one = [stored[new.id] EXCEPT !.pauses = <<>>]
      BY <2>4 DEF row
    <2>7. AloneOK(new)
      <3>1. slots[r].step # "free"
        BY <1>3
      <3>2. slots[r].kind = "submit" => id = slots[r].id
        BY <2>1
      <3> QED
        BY <1>4, <2>4, <2>6, <3>1, <3>2 DEF AloneOK, Holding, Submitting
    <2> QED
      BY <1>1, <1>2, <1>3, <2>4, <2>5, <2>7, AloneSlotMoves
  <1> QED
    BY <1>5, <1>6 DEF ReadRow

\* What it reads of the two tables is then what is stored, and can be read back.
LEMMA ReadPausesKeepsAlone ==
    ASSUME Base, Alone, NEW r \in Slots, ReadPauses(r)
    PROVE  Alone'
  <1>1. UNCHANGED <<stored, attempts, now, ran, overlapped, died>>
    BY DEF ReadPauses, Fail
  <1>2. SUFFICES ASSUME ~ overlapped PROVE Alone'
    BY <1>1 DEF Alone
  <1> DEFINE id == slots[r].id
             whole == [slots[r].one EXCEPT !.pauses = stored[id].pauses]
             at == IF slots[r].kind = "get" THEN now ELSE slots[r].at
             new == [slots[r] EXCEPT !.step = "act", !.one = whole, !.at = at]
  <1>3. /\ slots[r] \in Slot /\ SlotOK(slots[r]) /\ slots[r].step = "pauses"
        /\ stored \in [Ids -> Record] /\ slots[r].attempt = 0 /\ now \in Nat
    BY SlotIsTyped DEF ReadPauses, At, Base, TypeOK, SlotOK
  <1>4. id \in Ids /\ Served(id) /\ at \in Nat
    BY <1>3, HeldIsTyped DEF Holding
  <1>5. /\ AloneOK(slots[r])
        /\ \A i \in Ids : Known(i) /\ Running(stored[i]) =>
                            Live(i, now) /\ stored[i].active <= slots[r].at
    BY <1>2, <1>3, WhatIsAlone
  <1>6. whole = stored[id]
    <2>1. slots[r].one = [stored[id] EXCEPT !.pauses = <<>>]
      BY <1>3, <1>5 DEF AloneOK
    <2>2. stored[id] \in Record
      BY <1>3, <1>4
    <2> QED
      BY <2>1, <2>2 DEF Record
  <1>7. Valid(whole)
    BY <1>4, <1>6 DEF Base, Whole
  <1>8. slots' = [slots EXCEPT ![r] = new] /\ UNCHANGED failed
    BY <1>7 DEF ReadPauses
  <1>9. stored[id] \in Record
    BY <1>3, <1>4
  <1> HIDE DEF whole, at
  <1>10. /\ new \in Slot /\ new.step = "act" /\ new.one = whole
         /\ new.kind = slots[r].kind /\ new.at = at
         /\ new.id = id /\ new.ran = slots[r].ran /\ new.attempt = 0
    BY <1>3, <1>4, <1>6, <1>9 DEF Slot, Steps
  <1> HIDE DEF new
  <1>11. AloneOK(new)
    <2>1. \A i \in Ids : Known(i) /\ Running(stored[i]) => stored[i].active <= at
      <3>1. \A i \in Ids : Known(i) /\ Running(stored[i]) => stored[i].active <= now
        BY <1>3, <1>5 DEF Live
      <3> QED
        BY <1>5, <3>1 DEF at
    <2>2. slots[r].kind = "submit" => at = slots[r].at
      BY DEF at
    <2> QED
      BY <1>3, <1>5, <1>6, <1>10, <2>1, <2>2 DEF AloneOK, Holding, Submitting
  <1> QED
    BY <1>1, <1>2, <1>3, <1>8, <1>10, <1>11, AloneSlotMoves

\* What a request alone in flight holds is what is stored.
LEMMA ActsAlone ==
    ASSUME Base, Alone, ~ overlapped, NEW r \in Slots, slots[r].step \in Holding \ {"pauses"},
           NEW one, one = slots[r].one
    PROVE  /\ slots[r].step # "free" /\ slots[r].id \in Ids /\ Served(slots[r].id)
           /\ one = stored[slots[r].id] /\ one \in Record /\ Valid(one) /\ one.started # 0
           /\ slots[r].at \in 1..now /\ slots[r].at \in Nat \ {0}
           /\ now \in Nat /\ ran \in [Ids -> Int]
           /\ one.active \in Nat /\ one.clock \in Nat /\ one.started \in Nat
           /\ Edge(one, Len(one.pauses)) \in Nat
           /\ Running(one) =>
                /\ Edge(one, Len(one.pauses)) <= one.active
                /\ one.active <= slots[r].at /\ one.active \in 1..now
                /\ Edge(one, Len(one.pauses)) <= slots[r].at
                /\ Timed(one) => ran[slots[r].id] = Elapsed(one, now)
                /\ slots[r].kind = "submit" /\ Timed(one) =>
                     slots[r].ran = Elapsed(one, slots[r].at)
  <1> DEFINE id == slots[r].id
  <1>1. slots[r].step # "free" /\ slots[r].step \in Holding
    BY DEF Holding, Submitting
  <1>2. /\ id \in Ids /\ Served(id) /\ slots[r].at \in 1..now /\ one \in Record
        /\ now \in Nat /\ ran \in [Ids -> Int] /\ one.started # 0
    BY <1>1, HeldIsTyped
  <1>3. /\ AloneOK(slots[r])
        /\ \A i \in Ids : Known(i) /\ Running(stored[i]) =>
                            Live(i, now) /\ stored[i].active <= slots[r].at
    BY <1>1, WhatIsAlone
  <1>4. one = stored[id]
    BY <1>3 DEF AloneOK
  <1>5. Valid(one)
    BY <1>2, <1>4 DEF Base, Whole
  <1>6. one.active \in Nat /\ one.clock \in Nat /\ one.started \in Nat /\ one.pauses \in Seq(Pause)
    BY <1>2 DEF Record
  <1>7. Edge(one, Len(one.pauses)) \in Nat
    <2>1. Len(one.pauses) \in Nat
      BY <1>6
    <2>2. CASE Len(one.pauses) > 0
      <3>1. one.pauses[Len(one.pauses)] \in Pause
        BY <1>6, <2>1, <2>2
      <3> QED
        BY <2>2, <3>1 DEF Edge, Pause
    <2>3. CASE ~ (Len(one.pauses) > 0)
      BY <1>6, <2>3 DEF Edge
    <2> QED
      BY <2>2, <2>3
  <1>8. ASSUME Running(one)
        PROVE  /\ Edge(one, Len(one.pauses)) <= one.active
               /\ one.active <= slots[r].at /\ one.active \in 1..now
               /\ Timed(one) => ran[id] = Elapsed(one, now)
               /\ slots[r].kind = "submit" /\ Timed(one) =>
                    slots[r].ran = Elapsed(one, slots[r].at)
    <2>1. Known(id) /\ Live(id, now) /\ stored[id].active <= slots[r].at
      BY <1>2, <1>3, <1>4, <1>8 DEF Known
    <2>2. slots[r].kind = "submit" /\ Timed(one) => slots[r].ran = Elapsed(one, slots[r].at)
      BY <1>1, <1>3, <1>4, <1>8 DEF AloneOK
    <2> QED
      BY <1>4, <2>1, <2>2 DEF Live
  <1>9. slots[r].at \in Nat \ {0}
    BY <1>2
  <1> HIDE DEF id
  <1>10. Running(one) => Edge(one, Len(one.pauses)) <= slots[r].at
    BY <1>6, <1>7, <1>8, <1>9
  <1> QED
    BY <1>1, <1>2, <1>4, <1>5, <1>6, <1>7, <1>8, <1>9, <1>10 DEF id

\* Ending the running sitting, where it was last touched or now.
LEMMA AloneEnds ==
    ASSUME Base, Alone, ~ overlapped, NEW r \in Slots, slots[r].step \in Holding \ {"pauses"},
           Running(slots[r].one), NEW at \in {slots[r].one.active, slots[r].at},
           NEW step \in {"free", "mint"}, Put(r, Ended(slots[r].one, at), step),
           step = "mint" => slots[r].kind = "serve",
           UNCHANGED <<now, ran, overlapped, died>>
    PROVE  Alone'
  <1> DEFINE one == slots[r].one
             id == slots[r].id
             new == Ended(one, at)
  <1>1. /\ one = stored[id] /\ one \in Record /\ Valid(one) /\ one.started # 0
        /\ Edge(one, Len(one.pauses)) <= at /\ at \in Nat \ {0}
    BY ActsAlone
  <1>2. new \in Record /\ Valid(new) /\ ~ Running(new)
    BY <1>1, EndedIsValid
  <1>3. new.started # 0
    BY <1>1, MadeIsTyped
  <1>4. Put(r, new, step) /\ Running(stored[id])
    BY <1>1
  <1>5. slots[r].step \in Holding /\ step \in {"free", "mint", "judge"} /\ step # "judge"
    OBVIOUS
  <1> HIDE DEF one, new, id
  <1> QED
    BY <1>2, <1>3, <1>4, <1>5, AlonePuts DEF id

\* Touching it.
LEMMA AloneTouches ==
    ASSUME Base, Alone, ~ overlapped, NEW r \in Slots, slots[r].step \in Holding \ {"pauses"},
           Running(slots[r].one), slots[r].attempt = 0,
           NEW at \in Nat, slots[r].at <= at, at <= now,
           NEW step \in {"free", "judge"}, Put(r, Touched(slots[r].one, at), step),
           step = "judge" => at = slots[r].at /\ slots[r].kind = "submit",
           UNCHANGED <<now, ran, overlapped, died>>
    PROVE  Alone'
  <1> DEFINE one == slots[r].one
             id == slots[r].id
             new == Touched(one, at)
  <1>1. /\ one = stored[id] /\ one \in Record /\ Valid(one) /\ one.started # 0
        /\ Edge(one, Len(one.pauses)) \in Nat /\ one.active \in Nat
        /\ slots[r].at \in Nat \ {0} /\ now \in Nat
        /\ Edge(one, Len(one.pauses)) <= one.active /\ one.active <= slots[r].at
        /\ Timed(one) => ran[id] = Elapsed(one, now)
        /\ slots[r].kind = "submit" /\ Timed(one) => slots[r].ran = Elapsed(one, slots[r].at)
    BY ActsAlone
  <1>2. /\ new \in Record /\ Valid(new) /\ Running(new) /\ new.active = at
        /\ new.started = one.started /\ new.clock = one.clock
        /\ Edge(new, Len(new.pauses)) = Edge(one, Len(one.pauses))
        /\ \A t : Elapsed(new, t) = Elapsed(one, t)
    BY <1>1, TouchedIsValid
  <1>3. Put(r, new, step) /\ Running(stored[id]) /\ new.started # 0
    BY <1>1, <1>2
  <1>4. slots[r].step \in Holding /\ step \in {"free", "mint", "judge"} /\ step # "mint"
    OBVIOUS
  <1>5. Timed(new) <=> Timed(one)
    BY <1>2 DEF Timed
  <1>6. Timed(new) => ran'[id] = Elapsed(new, now)
    BY <1>1, <1>2, <1>5
  <1>7. Edge(new, Len(new.pauses)) <= new.active /\ new.active \in 1..now
    BY <1>1, <1>2
  <1>8. step = "judge" => /\ new.active <= slots[r].at
                          /\ Timed(new) => slots[r].ran = Elapsed(new, slots[r].at)
    BY <1>1, <1>2, <1>5
  <1> HIDE DEF one, new, id
  <1> QED
    BY <1>2, <1>3, <1>4, <1>6, <1>7, <1>8, AlonePuts DEF id

\* A press of the clock, which counts it from then on.
LEMMA AlonePresses ==
    ASSUME Base, Alone, ~ overlapped, NEW r \in Slots, slots[r].step = "act",
           Running(slots[r].one), NEW new \in Record, new.started # 0, Valid(new),
           Running(new), Edge(new, Len(new.pauses)) = slots[r].at, new.active = slots[r].at,
           NEW counted, counted = Elapsed(new, now), Press(r, new, counted),
           UNCHANGED <<now, overlapped, died>>
    PROVE  Alone'
  <1> DEFINE id == slots[r].id
  <1>1. slots[r].step \in Holding \ {"pauses"} /\ slots[r].attempt = 0
    BY SlotIsTyped DEF SlotOK, Holding
  <1>2. /\ id \in Ids /\ Served(id) /\ Running(stored[id]) /\ slots[r].at \in 1..now
        /\ ran \in [Ids -> Int] /\ slots[r].at \in Nat
    BY <1>1, ActsAlone
  <1>3. Storable(id, new)
    BY <1>2, AloneStores DEF Known
  <1>4. Put(r, new, "free") /\ ran' = [ran EXCEPT ![id] = counted]
    BY <1>3 DEF Press
  <1>5. ran'[id] = counted /\ \A i \in Ids \ {id} : ran'[i] = ran[i]
    BY <1>2, <1>4
  <1>6. /\ Edge(new, Len(new.pauses)) <= new.active /\ new.active \in 1..now
        /\ Timed(new) => ran'[id] = Elapsed(new, now)
    BY <1>2, <1>5
  <1>7. "free" \in {"free", "mint", "judge"}
    OBVIOUS
  <1> HIDE DEF id
  <1> QED
    BY <1>1, <1>2, <1>4, <1>5, <1>6, <1>7, AlonePuts DEF id

LEMMA PressKeepsAlone ==
    ASSUME Base, Alone, ~ overlapped, NEW r \in Slots, slots[r].step = "act",
           StartClock(r) \/ PauseClock(r) \/ ResumeClock(r), ~ Leave(r),
           UNCHANGED <<now, overlapped, died>>
    PROVE  Alone'
  <1> DEFINE one == slots[r].one
             at == slots[r].at
             id == slots[r].id
  <1>1. slots[r].step \in Holding \ {"pauses"}
    BY DEF Holding
  <1>2. /\ one \in Record /\ Valid(one) /\ one.started # 0 /\ at \in Nat \ {0} /\ at \in Nat
        /\ now \in Nat /\ one.clock \in Nat /\ at <= now
        /\ Running(one) => /\ Edge(one, Len(one.pauses)) <= at
                           /\ Timed(one) => ran[id] = Elapsed(one, now)
    BY <1>1, ActsAlone
  <1> HIDE DEF one, at, id
  <1>3. CASE StartClock(r)
    <2> DEFINE new == ClockStarted(one, at)
    <2>1. Running(one) /\ one.clock = 0 /\ Press(r, new, now - at)
      BY <1>3 DEF StartClock, one, at
    <2>2. one.started <= at
      <3>1. one.pauses = <<>>
        BY <1>2, <2>1 DEF Valid
      <3>2. Edge(one, Len(one.pauses)) = one.started
        BY <2>1, <3>1 DEF Edge
      <3> QED
        BY <1>2, <2>1, <3>2
    <2>3. /\ new \in Record /\ Valid(new) /\ Running(new) /\ new.pauses = <<>>
          /\ Edge(new, Len(new.pauses)) = at /\ Elapsed(new, at) = 0
      BY <1>2, <2>1, <2>2, StartedIsValid
    <2>4. new.started # 0 /\ new.active = at
      BY <1>2, MadeIsTyped DEF ClockStarted, Record
    <2> HIDE DEF new
    <2>5. ~ Paused(new)
      BY <2>3 DEF Paused
    <2>6. Elapsed(new, now) = 0 + (now - at)
      BY <1>2, <2>3, <2>5, ElapsedLater
    <2>7. now - at = Elapsed(new, now)
      BY <1>2, <2>6
    <2> QED
      BY <2>1, <2>3, <2>4, <2>7, AlonePresses DEF one, at
  <1>4. CASE PauseClock(r)
    <2> DEFINE new == PausedAt(one, at)
    <2>1. /\ Running(one) /\ one.clock # 0 /\ ~ Paused(one)
          /\ Press(r, new, ran[id] - (now - at))
      BY <1>4 DEF PauseClock, one, at, id
    <2>2. new \in Record /\ Valid(new) /\ Running(new) /\ Edge(new, Len(new.pauses)) = at
      BY <1>2, <2>1, PausedIsValid
    <2>3. new.started # 0 /\ new.active = at
      BY <1>2, MadeIsTyped DEF PausedAt, Record
    <2>4. Elapsed(new, now) = Elapsed(one, now) - (now - at)
      BY <1>2, <2>1, ElapsedAsPaused
    <2> HIDE DEF new
    <2>5. ran[id] - (now - at) = Elapsed(new, now)
      BY <1>2, <2>1, <2>4 DEF Timed
    <2> QED
      BY <2>1, <2>2, <2>3, <2>5, AlonePresses DEF one, at
  <1>5. CASE ResumeClock(r)
    <2> DEFINE new == ResumedAt(one, at)
    <2>1. /\ Running(one) /\ Paused(one)
          /\ Press(r, new, ran[id] + (now - at))
      BY <1>5 DEF ResumeClock, one, at, id
    <2>2. new \in Record /\ Valid(new) /\ Running(new) /\ Edge(new, Len(new.pauses)) = at
      BY <1>2, <2>1, ResumedIsValid
    <2>3. new.started # 0 /\ new.active = at
      BY <1>2, <2>1, MadeIsTyped DEF ResumedAt, Record
    <2>4. Elapsed(new, now) = Elapsed(one, now) + (now - at)
      BY <1>2, <2>1, ElapsedAsResumed
    <2>5. Timed(one)
      BY <1>2, <2>1 DEF Valid, Paused, Timed
    <2> HIDE DEF new
    <2>6. ran[id] + (now - at) = Elapsed(new, now)
      BY <1>2, <2>1, <2>4, <2>5
    <2> QED
      BY <2>1, <2>2, <2>3, <2>6, AlonePresses DEF one, at
  <1> QED
    BY <1>3, <1>4, <1>5

LEMMA SubmitKeepsAlone ==
    ASSUME Base, Alone, ~ overlapped, NEW r \in Slots, slots[r].step = "act",
           slots[r].kind = "submit", Go(r, slots[r].one, "count"),
           UNCHANGED <<stored, attempts, now, ran, overlapped, died, failed>>
    PROVE  Alone'
  <1> DEFINE new == Taking(r, slots[r].one, "count")
  <1>1. "count" \in Steps /\ slots[r].one \in Record /\ slots[r].step # "free"
    BY HeldIsTyped DEF Steps
  <1>2. /\ new \in Slot /\ new.step = "count" /\ new.one = slots[r].one
        /\ new.kind = slots[r].kind /\ new.at = slots[r].at
        /\ new.id = slots[r].id /\ new.attempt = slots[r].attempt /\ new.ran = slots[r].ran
    BY <1>1, TakingIsTyped
  <1>3. slots' = [slots EXCEPT ![r] = new]
    BY GoesOn
  <1>4. AloneOK(slots[r])
    BY <1>1, WhatIsAlone
  <1> HIDE DEF new
  <1>5. AloneOK(new)
    BY <1>2, <1>4 DEF AloneOK, Holding, Submitting
  <1> QED
    BY <1>1, <1>2, <1>3, <1>5, AloneSlotMoves

LEMMA ActKeepsAlone ==
    ASSUME Base, Alone, NEW r \in Slots, Act(r)
    PROVE  Alone'
  <1> DEFINE one == slots[r].one
             at == slots[r].at
  <1>1. slots[r].step = "act" /\ UNCHANGED <<now, overlapped, died>>
    BY DEF Act, At
  <1>2. SUFFICES ASSUME ~ overlapped PROVE Alone'
    BY <1>1 DEF Alone
  <1>3. /\ slots[r].step \in Holding \ {"pauses"} /\ SlotOK(slots[r])
        /\ slots[r].step \notin {"free", "verify", "close"}
    BY <1>1, SlotIsTyped DEF Holding
  <1>4. slots[r].attempt = 0 /\ (slots[r].kind = "serve" => Running(one))
    BY <1>1, <1>3 DEF SlotOK
  <1>5. /\ at \in Nat /\ at \in 1..now /\ now \in Nat
        /\ one.active \in {one.active, at} /\ at \in {one.active, at}
    BY <1>2, <1>3, ActsAlone
  <1>6. CASE Leave(r)
    BY <1>1, <1>2, <1>3, <1>6, AloneAnswers DEF Leave
  <1>7. ASSUME NEW step \in {"free", "mint"}, Put(r, EndedIdle(one), step), Running(one),
               step = "mint" => slots[r].kind = "serve", UNCHANGED ran
        PROVE  Alone'
    <2>1. Put(r, Ended(one, one.active), step)
      BY <1>7 DEF EndedIdle
    <2> QED
      BY <1>1, <1>2, <1>3, <1>5, <1>7, <2>1, AloneEnds
  <1>8. ASSUME NEW t \in at .. now, Put(r, Touched(one, t), "free"), Running(one), UNCHANGED ran
        PROVE  Alone'
    <2>1. t \in Nat /\ at <= t /\ t <= now
      BY <1>5
    <2> QED
      BY <1>1, <1>2, <1>3, <1>4, <1>8, <2>1, AloneTouches
  <1> HIDE DEF one, at
  <1>9. CASE ServeAct(r)
    <2>1. slots[r].kind = "serve" /\ UNCHANGED ran
      BY <1>9 DEF ServeAct
    <2>2. at \in at .. now
      BY <1>5
    <2>3. Put(r, EndedIdle(one), "mint") \/ Put(r, Touched(one, at), "free")
      BY <1>9 DEF ServeAct, one, at
    <2> QED
      BY <1>4, <1>7, <1>8, <2>1, <2>2, <2>3
  <1>10. CASE GetAct(r)
    <2>1. CASE Running(one)
      <3>1. PICK t \in at .. now : Put(r, EndedIdle(one), "free") \/ Put(r, Touched(one, t), "free")
        BY <1>10, <2>1, <1>6 DEF GetAct, one, at
      <3>2. UNCHANGED ran
        BY <1>10 DEF GetAct
      <3> QED
        BY <1>7, <1>8, <2>1, <3>1, <3>2
    <2>2. CASE ~ Running(one)
      BY <1>6, <1>10, <2>2 DEF GetAct, one
    <2> QED
      BY <2>1, <2>2
  <1>11. CASE SubmitAct(r)
    <2>1. slots[r].kind = "submit" /\ UNCHANGED ran
      BY <1>11 DEF SubmitAct
    <2>2. CASE Running(one) /\ Put(r, EndedIdle(one), "free")
      BY <1>7, <2>1, <2>2
    <2>3. CASE Go(r, one, "count") /\ UNCHANGED <<stored, attempts, failed>>
      BY <1>1, <1>2, <2>1, <2>3, SubmitKeepsAlone DEF one
    <2> QED
      BY <1>6, <1>11, <2>2, <2>3 DEF SubmitAct, one, at
  <1>12. CASE StartClock(r) \/ PauseClock(r) \/ ResumeClock(r)
    BY <1>1, <1>2, <1>6, <1>12, PressKeepsAlone
  <1>13. CASE End(r)
    <2>1. CASE Running(one) /\ Put(r, Ended(one, at), "free") /\ UNCHANGED ran
      BY <1>1, <1>2, <1>3, <1>5, <2>1, AloneEnds DEF one, at
    <2> QED
      BY <1>6, <1>13, <2>1 DEF End, one, at
  <1> QED
    BY <1>9, <1>10, <1>11, <1>12, <1>13 DEF Act

\* A sitting is minted only where none runs.
LEMMA MintKeepsAlone ==
    ASSUME Base, Alone, NEW r \in Slots, Mint(r)
    PROVE  Alone'
  <1>1. /\ slots[r].step = "mint"
        /\ UNCHANGED <<now, requests, ran, overlapped, died, attempts>>
        /\ slots' = [slots EXCEPT ![r] = Free]
    BY MintShape
  <1>2. PICK id, one :
          /\ MintsOver(r, id, one)
          /\ \/ /\ Storable(id, one) /\ UNCHANGED failed
                /\ stored' = [stored EXCEPT ![id] = one]
             \/ /\ ~ Storable(id, one) /\ failed' = TRUE
                /\ UNCHANGED stored
    BY MintShape
  <1>3. SUFFICES ASSUME ~ overlapped PROVE Alone'
    BY <1>1 DEF Alone
  <1>4. /\ ~ failed /\ AloneOK(slots[r])
        /\ \A s \in Slots \ {r} : slots[s].step = "free" /\ slots[s].attempt = 0
    BY <1>1, <1>3, WhatIsAlone
  <1>5. \A i \in Ids : Known(i) => ~ Running(stored[i])
    BY <1>1, <1>4 DEF AloneOK
  <1>6. slots[r].attempt = 0 /\ slots[r].at \in 1..now /\ now \in Nat /\ slots[r].at \in Nat
    BY <1>1, SlotIsTyped, HeldIsTyped DEF SlotOK
  <1>7. Storable(id, one)
    BY <1>2, <1>5 DEF MintsOver, Storable, Known
  <1>8. /\ UNCHANGED failed /\ stored' = [stored EXCEPT ![id] = one]
        /\ id \in Ids /\ ~ Served(id) /\ ~ Known(id)
    BY <1>2, <1>7 DEF MintsOver, Known
  <1>9. stored'[id] = one /\ \A i \in Ids \ {id} : stored'[i] = stored[i]
    BY <1>8 DEF Base, TypeOK
  <1>10. \A i \in Ids \ {id} : Known(i)' => ~ Running(stored'[i])
    BY <1>5, <1>9 DEF Known, Served
  <1>11. ASSUME NEW i \in Ids, Known(i)', Running(stored'[i])
         PROVE  Live(i, now)'
    <2>1. i = id
      BY <1>10, <1>11
    <2>2. /\ Edge(one, Len(one.pauses)) = slots[r].at /\ one.active = slots[r].at
          /\ ~ Timed(one)
      BY <1>2 DEF MintsOver, Timed
    <2> QED
      BY <1>1, <1>6, <1>9, <2>1, <2>2 DEF Live
  <1>12. TimeIsWhatTheClockRan'
    BY <1>1, <1>3 DEF Alone, TimeIsWhatTheClockRan
  <1>13. SolvedEndsTheSitting'
    <2>1. SUFFICES ASSUME ~ died, NEW k \in 1..Len(attempts), attempts[k].solved
                   PROVE  ~ Running(stored'[attempts[k].sitting])
      BY <1>1 DEF SolvedEndsTheSitting
    <2>2. attempts[k] \in Attempt /\ Served(attempts[k].sitting)
      BY DEF Base, TypeOK, OfServed
    <2>3. attempts[k].sitting \in Ids \ {id}
      BY <1>8, <2>2 DEF Attempt
    <2>4. ~ \E s \in Slots : slots[s].attempt = k
      <3>1. k # 0
        BY <2>1
      <3> QED
        BY <1>4, <1>6, <3>1
    <2> QED
      BY <1>3, <1>9, <2>1, <2>3, <2>4 DEF Alone, SolvedEndsTheSitting
  <1>14. AloneOK(Free)' /\ Free \in Slot /\ ~ failed' /\ slots[r].step # "free"
    BY <1>1, <1>4, <1>8, FreeIsTyped DEF AloneOK, Free, Holding, Submitting
  <1> QED
    BY <1>1, <1>3, <1>11, <1>12, <1>13, <1>14, AloneFrom

\* A submission that goes on holds what it held.
LEMMA AloneGoesOn ==
    ASSUME Base, Alone, ~ overlapped, NEW r \in Slots, slots[r].step \in Holding \ {"pauses"},
           NEW new, new.step \in Submitting,
           new.one = slots[r].one, new.kind = slots[r].kind, new.at = slots[r].at,
           new.id = slots[r].id, new.ran = slots[r].ran
    PROVE  AloneOK(new)
  <1>1. AloneOK(slots[r]) /\ slots[r].step # "free"
    BY WhatIsAlone DEF Holding, Submitting
  <1>2. new.step \in Holding \ {"pauses"} /\ new.step # "mint" /\ new.step # "free"
    BY DEF Holding, Submitting
  <1>3. new.step # "pauses"
    BY <1>2
  <1> QED
    BY <1>1, <1>2, <1>3 DEF AloneOK

LEMMA SubmissionKeepsAlone ==
    ASSUME Base, Alone, NEW r \in Slots, Count(r) \/ Touch(r) \/ Judge(r) \/ CloseSolved(r)
    PROVE  Alone'
  <1> DEFINE one == slots[r].one
             at == slots[r].at
  <1>1. /\ slots[r].step \in {"count", "touch", "judge", "close"}
        /\ UNCHANGED <<now, ran, overlapped, died>>
    BY DEF Count, Touch, Judge, CloseSolved, At, Histories
  <1>2. SUFFICES ASSUME ~ overlapped PROVE Alone'
    BY <1>1 DEF Alone
  <1>3. /\ slots[r].step \in Holding \ {"pauses"} /\ slots[r].step # "free"
        /\ slots[r].step \in Submitting
    BY <1>1 DEF Holding, Submitting
  <1>4. SlotOK(slots[r]) /\ slots[r] \in Slot
    BY SlotIsTyped
  <1>5. /\ Running(one) /\ slots[r].kind = "submit"
        /\ (slots[r].step # "close" => slots[r].attempt = 0)
    BY <1>1, <1>3, <1>4 DEF SlotOK
  <1>6. at \in Nat /\ at \in 1..now /\ now \in Nat /\ one \in Record
    BY <1>2, <1>3, ActsAlone
  <1>7. CASE /\ slots[r].step \in {"count", "judge"}
             /\ Answer(r) /\ UNCHANGED <<stored, attempts, failed>>
    <2>1. slots[r].step \notin {"free", "verify", "close"}
      BY <1>7
    <2> QED
      BY <1>1, <1>2, <1>7, <2>1, AloneAnswers
  <1>8. CASE Count(r)
    <2>1. slots[r].step = "count" /\ UNCHANGED <<stored, attempts, failed>>
      BY <1>8 DEF Count, At, Histories
    <2>2. CASE Answer(r)
      BY <1>7, <2>1, <2>2
    <2>3. CASE Go(r, one, "touch")
      <3> DEFINE new == Taking(r, one, "touch")
      <3>1. "touch" \in Steps
        BY DEF Steps
      <3>2. /\ new \in Slot /\ new.step = "touch" /\ new.one = one
            /\ new.kind = slots[r].kind /\ new.at = slots[r].at
            /\ new.id = slots[r].id /\ new.attempt = slots[r].attempt
            /\ new.ran = slots[r].ran
        BY <1>6, <3>1, TakingIsTyped
      <3>3. slots' = [slots EXCEPT ![r] = new]
        BY <2>3, GoesOn
      <3> HIDE DEF new
      <3>4. AloneOK(new)
        <4>1. new.step \in Submitting
          BY <3>2 DEF Submitting
        <4> QED
          BY <1>2, <1>3, <3>2, <4>1, AloneGoesOn
      <3> QED
        BY <1>1, <1>2, <1>3, <2>1, <3>2, <3>3, <3>4, AloneSlotMoves
    <2> QED
      BY <1>8, <2>2, <2>3 DEF Count
  <1>9. CASE Touch(r)
    <2>1. slots[r].step = "touch" /\ Put(r, Touched(one, at), "judge")
      BY <1>9 DEF Touch, At
    <2>2. at <= at /\ at <= now /\ "judge" \in {"free", "judge"} /\ slots[r].attempt = 0
      BY <1>5, <1>6, <2>1
    <2> QED
      BY <1>1, <1>2, <1>3, <1>5, <1>6, <2>1, <2>2, AloneTouches
  <1>10. CASE Judge(r)
    <2>1. slots[r].step = "judge" /\ UNCHANGED <<stored, attempts, failed>>
      BY <1>10 DEF Judge, At, Histories
    <2>2. CASE Answer(r)
      BY <1>7, <2>1, <2>2
    <2>3. ASSUME NEW solved \in BOOLEAN,
                 slots' = [slots EXCEPT ![r] = [@ EXCEPT !.step = "append", !.solved = solved]]
          PROVE  Alone'
      <3> DEFINE new == [slots[r] EXCEPT !.step = "append", !.solved = solved]
      <3>1. /\ new \in Slot /\ new.step = "append" /\ new.one = one
            /\ new.kind = slots[r].kind /\ new.at = slots[r].at
            /\ new.id = slots[r].id /\ new.attempt = slots[r].attempt
            /\ new.ran = slots[r].ran
        BY <1>4 DEF Slot, Steps
      <3>2. slots' = [slots EXCEPT ![r] = new]
        BY <2>3
      <3> HIDE DEF new
      <3>3. AloneOK(new)
        <4>1. new.step \in Submitting
          BY <3>1 DEF Submitting
        <4> QED
          BY <1>2, <1>3, <3>1, <4>1, AloneGoesOn
      <3> QED
        BY <1>1, <1>2, <1>3, <2>1, <3>1, <3>2, <3>3, AloneSlotMoves
    <2> QED
      BY <1>10, <2>2, <2>3 DEF Judge
  <1>11. CASE CloseSolved(r)
    <2>1. Put(r, Ended(one, at), "free") /\ at \in {one.active, at}
      BY <1>11 DEF CloseSolved
    <2> QED
      BY <1>1, <1>2, <1>3, <1>5, <2>1, AloneEnds
  <1> QED
    BY <1>8, <1>9, <1>10, <1>11

\* Its time is what its sitting's clock had run when it arrived.
LEMMA AppendAttemptKeepsAlone ==
    ASSUME Base, Alone, NEW r \in Slots, AppendAttempt(r)
    PROVE  Alone'
  <1> DEFINE one == slots[r].one
             at == slots[r].at
             new == [slots[r] EXCEPT !.step = "verify", !.attempt = Len(attempts) + 1]
  <1>1. slots[r].step = "append" /\ UNCHANGED <<now, ran, overlapped, died>>
    BY DEF AppendAttempt, At
  <1>2. SUFFICES ASSUME ~ overlapped PROVE Alone'
    BY <1>1 DEF Alone
  <1>3. /\ slots[r].step \in Holding \ {"pauses"} /\ slots[r].step # "free"
        /\ slots[r].step \in Submitting
    BY <1>1 DEF Holding, Submitting
  <1>4. Running(one) /\ slots[r].kind = "submit" /\ slots[r].attempt = 0
    BY <1>1, <1>3, SlotIsTyped DEF SlotOK
  <1>5. /\ one \in Record /\ Valid(one) /\ at \in Nat /\ Edge(one, Len(one.pauses)) <= at
        /\ Timed(one) => slots[r].ran = Elapsed(one, at)
    BY <1>2, <1>3, <1>4, ActsAlone
  <1>6. Counted(one, at)
    BY <1>4, <1>5, ElapsedIsNoLess DEF Counted
  <1>7. /\ new \in Slot /\ slots' = [slots EXCEPT ![r] = new]
        /\ new.step = "verify" /\ new.attempt = Len(attempts) + 1
        /\ new.one = one /\ new.kind = slots[r].kind
        /\ new.at = at /\ new.id = slots[r].id /\ new.ran = slots[r].ran
        /\ attempts' = Append(attempts, Made(r))
        /\ UNCHANGED <<stored, failed>>
    BY <1>6, AppendShape
  <1> HIDE DEF new
  <1>8. AloneOK(new)
    <2>1. new.step \in Submitting
      BY <1>7 DEF Submitting
    <2> QED
      BY <1>2, <1>3, <1>7, <2>1, AloneGoesOn
  <1>9. ASSUME NEW t, t = new
        PROVE  AloneOK(t)'
    BY <1>7, <1>8, <1>9 DEF AloneOK, Known, Served
  <1>10. Made(r) \in Attempt /\ attempts \in Seq(Attempt)
    BY <1>1, <1>6, MadeIsAnAttempt DEF Base, TypeOK
  <1>11. /\ Len(attempts') = Len(attempts) + 1 /\ Len(attempts) \in Nat
         /\ attempts'[Len(attempts) + 1] = Made(r)
         /\ \A k \in 1..Len(attempts) : attempts'[k] = attempts[k]
    BY <1>7, <1>10
  <1>12. TimeIsWhatTheClockRan'
    <2>1. ASSUME NEW k \in 1..Len(attempts'), attempts'[k].timed
          PROVE  attempts'[k].time = attempts'[k].ran
      <3>1. CASE k \in 1..Len(attempts)
        BY <1>2, <1>11, <2>1, <3>1 DEF Alone, TimeIsWhatTheClockRan
      <3>2. CASE k = Len(attempts) + 1
        <4>1. /\ attempts'[k].timed = Timed(one)
              /\ attempts'[k].time = IF Timed(one) THEN Elapsed(one, at) ELSE 0
              /\ attempts'[k].ran = slots[r].ran
          BY <1>11, <3>2 DEF Made
        <4> QED
          BY <1>5, <2>1, <4>1
      <3> QED
        BY <1>11, <2>1, <3>1, <3>2
    <2> QED
      BY <2>1 DEF TimeIsWhatTheClockRan
  <1>13. SolvedEndsTheSitting'
    <2>1. ASSUME ~ died, NEW k \in 1..Len(attempts'), attempts'[k].solved
          PROVE  \/ ~ Running(stored[attempts'[k].sitting])
                 \/ \E s \in Slots : slots'[s].attempt = k
      <3>1. CASE k \in 1..Len(attempts)
        <4>1. attempts'[k] = attempts[k] /\ k # 0
          BY <1>11, <3>1
        <4>2. ~ \E s \in Slots : slots[s].attempt = k
          BY <1>2, <1>3, <1>4, <4>1, WhatIsAlone
        <4> QED
          BY <1>2, <2>1, <3>1, <4>1, <4>2 DEF Alone, SolvedEndsTheSitting
      <3>2. CASE k = Len(attempts) + 1
        <4>1. slots'[r] = new
          BY <1>7 DEF Base, TypeOK
        <4> QED
          BY <1>7, <3>2, <4>1
      <3> QED
        BY <1>11, <2>1, <3>1, <3>2
    <2> QED
      BY <1>1, <1>7, <2>1 DEF SolvedEndsTheSitting
  <1>14. /\ ~ failed'
         /\ \A id \in Ids : Known(id)' /\ Running(stored'[id]) => Live(id, now)'
    <2>1. /\ ~ failed
          /\ \A id \in Ids : Known(id) /\ Running(stored[id]) => Live(id, now)
      BY <1>2, <1>3, WhatIsAlone
    <2> QED
      BY <1>1, <1>7, <2>1 DEF Live, Known, Served
  <1>15. ASSUME NEW t, t = new
         PROVE  Alone'
    <2>1. t \in Slot /\ slots' = [slots EXCEPT ![r] = t] /\ AloneOK(t)'
      BY <1>7, <1>9, <1>15
    <2> QED
      BY <1>2, <1>3, <1>12, <1>13, <1>14, <2>1, AloneFrom
  <1> QED
    BY <1>15

LEMMA AppendVerificationKeepsAlone ==
    ASSUME Base, Alone, NEW r \in Slots, AppendVerification(r)
    PROVE  Alone'
  <1>1. /\ slots[r].step = "verify" /\ slots[r].attempt \in 1..Len(attempts)
        /\ Len(attempts') = Len(attempts)
        /\ \A k \in 1..Len(attempts) : /\ attempts'[k].sitting = attempts[k].sitting
                                       /\ attempts'[k].solved = attempts[k].solved
                                       /\ attempts'[k].timed = attempts[k].timed
                                       /\ attempts'[k].time = attempts[k].time
                                       /\ attempts'[k].ran = attempts[k].ran
        /\ Go(r, slots[r].one, IF slots[r].solved THEN "close" ELSE "free")
        /\ UNCHANGED <<stored, now, requests, ran, overlapped, died, failed>>
    BY VerificationShape
  <1>2. SUFFICES ASSUME ~ overlapped PROVE Alone'
    BY <1>1 DEF Alone
  <1>3. slots[r].step \in Holding \ {"pauses"} /\ slots[r].step # "free"
    BY <1>1 DEF Holding, Submitting
  <1>4. slots[r] \in Slot /\ attempts[slots[r].attempt].solved = slots[r].solved
    BY <1>1, SlotIsTyped DEF SlotOK
  <1>5. /\ ~ failed' /\ TimeIsWhatTheClockRan'
        /\ \A id \in Ids : Known(id)' /\ Running(stored'[id]) => Live(id, now)'
    <2>1. /\ ~ failed /\ TimeIsWhatTheClockRan
          /\ \A id \in Ids : Known(id) /\ Running(stored[id]) => Live(id, now)
      BY <1>2 DEF Alone
    <2>2. ~ failed' /\ TimeIsWhatTheClockRan'
      BY <1>1, <1>2, <2>1 DEF TimeIsWhatTheClockRan
    <2> QED
      BY <1>1, <2>1, <2>2 DEF Live, Known, Served
  <1>6. ASSUME NEW t, t \in Slot, slots' = [slots EXCEPT ![r] = t], AloneOK(t),
               slots[r].solved => t.attempt = slots[r].attempt
        PROVE  Alone'
    <2>1. AloneOK(t)'
      BY <1>1, <1>6 DEF AloneOK, Known, Served
    <2>2. SolvedEndsTheSitting'
      <3>1. ASSUME ~ died, NEW k \in 1..Len(attempts), attempts[k].solved,
                   Running(stored[attempts[k].sitting])
            PROVE  \E s \in Slots : slots'[s].attempt = k
        <4>1. PICK s \in Slots : slots[s].attempt = k
          BY <1>2, <3>1 DEF Alone, SolvedEndsTheSitting
        <4>2. k # 0
          BY <3>1
        <4>3. s = r
          BY <1>2, <1>3, <4>1, <4>2, WhatIsAlone
        <4>4. slots[r].solved
          BY <1>4, <3>1, <4>1, <4>3
        <4>5. slots'[r] = t
          BY <1>6 DEF Base, TypeOK
        <4> QED
          BY <1>6, <4>1, <4>3, <4>4, <4>5
      <3> QED
        BY <1>1, <3>1 DEF SolvedEndsTheSitting
    <2> QED
      BY <1>2, <1>3, <1>5, <1>6, <2>1, <2>2, AloneFrom
  <1>7. CASE ~ slots[r].solved
    <2>1. Go(r, slots[r].one, "free")
      BY <1>1, <1>7
    <2>2. slots' = [slots EXCEPT ![r] = Free]
      BY <2>1, GoesOn
    <2> QED
      BY <1>6, <1>7, <2>2, FreeIsTyped, FreeIsAlone
  <1>8. CASE slots[r].solved
    <2> DEFINE new == Taking(r, slots[r].one, "close")
    <2>1. "close" \in Steps /\ slots[r].one \in Record
      BY HeldIsTyped DEF Steps
    <2>2. /\ new \in Slot /\ new.step = "close" /\ new.one = slots[r].one
          /\ new.kind = slots[r].kind /\ new.at = slots[r].at /\ new.id = slots[r].id
          /\ new.attempt = slots[r].attempt /\ new.ran = slots[r].ran
      BY <2>1, TakingIsTyped
    <2>3. Go(r, slots[r].one, "close")
      BY <1>1, <1>8
    <2>4. slots' = [slots EXCEPT ![r] = new]
      BY <2>3, GoesOn
    <2> HIDE DEF new
    <2>5. AloneOK(new)
      <3>1. new.step \in Submitting
        BY <2>2 DEF Submitting
      <3> QED
        BY <1>2, <1>3, <2>2, <3>1, AloneGoesOn
    <2> QED
      BY <1>6, <2>2, <2>4, <2>5
  <1> QED
    BY <1>7, <1>8

\* The clock of a running sitting goes on by what its record says it does.
LEMMA TickKeepsAlone ==
    ASSUME Base, Alone, Tick
    PROVE  Alone'
  <1>1. /\ UNCHANGED <<stored, attempts, slots, overlapped, died, failed>>
        /\ now' = now + 1 /\ now \in Nat /\ now' \in Nat
        /\ ran \in [Ids -> Int] /\ stored \in [Ids -> Record]
    BY DEF Tick, Base, TypeOK
  <1>2. SUFFICES ASSUME ~ overlapped PROVE Alone'
    BY <1>1 DEF Alone
  <1>3. ASSUME NEW id \in Ids, Known(id), Running(stored[id])
        PROVE  Live(id, now)'
    <2>1. Live(id, now)
      BY <1>2, <1>3 DEF Alone
    <2>2. stored[id] \in Record /\ Valid(stored[id]) /\ Served(id)
      BY <1>1, <1>3 DEF Base, Whole, Known
    <2>3. stored[id].active \in 1..now'
      BY <1>1, <2>1 DEF Live
    <2>4. Timed(stored[id]) => ran'[id] = Elapsed(stored[id], now')
      <3>1. SUFFICES ASSUME Timed(stored[id]) PROVE ran'[id] = Elapsed(stored[id], now')
        OBVIOUS
      <3>2. Elapsed(stored[id], now')
              = Elapsed(stored[id], now) + (IF Paused(stored[id]) THEN 0 ELSE now' - now)
        BY <1>1, <1>3, <2>2, ElapsedLater
      <3>3. ran'[id] = IF ~ Paused(stored[id]) THEN ran[id] + 1 ELSE ran[id]
        BY <1>3, <2>2, <3>1 DEF Tick
      <3>4. ran[id] = Elapsed(stored[id], now) /\ ran[id] \in Int
        BY <1>1, <2>1, <3>1 DEF Live
      <3> QED
        BY <1>1, <3>2, <3>3, <3>4
    <2> QED
      BY <1>1, <2>1, <2>3, <2>4 DEF Live
  <1>4. \A id \in Ids : Known(id)' /\ Running(stored'[id]) => Live(id, now)'
    BY <1>1, <1>3 DEF Known, Served
  <1>5. \A r \in Slots : AloneOK(slots[r])'
    BY <1>1, <1>2 DEF Alone, AloneOK, Known, Served
  <1>6. ~ failed' /\ TimeIsWhatTheClockRan' /\ SolvedEndsTheSitting'
    BY <1>1, <1>2 DEF Alone, TimeIsWhatTheClockRan, SolvedEndsTheSitting
  <1>7. \A r, s \in Slots : ~ At(r, "free")' /\ ~ At(s, "free")' => r = s
    BY <1>1, <1>2 DEF Alone, At
  <1> QED
    BY <1>4, <1>5, <1>6, <1>7 DEF Alone

LEMMA RestartKeepsAlone ==
    ASSUME Base, Alone, Restart
    PROVE  Alone'
  <1>1. /\ slots' = [r \in Slots |-> Free] /\ died' = TRUE
        /\ UNCHANGED <<stored, attempts, now, ran, overlapped, failed>>
    BY DEF Restart
  <1>2. SUFFICES ASSUME ~ overlapped PROVE Alone'
    BY <1>1 DEF Alone
  <1>3. /\ ~ failed /\ TimeIsWhatTheClockRan
        /\ \A id \in Ids : Known(id) /\ Running(stored[id]) => Live(id, now)
    BY <1>2 DEF Alone
  <1>4. /\ ~ failed' /\ TimeIsWhatTheClockRan' /\ SolvedEndsTheSitting'
        /\ \A id \in Ids : Known(id)' /\ Running(stored'[id]) => Live(id, now)'
    BY <1>1, <1>3 DEF TimeIsWhatTheClockRan, SolvedEndsTheSitting, Live, Known, Served
  <1>5. \A r \in Slots : slots'[r].step = "free"
    BY <1>1 DEF Free
  <1>6. \A r \in Slots : AloneOK(slots[r])'
    BY <1>5 DEF AloneOK, Holding, Submitting
  <1> QED
    BY <1>4, <1>5, <1>6 DEF Alone, At

LEMMA InitAlone ==
    ASSUME Init
    PROVE  Alone
  <1>1. /\ \A id \in Ids : ~ Known(id)
        /\ \A r \in Slots : slots[r].step = "free"
        /\ Len(attempts) = 0 /\ ~ failed
    BY DEF Init, Known, Served, Free
  <1>2. \A r \in Slots : AloneOK(slots[r])
    BY <1>1 DEF AloneOK, Holding, Submitting
  <1>3. TimeIsWhatTheClockRan /\ SolvedEndsTheSitting
    BY <1>1 DEF TimeIsWhatTheClockRan, SolvedEndsTheSitting
  <1> QED
    BY <1>1, <1>2, <1>3 DEF Alone, At

LEMMA StepKeepsAlone ==
    ASSUME Base, Alone, [Next]_vars
    PROVE  Alone'
  <1>1. CASE UNCHANGED vars
    <2>1. /\ \A r, s \in Slots : ~ At(r, "free")' /\ ~ At(s, "free")' <=>
                                   ~ At(r, "free") /\ ~ At(s, "free")
          /\ \A r \in Slots : AloneOK(slots[r])' <=> AloneOK(slots[r])
          /\ \A id \in Ids : (Known(id)' <=> Known(id)) /\ (Live(id, now)' <=> Live(id, now))
          /\ TimeIsWhatTheClockRan' <=> TimeIsWhatTheClockRan
          /\ SolvedEndsTheSitting' <=> SolvedEndsTheSitting
      BY <1>1 DEF vars, At, AloneOK, Known, Served, Live, TimeIsWhatTheClockRan,
                  SolvedEndsTheSitting
    <2>2. overlapped' = overlapped /\ failed' = failed /\ stored' = stored
      BY <1>1 DEF vars
    <2> QED
      BY <2>1, <2>2 DEF Alone
  <1>2. ASSUME NEW r \in Slots, NEW kind \in Kinds, NEW id \in Ids \cup {0},
               Arrive(r, kind, id)
        PROVE  Alone'
    BY <1>2, ArriveKeepsAlone
  <1>3. ASSUME NEW r \in Slots, ReadRow(r)
        PROVE  Alone'
    BY <1>3, ReadRowKeepsAlone
  <1>4. ASSUME NEW r \in Slots, ReadPauses(r)
        PROVE  Alone'
    BY <1>4, ReadPausesKeepsAlone
  <1>5. ASSUME NEW r \in Slots, Act(r)
        PROVE  Alone'
    BY <1>5, ActKeepsAlone
  <1>6. ASSUME NEW r \in Slots, Mint(r)
        PROVE  Alone'
    BY <1>6, MintKeepsAlone
  <1>7. ASSUME NEW r \in Slots, Count(r) \/ Touch(r) \/ Judge(r) \/ CloseSolved(r)
        PROVE  Alone'
    BY <1>7, SubmissionKeepsAlone
  <1>8. ASSUME NEW r \in Slots, AppendAttempt(r)
        PROVE  Alone'
    BY <1>8, AppendAttemptKeepsAlone
  <1>9. ASSUME NEW r \in Slots, AppendVerification(r)
        PROVE  Alone'
    BY <1>9, AppendVerificationKeepsAlone
  <1> QED
    BY <1>1, <1>2, <1>3, <1>4, <1>5, <1>6, <1>7, <1>8, <1>9, TickKeepsAlone, RestartKeepsAlone
       DEF Next

-----------------------------------------------------------------------------
(***************************************************************************)
(* The cap.  A submission counted and not yet appended takes a place in    *)
(* the window its moment is in, as an attempt does: a submission gives its *)
(* own place up only to the attempt it appends, so what is bounded is both *)
(* together.                                                               *)
(***************************************************************************)

\* The steps between the count and the attempt.
Waiting == {"touch", "judge", "append"}

Within(x) == {j \in 1..Len(attempts) : attempts[j].at \in x - Window .. x}

Awaiting(x) == {r \in Slots : slots[r].step \in Waiting /\ slots[r].at \in x - Window .. x}

Limit == IF overlapped THEN Cap + Cardinality(Slots) - 1 ELSE Cap

Capped == \A x \in Int : Cardinality(Within(x)) + Cardinality(Awaiting(x)) <= Limit

LEMMA PlacesAreFinite ==
    ASSUME Base, NEW x \in Int
    PROVE  /\ IsFiniteSet(Within(x)) /\ Cardinality(Within(x)) \in Nat
           /\ IsFiniteSet(Awaiting(x)) /\ Cardinality(Awaiting(x)) \in Nat
           /\ Cardinality(Awaiting(x)) <= Cardinality(Slots) /\ Cardinality(Slots) \in Nat
           /\ Limit \in Int
  <1>1. Len(attempts) \in Nat /\ overlapped \in BOOLEAN
    BY DEF Base, TypeOK
  <1>2. IsFiniteSet(1..Len(attempts))
    BY <1>1, FS_Interval
  <1>3. Within(x) \subseteq 1..Len(attempts)
    BY DEF Within
  <1>4. IsFiniteSet(Within(x))
    BY <1>2, <1>3, FS_Subset
  <1>5. Awaiting(x) \subseteq Slots /\ IsFiniteSet(Slots)
    BY SittingAssumption DEF Awaiting
  <1>6. /\ IsFiniteSet(Awaiting(x)) /\ Cardinality(Awaiting(x)) <= Cardinality(Slots)
        /\ Cardinality(Slots) \in Nat
    BY <1>5, FS_Subset, FS_CardinalityType
  <1>7. Limit \in Int
    BY <1>1, <1>6, SittingAssumption DEF Limit
  <1> QED
    BY <1>4, <1>6, <1>7, FS_CardinalityType

\* No place is taken where no request comes to wait.
WaitsNoMore ==
  \A s \in Slots : slots'[s].step \in Waiting =>
                     slots[s].step \in Waiting /\ slots'[s].at = slots[s].at

LEMMA CappedStays ==
    ASSUME Base, Capped, Len(attempts') = Len(attempts),
           \A k \in 1..Len(attempts) : attempts'[k].at = attempts[k].at,
           WaitsNoMore, overlapped' = overlapped \/ (overlapped' /\ Slots # {})
    PROVE  Capped'
  <1>1. ASSUME NEW x \in Int
        PROVE  Cardinality(Within(x)') + Cardinality(Awaiting(x)') <= Limit'
    <2>1. Within(x)' = Within(x)
      BY DEF Within
    <2>2. Awaiting(x)' \subseteq Awaiting(x)
      BY DEF Awaiting, WaitsNoMore
    <2>3. /\ Cardinality(Awaiting(x)') <= Cardinality(Awaiting(x))
          /\ Cardinality(Awaiting(x)') \in Nat
      BY <2>2, PlacesAreFinite, FS_Subset, FS_CardinalityType
    <2>4. Limit <= Limit' /\ Limit' \in Int
      <3>1. CASE overlapped' = overlapped
        <4>1. Limit' = Limit
          BY <3>1 DEF Limit
        <4> QED
          BY <4>1, PlacesAreFinite
      <3>2. CASE overlapped' /\ Slots # {}
        <4>1. Cardinality(Slots) # 0
          BY <3>2, SittingAssumption, FS_EmptySet
        <4>2. Limit' = Cap + Cardinality(Slots) - 1
          BY <3>2 DEF Limit
        <4>3. Cardinality(Slots) \in Nat
          BY PlacesAreFinite
        <4>4. Limit = Cap \/ Limit = Cap + Cardinality(Slots) - 1
          BY DEF Limit
        <4> QED
          BY <4>1, <4>2, <4>3, <4>4, SittingAssumption
      <3> QED
        BY <3>1, <3>2
    <2>5. Cardinality(Within(x)) + Cardinality(Awaiting(x)) <= Limit
      BY DEF Capped
    <2> QED
      BY <2>1, <2>3, <2>4, <2>5, PlacesAreFinite
  <1> QED
    BY <1>1 DEF Capped

LEMMA GoWaitsNoMore ==
    ASSUME Base, NEW r \in Slots, NEW one, NEW step, Go(r, one, step),
           step \in Waiting => slots[r].step \in Waiting
    PROVE  WaitsNoMore
  <1>1. slots[r] \in Slot /\ \A s \in Slots : s # r => slots'[s] = slots[s]
    BY SlotIsTyped DEF Go, Base, TypeOK
  <1>2. CASE step = "free"
    <2>1. slots'[r] = Free
      BY <1>2 DEF Go, Base, TypeOK
    <2> QED
      BY <1>1, <2>1 DEF WaitsNoMore, Waiting, Free
  <1>3. CASE step # "free"
    <2>1. slots'[r] = Taking(r, one, step)
      BY <1>3, GoesOn DEF Base, TypeOK
    <2>2. slots'[r].step = step /\ slots'[r].at = slots[r].at
      BY <1>1, <2>1 DEF Taking, Slot
    <2> QED
      BY <1>1, <2>2 DEF WaitsNoMore
  <1> QED
    BY <1>2, <1>3

LEMMA PutWaitsNoMore ==
    ASSUME Base, NEW r \in Slots, NEW one, NEW step, Put(r, one, step),
           step \in Waiting => slots[r].step \in Waiting
    PROVE  WaitsNoMore /\ UNCHANGED attempts
  <1>1. CASE Fail(r)
    <2>1. Go(r, Absent, "free") /\ "free" \notin Waiting
      BY <1>1 DEF Fail, Answer, Waiting
    <2> QED
      BY <1>1, <2>1, GoWaitsNoMore DEF Fail
  <1>2. CASE Go(r, one, step) /\ UNCHANGED attempts
    BY <1>2, GoWaitsNoMore
  <1> QED
    BY <1>1, <1>2 DEF Put

LEMMA ActWaitsNoMore ==
    ASSUME Base, NEW r \in Slots, Act(r)
    PROVE  WaitsNoMore /\ UNCHANGED <<attempts, overlapped>>
  <1>1. {"free", "mint", "count"} \cap Waiting = {}
    BY DEF Waiting
  <1>2. ASSUME NEW one, NEW step \in {"free", "mint"}, Put(r, one, step)
        PROVE  WaitsNoMore /\ UNCHANGED attempts
    BY <1>1, <1>2, PutWaitsNoMore
  <1>3. ASSUME Leave(r)
        PROVE  WaitsNoMore /\ UNCHANGED attempts
    BY <1>1, <1>3, GoWaitsNoMore DEF Leave, Answer
  <1>4. ASSUME NEW one, Go(r, one, "count"), UNCHANGED attempts
        PROVE  WaitsNoMore /\ UNCHANGED attempts
    BY <1>1, <1>4, GoWaitsNoMore
  <1>5. ServeAct(r) => WaitsNoMore /\ UNCHANGED attempts
    BY <1>2 DEF ServeAct
  <1>6. GetAct(r) => WaitsNoMore /\ UNCHANGED attempts
    BY <1>2, <1>3 DEF GetAct
  <1>7. SubmitAct(r) => WaitsNoMore /\ UNCHANGED attempts
    BY <1>2, <1>3, <1>4 DEF SubmitAct
  <1>8. StartClock(r) \/ PauseClock(r) \/ ResumeClock(r) => WaitsNoMore /\ UNCHANGED attempts
    BY <1>2, <1>3 DEF StartClock, PauseClock, ResumeClock, Press
  <1>9. End(r) => WaitsNoMore /\ UNCHANGED attempts
    BY <1>2, <1>3 DEF End
  <1> QED
    BY <1>5, <1>6, <1>7, <1>8, <1>9 DEF Act

\* A submission is counted in where fewer than the cap are in its window, so
\* it leaves room but for the others in flight.
LEMMA CountKeepsCapped ==
    ASSUME Base, Alone, Capped, NEW r \in Slots, Count(r)
    PROVE  Capped'
  <1> DEFINE at == slots[r].at
             recent == {k \in 1..Len(attempts) : attempts[k].at >= at - Window}
  <1>1. /\ slots[r].step = "count" /\ slots[r].step # "free"
        /\ UNCHANGED <<attempts, overlapped>>
    BY DEF Count, At, Histories
  <1>2. /\ at \in Nat /\ at \in Int /\ slots[r] \in Slot /\ attempts \in Seq(Attempt)
        /\ overlapped \in BOOLEAN
    BY SlotIsTyped, HeldIsTyped DEF Base, TypeOK
  <1>3. CASE Answer(r)
    <2>1. WaitsNoMore
      BY <1>3, GoWaitsNoMore DEF Answer, Waiting
    <2> QED
      BY <1>1, <2>1, CappedStays
  <1>4. CASE Go(r, slots[r].one, "touch") /\ ~ (Recent(at) >= Cap)
    <2>1. slots'[r] = Taking(r, slots[r].one, "touch")
          /\ \A s \in Slots : s # r => slots'[s] = slots[s]
      BY <1>4, GoesOn DEF Base, TypeOK
    <2>2. slots'[r].at = at
      BY <1>2, <2>1 DEF Taking, Slot
    <2>3. IsFiniteSet(recent) /\ Cardinality(recent) \in Nat /\ Cardinality(recent) <= Cap - 1
      <3>1. recent \subseteq 1..Len(attempts) /\ IsFiniteSet(1..Len(attempts))
        BY <1>2, FS_Interval
      <3>2. IsFiniteSet(recent)
        BY <3>1, FS_Subset
      <3>3. ~ (Cardinality(recent) >= Cap)
        BY <1>4 DEF Recent
      <3> HIDE DEF recent
      <3>4. Cardinality(recent) \in Nat
        BY <3>2, FS_CardinalityType
      <3> QED
        BY <3>2, <3>3, <3>4, SittingAssumption
    <2>4. ASSUME NEW x \in Int
          PROVE  Cardinality(Within(x)') + Cardinality(Awaiting(x)') <= Limit'
      <3>1. Within(x)' = Within(x) /\ Limit' = Limit
        BY <1>1 DEF Within, Limit
      <3>2. Cardinality(Within(x)) + Cardinality(Awaiting(x)) <= Limit
        BY DEF Capped
      <3>3. CASE at \notin x - Window .. x
        <4>1. Awaiting(x)' \subseteq Awaiting(x)
          BY <2>1, <2>2, <3>3 DEF Awaiting
        <4>2. /\ Cardinality(Awaiting(x)') <= Cardinality(Awaiting(x))
              /\ Cardinality(Awaiting(x)') \in Nat
          BY <4>1, PlacesAreFinite, FS_Subset, FS_CardinalityType
        <4> QED
          BY <3>1, <3>2, <4>2, PlacesAreFinite
      <3>4. CASE at \in x - Window .. x
        <4>1. Within(x) \subseteq recent
          <5>1. ASSUME NEW j \in Within(x)
                PROVE  j \in recent
            <6>1. j \in 1..Len(attempts) /\ attempts[j].at \in x - Window .. x
              BY DEF Within
            <6> QED
              BY SMTT(40), <1>2, <3>4, <6>1, SittingAssumption
          <5> QED
            BY <5>1
        <4>2. Cardinality(Within(x)) <= Cap - 1 /\ Cardinality(Within(x)) \in Nat
          <5> HIDE DEF recent
          <5>1. Cardinality(Within(x)) <= Cardinality(recent)
            BY <2>3, <4>1, FS_Subset
          <5>2. Cardinality(Within(x)) \in Nat
            BY PlacesAreFinite
          <5> QED
            BY <2>3, <5>1, <5>2, SittingAssumption
        <4>3. CASE overlapped
          <5>1. Awaiting(x)' \subseteq Slots
            BY DEF Awaiting
          <5>2. /\ Cardinality(Awaiting(x)') <= Cardinality(Slots)
                /\ Cardinality(Awaiting(x)') \in Nat
            BY <5>1, SittingAssumption, FS_Subset, FS_CardinalityType
          <5>3. Limit = Cap + Cardinality(Slots) - 1
            BY <4>3 DEF Limit
          <5> QED
            BY <3>1, <4>2, <5>2, <5>3, PlacesAreFinite, SittingAssumption
        <4>4. CASE ~ overlapped
          <5>1. \A s \in Slots \ {r} : slots[s].step = "free"
            BY <1>1, <4>4, WhatIsAlone
          <5>2. Awaiting(x)' \subseteq {r}
            BY <2>1, <5>1 DEF Awaiting, Waiting
          <5>3. IsFiniteSet({r}) /\ Cardinality({r}) = 1
            BY FS_Singleton
          <5>4. Cardinality(Awaiting(x)') <= 1 /\ Cardinality(Awaiting(x)') \in Nat
            BY <5>2, <5>3, FS_Subset, FS_CardinalityType
          <5>5. Limit = Cap
            BY <4>4 DEF Limit
          <5> QED
            BY <3>1, <4>2, <5>4, <5>5, SittingAssumption
        <4> QED
          BY <4>3, <4>4
      <3> QED
        BY <3>3, <3>4
    <2> QED
      BY <2>4 DEF Capped
  <1> QED
    BY <1>3, <1>4 DEF Count

\* The attempt takes the place its submission gives up.
LEMMA AppendKeepsCapped ==
    ASSUME Base, Capped, NEW r \in Slots, AppendAttempt(r)
    PROVE  Capped'
  <1>1. slots[r].step = "append" /\ UNCHANGED <<overlapped, now>>
    BY DEF AppendAttempt, At
  <1>2. CASE Fail(r)
    <2>1. WaitsNoMore /\ UNCHANGED attempts
      BY <1>2, GoWaitsNoMore DEF Fail, Answer, Waiting
    <2> QED
      BY <1>1, <2>1, CappedStays
  <1>3. CASE Counted(slots[r].one, slots[r].at)
    <2> DEFINE new == [slots[r] EXCEPT !.step = "verify", !.attempt = Len(attempts) + 1]
               n == Len(attempts)
    <2>1. /\ slots' = [slots EXCEPT ![r] = new] /\ new.step = "verify"
          /\ attempts' = Append(attempts, Made(r))
      BY <1>3, AppendShape
    <2> HIDE DEF new
    <2>2. Made(r) \in Attempt /\ attempts \in Seq(Attempt) /\ n \in Nat
      BY <1>1, <1>3, MadeIsAnAttempt DEF Base, TypeOK
    <2>3. /\ Len(attempts') = n + 1 /\ attempts'[n + 1].at = slots[r].at
          /\ \A k \in 1..n : attempts'[k] = attempts[k]
      BY <2>1, <2>2 DEF Made
    <2>4. slots'[r].step = "verify" /\ \A s \in Slots : s # r => slots'[s] = slots[s]
      BY <2>1 DEF Base, TypeOK
    <2> HIDE DEF n
    <2>5. ASSUME NEW x \in Int
          PROVE  Cardinality(Within(x)') + Cardinality(Awaiting(x)') <= Limit'
      <3>1. Cardinality(Within(x)) + Cardinality(Awaiting(x)) <= Limit /\ Limit' = Limit
        BY <1>1 DEF Capped, Limit
      <3>2. Awaiting(x)' = Awaiting(x) \ {r}
        BY <2>4 DEF Awaiting, Waiting
      <3>3. \A k : k \in 1..Len(attempts') <=> k \in 1..n \/ k = n + 1
        BY <2>2, <2>3
      <3>4. CASE slots[r].at \in x - Window .. x
        <4>1. Within(x)' = Within(x) \cup {n + 1}
          BY <2>3, <3>3, <3>4 DEF Within, n
        <4>2. r \in Awaiting(x)
          BY <1>1, <3>4 DEF Awaiting, Waiting
        <4>3. Cardinality(Awaiting(x)') = Cardinality(Awaiting(x)) - 1
          BY <3>2, <4>2, PlacesAreFinite, FS_RemoveElement
        <4>4. /\ Cardinality(Within(x)') <= Cardinality(Within(x)) + 1
              /\ Cardinality(Within(x)') \in Nat
          <5>1. IsFiniteSet(Within(x)) /\ Cardinality(Within(x)) \in Nat
            BY PlacesAreFinite
          <5> HIDE DEF n
          <5>2. Cardinality(Within(x) \cup {n + 1})
                  = IF n + 1 \in Within(x) THEN Cardinality(Within(x))
                                           ELSE Cardinality(Within(x)) + 1
            BY <5>1, FS_AddElement
          <5> QED
            BY <4>1, <5>1, <5>2
        <4> QED
          BY <3>1, <4>3, <4>4, PlacesAreFinite
      <3>5. CASE slots[r].at \notin x - Window .. x
        <4>1. Within(x)' = Within(x)
          BY <2>3, <3>3, <3>5 DEF Within, n
        <4>2. Awaiting(x)' = Awaiting(x)
          BY <3>2, <3>5 DEF Awaiting
        <4> QED
          BY <3>1, <4>1, <4>2
      <3> QED
        BY <3>4, <3>5
    <2> QED
      BY <2>5 DEF Capped
  <1> QED
    BY <1>2, <1>3 DEF AppendAttempt

LEMMA StepKeepsCapped ==
    ASSUME Base, Alone, Capped, [Next]_vars
    PROVE  Capped'
  <1>1. CASE UNCHANGED vars
    BY <1>1, CappedStays DEF vars, WaitsNoMore
  <1>2. ASSUME NEW r \in Slots, NEW kind \in Kinds, NEW id \in Ids \cup {0},
               Arrive(r, kind, id)
        PROVE  Capped'
    <2>1. /\ UNCHANGED attempts /\ (overlapped => overlapped')
          /\ overlapped \in BOOLEAN /\ overlapped' \in BOOLEAN /\ Slots # {}
      BY <1>2 DEF Arrive, Base, TypeOK
    <2>2. WaitsNoMore
      BY <1>2 DEF Arrive, WaitsNoMore, Waiting, Free, Base, TypeOK
    <2> QED
      BY <2>1, <2>2, CappedStays
  <1>3. ASSUME NEW r \in Slots, ReadRow(r)
        PROVE  Capped'
    <2>1. UNCHANGED <<attempts, overlapped>>
      BY <1>3 DEF ReadRow, Histories
    <2>2. CASE Go(r, Absent, "mint")
      BY <2>1, <2>2, GoWaitsNoMore, CappedStays DEF Waiting
    <2>3. ASSUME NEW id,
                 slots' = [slots EXCEPT ![r] =
                             [@ EXCEPT !.step = "pauses", !.id = id,
                                       !.one = [stored[id] EXCEPT !.pauses = <<>>]]]
          PROVE  Capped'
      <3>1. slots[r] \in Slot
        BY SlotIsTyped
      <3>2. WaitsNoMore
        BY <2>3, <3>1 DEF WaitsNoMore, Waiting, Slot, Base, TypeOK
      <3> QED
        BY <2>1, <3>2, CappedStays
    <2> QED
      BY <1>3, <2>2, <2>3 DEF ReadRow
  <1>4. ASSUME NEW r \in Slots, ReadPauses(r)
        PROVE  Capped'
    <2>1. UNCHANGED <<attempts, overlapped>>
      BY <1>4 DEF ReadPauses, Fail
    <2>2. CASE Fail(r)
      BY <2>1, <2>2, GoWaitsNoMore, CappedStays DEF Fail, Answer, Waiting
    <2>3. ASSUME NEW one, NEW at,
                 slots' = [slots EXCEPT ![r] =
                             [@ EXCEPT !.step = "act", !.one = one, !.at = at]]
          PROVE  Capped'
      <3>1. slots[r] \in Slot
        BY SlotIsTyped
      <3>2. WaitsNoMore
        BY <2>3, <3>1 DEF WaitsNoMore, Waiting, Slot, Base, TypeOK
      <3> QED
        BY <2>1, <3>2, CappedStays
    <2> QED
      BY <1>4, <2>2, <2>3 DEF ReadPauses
  <1>5. ASSUME NEW r \in Slots, Act(r)
        PROVE  Capped'
    BY <1>5, ActWaitsNoMore, CappedStays
  <1>6. ASSUME NEW r \in Slots, Mint(r)
        PROVE  Capped'
    <2>1. UNCHANGED <<attempts, overlapped>> /\ slots' = [slots EXCEPT ![r] = Free]
      BY <1>6, MintShape
    <2>2. WaitsNoMore
      BY <2>1 DEF WaitsNoMore, Waiting, Free, Base, TypeOK
    <2> QED
      BY <2>1, <2>2, CappedStays
  <1>7. ASSUME NEW r \in Slots, Touch(r)
        PROVE  Capped'
    <2>1. slots[r].step = "touch" /\ Put(r, Touched(slots[r].one, slots[r].at), "judge")
          /\ UNCHANGED overlapped
      BY <1>7 DEF Touch, At
    <2>2. WaitsNoMore /\ UNCHANGED attempts
      BY <2>1, PutWaitsNoMore DEF Waiting
    <2> QED
      BY <2>1, <2>2, CappedStays
  <1>8. ASSUME NEW r \in Slots, Judge(r)
        PROVE  Capped'
    <2>1. UNCHANGED <<attempts, overlapped>> /\ slots[r].step = "judge"
      BY <1>8 DEF Judge, At, Histories
    <2>2. CASE Answer(r)
      BY <2>1, <2>2, GoWaitsNoMore, CappedStays DEF Answer, Waiting
    <2>3. ASSUME NEW solved,
                 slots' = [slots EXCEPT ![r] = [@ EXCEPT !.step = "append", !.solved = solved]]
          PROVE  Capped'
      <3>1. slots[r] \in Slot
        BY SlotIsTyped
      <3>2. WaitsNoMore
        BY <2>1, <2>3, <3>1 DEF WaitsNoMore, Waiting, Slot, Base, TypeOK
      <3> QED
        BY <2>1, <3>2, CappedStays
    <2> QED
      BY <1>8, <2>2, <2>3 DEF Judge
  <1>9. ASSUME NEW r \in Slots, AppendVerification(r)
        PROVE  Capped'
    <2>1. /\ Len(attempts') = Len(attempts) /\ UNCHANGED overlapped
          /\ \A k \in 1..Len(attempts) : attempts'[k].at = attempts[k].at
          /\ Go(r, slots[r].one, IF slots[r].solved THEN "close" ELSE "free")
      BY <1>9, VerificationShape
    <2>2. (IF slots[r].solved THEN "close" ELSE "free") \notin Waiting
      BY DEF Waiting
    <2>3. WaitsNoMore
      BY <2>1, <2>2, GoWaitsNoMore
    <2> QED
      BY <2>1, <2>3, CappedStays
  <1>10. ASSUME NEW r \in Slots, CloseSolved(r)
         PROVE  Capped'
    <2>1. Put(r, Ended(slots[r].one, slots[r].at), "free") /\ UNCHANGED overlapped
      BY <1>10 DEF CloseSolved
    <2>2. WaitsNoMore /\ UNCHANGED attempts
      BY <2>1, PutWaitsNoMore DEF Waiting
    <2> QED
      BY <2>1, <2>2, CappedStays
  <1>11. CASE Tick
    BY <1>11, CappedStays DEF Tick, WaitsNoMore
  <1>12. CASE Restart
    <2>1. WaitsNoMore
      BY <1>12 DEF Restart, WaitsNoMore, Waiting, Free
    <2> QED
      BY <1>12, <2>1, CappedStays DEF Restart
  <1> QED
    BY <1>1, <1>2, <1>3, <1>4, <1>5, <1>6, <1>7, <1>8, <1>9, <1>10, <1>11, <1>12,
       CountKeepsCapped, AppendKeepsCapped DEF Next

LEMMA InitCapped ==
    ASSUME Init
    PROVE  Capped
  <1>1. \A x \in Int : Within(x) = {} /\ Awaiting(x) = {}
    BY DEF Init, Within, Awaiting, Waiting, Free
  <1>2. Cardinality({}) = 0 /\ Limit = Cap
    BY FS_EmptySet DEF Init, Limit
  <1> QED
    BY <1>1, <1>2, SittingAssumption DEF Capped

LEMMA CappedIsCapped ==
    ASSUME Base, Capped
    PROVE  SubmissionsAreCapped
  <1>1. ASSUME NEW k \in 1..Len(attempts)
        PROVE  Cardinality(Within(attempts[k].at)) <= Limit
    <2>1. attempts[k].at \in Int
      <3>1. attempts[k] \in Attempt
        BY DEF Base, TypeOK
      <3> QED
        BY <3>1 DEF Attempt
    <2>2. Cardinality(Within(attempts[k].at)) + Cardinality(Awaiting(attempts[k].at)) <= Limit
      BY <2>1 DEF Capped
    <2>3. /\ Cardinality(Within(attempts[k].at)) \in Nat
          /\ Cardinality(Awaiting(attempts[k].at)) \in Nat /\ Limit \in Int
      BY <2>1, PlacesAreFinite
    <2> QED
      BY <2>2, <2>3
  <1> QED
    BY <1>1 DEF SubmissionsAreCapped, Within, Limit

-----------------------------------------------------------------------------
(* What is moved of an ended sitting.  *)

LEMMA PutOverEnded ==
    ASSUME Base, Alone, NEW r \in Slots, slots[r].step \in Holding \ {"pauses"},
           Running(slots[r].one), NEW one, NEW step, step # slots[r].step, Put(r, one, step),
           NEW id \in Ids, Served(id), ~ Running(stored[id]), stored'[id] # stored[id]
    PROVE  /\ overlapped
           /\ \E s \in Slots : /\ slots[s].id = id /\ Running(slots[s].one)
                               /\ slots'[s] # slots[s]
  <1>1. /\ stored' = [stored EXCEPT ![slots[r].id] = one]
        /\ Go(r, one, step)
    BY DEF Put, Fail
  <1>2. slots[r].id = id
    BY <1>1 DEF Base, TypeOK
  <1>3. overlapped
    BY <1>2, ActsAlone
  <1>4. slots'[r].step # slots[r].step
    <2>1. slots[r] \in Slot /\ slots[r].step # "free"
      BY SlotIsTyped DEF Holding, Submitting
    <2>2. CASE step = "free"
      BY <1>1, <2>1, <2>2 DEF Go, Free, Base, TypeOK
    <2>3. CASE step # "free"
      BY <1>1, <2>1, <2>3 DEF Go, Slot, Base, TypeOK
    <2> QED
      BY <2>2, <2>3
  <1> QED
    BY <1>2, <1>3, <1>4

LEMMA StepOverEnded ==
    ASSUME Base, Alone, [Next]_vars,
           NEW id \in Ids, Served(id), ~ Running(stored[id]), stored'[id] # stored[id]
    PROVE  /\ overlapped
           /\ \E r \in Slots : /\ slots[r].id = id /\ Running(slots[r].one)
                               /\ slots'[r] # slots[r]
  <1> DEFINE Raced == /\ overlapped
                      /\ \E r \in Slots : /\ slots[r].id = id /\ Running(slots[r].one)
                                          /\ slots'[r] # slots[r]
  <1>1. stored' # stored
    BY Zenon
  <1>2. PICK r \in Slots : Act(r) \/ Mint(r) \/ Touch(r) \/ CloseSolved(r)
    BY <1>1 DEF Next, vars, Arrive, ReadRow, ReadPauses, Fail, Count, Judge, AppendAttempt,
                AppendVerification, Tick, Restart
  <1>3. SlotOK(slots[r])
    BY SlotIsTyped
  <1>4. ASSUME slots[r].step = "act", Running(slots[r].one), NEW one,
               NEW step \in {"free", "mint"}, Put(r, one, step)
        PROVE  Raced
    <2>1. slots[r].step \in Holding \ {"pauses"} /\ step # slots[r].step
      BY <1>4 DEF Holding
    <2> HIDE DEF Raced
    <2> QED
      BY <1>4, <2>1, PutOverEnded DEF Raced
  <1>5. CASE Act(r)
    <2>1. slots[r].step = "act" /\ (slots[r].kind = "serve" => Running(slots[r].one))
      BY <1>3, <1>5 DEF Act, At, SlotOK
    <2> DEFINE Puts == \E one : \E step \in {"free", "mint"} : Put(r, one, step)
    <2>2. UNCHANGED stored \/ (Running(slots[r].one) /\ Puts)
      <3>1. ServeAct(r) => Puts
        BY DEF ServeAct
      <3>2. GetAct(r) => UNCHANGED stored \/ (Running(slots[r].one) /\ Puts)
        BY DEF GetAct, Leave
      <3>3. SubmitAct(r) => UNCHANGED stored \/ (Running(slots[r].one) /\ Puts)
        BY DEF SubmitAct, Leave
      <3>4. StartClock(r) \/ PauseClock(r) \/ ResumeClock(r) =>
              UNCHANGED stored \/ (Running(slots[r].one) /\ Puts)
        BY DEF StartClock, PauseClock, ResumeClock, Press, Leave
      <3>5. End(r) => UNCHANGED stored \/ (Running(slots[r].one) /\ Puts)
        BY DEF End, Leave
      <3>6. ServeAct(r) => slots[r].kind = "serve"
        BY DEF ServeAct
      <3> QED
        BY <1>5, <2>1, <3>1, <3>2, <3>3, <3>4, <3>5, <3>6 DEF Act
    <2> QED
      BY <1>1, <1>4, <2>1, <2>2
  <1>6. CASE Mint(r)
    <2>1. PICK new, one :
            /\ MintsOver(r, new, one)
            /\ \/ stored' = [stored EXCEPT ![new] = one]
               \/ UNCHANGED stored
      BY ZenonT(60), <1>6, MintShape
    <2>2. new # id
      BY <2>1 DEF MintsOver
    <2> QED
      BY <2>1, <2>2 DEF Base, TypeOK
  <1>7. CASE Touch(r)
    <2>1. slots[r].step = "touch" /\ Put(r, Touched(slots[r].one, slots[r].at), "judge")
      BY <1>7 DEF Touch, At
    <2>2. slots[r].step \in Holding \ {"pauses"} /\ Running(slots[r].one)
      BY <1>3, <2>1 DEF SlotOK, Holding, Submitting
    <2> QED
      BY <2>1, <2>2, PutOverEnded
  <1>8. CASE CloseSolved(r)
    <2>1. slots[r].step = "close" /\ Put(r, Ended(slots[r].one, slots[r].at), "free")
      BY <1>8 DEF CloseSolved, At
    <2>2. slots[r].step \in Holding \ {"pauses"} /\ Running(slots[r].one)
      BY <1>3, <2>1 DEF SlotOK, Holding, Submitting
    <2> QED
      BY <2>1, <2>2, PutOverEnded
  <1> QED
    BY <1>2, <1>5, <1>6, <1>7, <1>8

-----------------------------------------------------------------------------
(* What is proved of every behaviour.  *)

IInv == Base /\ Alone /\ Capped

\* Whatever requests come, in whatever order they move and wherever the process
\* restarts, the invariant holds.
THEOREM SittingSound ==
    Spec => []IInv
  <1>1. Init => IInv
    BY InitBase, InitAlone, InitCapped DEF IInv
  <1>2. IInv /\ [Next]_vars => IInv'
    BY StepKeepsBase, StepKeepsAlone, StepKeepsCapped DEF IInv
  <1> QED
    BY <1>1, <1>2, PTL DEF Spec

\* Whatever overlaps, what is stored is what the tables admit (sitting.py
\* `submit`, log/store.py): an attempt's time is never negative.
THEOREM SittingTypeCorrect ==
    Spec => []TypeOK
  <1>1. IInv => TypeOK
    BY DEF IInv, Base
  <1> QED
    BY <1>1, SittingSound, PTL

\* No sequence of requests one after another, with a restart anywhere in it,
\* makes a record that cannot be stored or read back.
THEOREM RequestsFailOnlyInARace ==
    Spec => []FailsOnlyInARace
  <1>1. IInv => FailsOnlyInARace
    BY DEF IInv, Base, TypeOK, Alone, FailsOnlyInARace
  <1> QED
    BY <1>1, SittingSound, PTL

\* Until two requests overlap, the time of an attempt, summed from the pauses of
\* the record its submission read, is the time the clock ran by the presses.
THEOREM TimeIsTrue ==
    Spec => []TimeIsWhatTheClockRan
  <1>1. IInv => TimeIsWhatTheClockRan
    BY DEF IInv, Alone, TimeIsWhatTheClockRan
  <1> QED
    BY <1>1, SittingSound, PTL

\* Until two requests overlap or the process restarts, a solved attempt has
\* ended its sitting, once its request is done.
THEOREM SolvesEnd ==
    Spec => []SolvedEndsTheSitting
  <1>1. IInv => SolvedEndsTheSitting
    BY DEF IInv, Alone, SolvedEndsTheSitting
  <1> QED
    BY <1>1, SittingSound, PTL

\* The cap is passed by no more submissions than there are others in flight.
THEOREM CapHolds ==
    Spec => []SubmissionsAreCapped
  <1>1. IInv => SubmissionsAreCapped
    BY CappedIsCapped DEF IInv
  <1> QED
    BY <1>1, SittingSound, PTL

\* A sitting ended is written over by a request that read it running before
\* another one ended it, and by no other.
THEOREM EndedIsWrittenOverOnlyInARace ==
    Spec => EndedMovesOnlyInARace
  <1>1. IInv /\ [Next]_vars =>
          [\A id \in Ids :
             Served(id) /\ ~ Running(stored[id]) /\ stored'[id] # stored[id] =>
               /\ overlapped
               /\ \E r \in Slots : /\ slots[r].id = id /\ Running(slots[r].one)
                                   /\ slots'[r] # slots[r]]_vars
    BY StepOverEnded DEF IInv
  <1> QED
    BY <1>1, SittingSound, PTL DEF Spec, EndedMovesOnlyInARace
=============================================================================
