---------------------------- MODULE SpeedupProofs ----------------------------
(***************************************************************************)
(* Theorems about Speedup, for every problem, of any size and any timings, *)
(* and every cap, clock, margin and bound.                                 *)
(***************************************************************************)
EXTENDS Speedup, TLAPS

-----------------------------------------------------------------------------
(* The inductive invariant: what is known of the problem at each function  *)
(* of the search.                                                          *)

\* Nothing measured yet, or the last size tried was storable and finished.
Walked ==
  pc = "doubling" =>
    /\ over = 0 /\ count = 1 /\ inputs = Unsearched
    /\ \/ fitted = 0 /\ under = 1 /\ size = 1
       \/ fitted = under /\ under <= problem.fits /\ ~ Exceeds(under, 1) /\ under < size

\* The largest storable size lies between the bounds, and the last size that
\* finished is no larger.
Bounded ==
  pc = "edging" =>
    /\ over = 0 /\ count = 1 /\ fitted = under /\ ~ Exceeds(under, 1)
    /\ under <= edge.fits /\ edge.fits <= problem.fits /\ problem.fits < edge.over

\* Two sizes with the first to exceed between them, but where the first tried did.
Halved ==
  pc = "halving" =>
    /\ over # 0 /\ count = 1 /\ Exceeds(over, 1)
    /\ \/ under = over /\ over = 1
       \/ under < over /\ ~ Exceeds(under, 1)

\* No storable input exceeds with one call, and there are larger ones.
OneCallIsFew ==
  /\ over = 0 /\ fitted = problem.fits /\ fitted # 0 /\ problem.fits < problem.largest
  /\ ~ Exceeds(fitted, 1) /\ PerCall(fitted) # 0

\* Half of a count that was doubled was too few.
LeastCount == count = FirstCount(fitted) \/ ~ Exceeds(size, count \div 2)

Counting == pc = "counting" => OneCallIsFew /\ LeastCount

\* The case at hand separates, by one call at the smallest size or by several.
Separated ==
  pc = "settling" =>
    /\ Exceeds(size, count)
    /\ over = 0 => OneCallIsFew /\ LeastCount
    /\ over # 0 => /\ size = over /\ count = 1
                   /\ Monotone => \A s \in 1..(size - 1) : ~ Exceeds(s, 1)

IInv ==
  /\ TypeOK /\ problem.stores <= problem.fits
  /\ Walked /\ Bounded /\ Halved /\ Counting /\ Separated
  /\ CaseSeparates /\ MissingIsTrue
-----------------------------------------------------------------------------
(* Division, and what the clock and the counts are.                        *)

LEMMA Quotient ==
  ASSUME NEW a \in Nat, NEW b \in Nat \ {0}
  PROVE  a \div b \in Nat
  OBVIOUS

LEMMA QuotientGrows ==
  ASSUME NEW a \in Nat, NEW c \in Nat, NEW b \in Nat \ {0}, a <= c
  PROVE  a \div b <= c \div b
  OBVIOUS

LEMMA QuotientOfMore ==
  ASSUME NEW a \in Nat, NEW b \in Nat \ {0}, b <= a
  PROVE  a \div b # 0
  OBVIOUS

\* Halving a span keeps both of its ends apart from the middle.
LEMMA Middle ==
  ASSUME NEW m \in Nat, NEW n \in Nat, n - m > 1
  PROVE  LET middle == (m + n) \div 2 IN
         middle \in Nat /\ m < middle /\ middle < n
  OBVIOUS

LEMMA HalfOfDouble ==
  ASSUME NEW n \in Nat \ {0}
  PROVE  /\ Doubled(n) \in Nat \ {0} /\ Doubled(n) \div 2 = n
         /\ n < Doubled(n)
  BY DEF Doubled
LEMMA ProblemType ==
  ASSUME problem \in Problems
  PROVE  /\ problem.largest \in Nat \ {0}
         /\ problem.cost \in [1..problem.largest -> Costs]
         /\ problem.fits \in 0..problem.largest
         /\ problem.stores \in 0..problem.largest
  BY DEF Problems

LEMMA ClockType ==
  ASSUME problem \in Problems, NEW s \in 1..problem.largest, NEW calls \in Nat
  PROVE  Clock(s, calls) \in Nat
  <1>1. problem.cost[s] \in Nat
    BY ProblemType, SpeedupAssumption
  <1> DEFINE all == problem.cost[s] * calls
  <1>2. all \in Nat
    BY <1>1
  <1> HIDE DEF all
  <1>3. all \div Resolution \in Nat
    BY <1>2, Quotient, SpeedupAssumption
  <1> QED
    BY <1>3 DEF Clock, all

\* Where the naive solution slows down with the size, one call that finishes
\* finishes at every smaller size.
LEMMA SmallerFinishes ==
  ASSUME problem \in Problems, Monotone,
         NEW s \in 1..problem.largest, NEW t \in 1..problem.largest, s <= t,
         ~ Exceeds(t, 1)
  PROVE  ~ Exceeds(s, 1)
  <1>1. problem.cost[s] \in Nat /\ problem.cost[t] \in Nat
    BY ProblemType, SpeedupAssumption
  <1>2. problem.cost[s] <= problem.cost[t]
    BY DEF Monotone
  <1>3. /\ Clock(s, 1) = problem.cost[s] \div Resolution
        /\ Clock(t, 1) = problem.cost[t] \div Resolution
    BY <1>1 DEF Clock
  <1>4. problem.cost[s] \div Resolution <= problem.cost[t] \div Resolution
    BY <1>1, <1>2, QuotientGrows, SpeedupAssumption
  <1>5. Clock(s, 1) \in Nat /\ Clock(t, 1) \in Nat
    BY ClockType
  <1> QED
    BY <1>3, <1>4, <1>5, SpeedupAssumption DEF Exceeds

\* The first count is of at least one call.
LEMMA FirstCountType ==
  ASSUME problem \in Problems, NEW s \in 1..problem.largest, PerCall(s) # 0
  PROVE  FirstCount(s) \in Nat \ {0}
  <1>1. PerCall(s) \in Nat \ {0}
    BY ClockType DEF PerCall
  <1> DEFINE all == Cap + PerCall(s) - 1
  <1>2. all \in Nat /\ PerCall(s) <= all
    BY <1>1, SpeedupAssumption
  <1> HIDE DEF all
  <1>3. all \div PerCall(s) \in Nat /\ all \div PerCall(s) # 0
    BY <1>1, <1>2, Quotient, QuotientOfMore
  <1> QED
    BY <1>3 DEF FirstCount, all

-----------------------------------------------------------------------------
(* How a search ends.                                                      *)

Found == [missing : Reasons \cup {"none"}, size : Sizes, repeats : Nat \ {0},
          canonical : 0..Cap]

Site == [separating : Sizes, repeats : Nat \ {0}, gate : BOOLEAN, case : BOOLEAN,
         unseparated : Reasons \cup {"none", "raised"}]

LEMMA MissingType ==
  ASSUME problem \in Problems, NEW why \in Reasons
  PROVE  Missing(why) \in Found
  BY ProblemType, SpeedupAssumption DEF Missing, Found, Sizes

LEMMA MeasuredType ==
  ASSUME TypeOK, NEW why \in Reasons \cup {"none"}, NEW ms \in 0..Cap
  PROVE  Measured(why, ms) \in Found
  BY DEF TypeOK, Measured, Found

LEMMA LeftType ==
  ASSUME NEW answer \in Found
  PROVE  /\ Left(answer) \in Site
         /\ Left(answer).separating = answer.size /\ Left(answer).repeats = answer.repeats
         /\ Left(answer).unseparated = answer.missing
         /\ Left(answer).gate <=> answer.missing = "disagreed"
         /\ Left(answer).case <=> answer.missing = "none"
  BY DEF Left, Found, Site

\* What every step keeps of the types, the answer and the site aside.
Numbers ==
  /\ problem \in Problems /\ problem.stores <= problem.fits
  /\ size \in Sizes \ {0} /\ under \in Sizes \ {0} /\ fitted \in Sizes /\ over \in Sizes
  /\ edge \in [fits : Sizes, over : Sizes] /\ edge.fits <= edge.over
  /\ count \in Nat \ {0} /\ shrinks \in 1..Shrinks

\* An end with no measure: only two of its reasons say anything of the problem.
LEMMA EndsMissing ==
  ASSUME Numbers, Numbers', UNCHANGED problem, NEW why \in Reasons, Return(Missing(why)),
         why \notin {"case_too_large", "disagreed", "canonical_too_slow"},
         Monotone /\ why = "naive_finished" =>
           \A s \in 1..problem.largest : ~ Heavy(s) /\ ~ Exceeds(s, 1),
         Monotone /\ why = "count_too_large" =>
           problem.fits < problem.largest /\ \A s \in 1..problem.fits : ~ Exceeds(s, 1)
  PROVE  IInv'
  <1>1. /\ pc' = "done" /\ found' = Missing(why) /\ inputs' = Left(Missing(why))
        /\ Missing(why) \in Found /\ why # "none"
    BY MissingType DEF Return, Numbers, Reasons
  <1>2. /\ inputs' \in Site /\ inputs'.unseparated = why
        /\ ~ inputs'.gate /\ ~ inputs'.case
    BY <1>1, LeftType DEF Missing
  <1>3. TypeOK' /\ problem'.stores <= problem'.fits
    BY <1>1, <1>2 DEF Numbers, TypeOK, Found, Site, Sizes
  <1>4. (Walked /\ Bounded /\ Halved /\ Counting /\ Separated)'
    BY <1>1 DEF Walked, Bounded, Halved, Counting, Separated
  <1>5. CaseSeparates'
    BY <1>2 DEF CaseSeparates
  <1>6. MissingIsTrue'
    BY <1>1, <1>2 DEF MissingIsTrue, Monotone, Exceeds, Clock, Heavy
  <1> QED
    BY <1>3, <1>4, <1>5, <1>6 DEF IInv

\* An end with a measure: the separation was proved at the size it leaves.
LEMMA EndsMeasured ==
  ASSUME IInv, pc = "settling", UNCHANGED <<problem, size, under, fitted, over, edge, count, shrinks>>,
         NEW ms \in 0..Cap, NEW why \in {"canonical_too_slow", "disagreed", "case_too_large", "none"},
         Return(Measured(why, ms)),
         why = "case_too_large" => size > problem.stores,
         why = "none" => ms * Margin <= Cap /\ size <= problem.stores
  PROVE  IInv'
  <1>1. /\ pc' = "done" /\ found' = Measured(why, ms) /\ inputs' = Left(Measured(why, ms))
        /\ Measured(why, ms) \in Found
    BY MeasuredType DEF Return, IInv, Reasons
  <1>2. /\ inputs' \in Site /\ inputs'.unseparated = why
        /\ inputs'.separating = size /\ inputs'.repeats = count
        /\ inputs'.gate => why = "disagreed"
        /\ inputs'.case => why = "none"
    BY <1>1, LeftType DEF Measured
  <1>3. /\ found'.size = size /\ found'.repeats = count /\ found'.canonical = ms
    BY <1>1 DEF Measured
  <1>4. TypeOK' /\ problem'.stores <= problem'.fits
    BY <1>1, <1>2 DEF IInv, TypeOK, Found, Site, Sizes
  <1>5. (Walked /\ Bounded /\ Halved /\ Counting /\ Separated)'
    BY <1>1 DEF Walked, Bounded, Halved, Counting, Separated
  <1>6. /\ Exceeds(size, count)
        /\ over = 0 => LeastCount
        /\ over # 0 /\ Monotone => \A s \in 1..(size - 1) : ~ Exceeds(s, 1)
    BY DEF IInv, Separated
  <1>7. CaseSeparates'
    BY <1>2, <1>3, <1>6 DEF CaseSeparates, LeastCount, Monotone, Exceeds, Clock, FirstCount, PerCall
  <1>8. MissingIsTrue'
    BY <1>1, <1>2, <1>6 DEF MissingIsTrue, Monotone, Exceeds, Clock
  <1> QED
    BY <1>4, <1>5, <1>7, <1>8 DEF IInv
-----------------------------------------------------------------------------
(* Each step keeps the invariant.                                          *)

LEMMA NumbersHold ==
  ASSUME IInv
  PROVE  Numbers /\ found \in Found /\ inputs \in Site
  BY DEF IInv, TypeOK, Numbers, Found, Site

\* A search that goes on leaves the answer and the site to what it will find.
LEMMA GoesOn ==
  ASSUME Numbers, Numbers', UNCHANGED problem, found' \in Found, inputs' \in Site,
         pc' \in {"doubling", "edging", "halving", "counting", "settling"},
         Walked', Bounded', Halved', Counting', Separated'
  PROVE  IInv'
  <1>1. TypeOK' /\ problem'.stores <= problem'.fits
    BY DEF Numbers, TypeOK, Found, Site, Sizes
  <1>2. CaseSeparates' /\ MissingIsTrue'
    BY DEF CaseSeparates, MissingIsTrue
  <1> QED
    BY <1>1, <1>2 DEF IInv

LEMMA Initially == Init => IInv
  <1> SUFFICES ASSUME Init PROVE IInv
    OBVIOUS
  <1>1. /\ problem.largest \in Nat \ {0} /\ problem.fits \in Nat
        /\ 1 \in Sizes /\ 0 \in Sizes
    BY ProblemType DEF Init, Sizes
  <1>2. Missing("count_too_large") \in Found
    BY MissingType DEF Init, Reasons
  <1>3. Unsearched \in Site
    BY <1>1 DEF Unsearched, Site
  <1>4. TypeOK
    BY <1>1, <1>2, <1>3, SpeedupAssumption DEF Init, TypeOK, Found, Site
  <1>5. Walked /\ Bounded /\ Halved /\ Counting /\ Separated
    BY DEF Init, Walked, Bounded, Halved, Counting, Separated
  <1>6. CaseSeparates /\ MissingIsTrue
    BY DEF Init, CaseSeparates, MissingIsTrue
  <1> QED
    BY <1>4, <1>5, <1>6 DEF IInv, Init

LEMMA ReachCeilingKeeps ==
  ASSUME IInv, ReachCeiling
  PROVE  IInv'
  <1> USE DEF ReachCeiling
  <1>1. Numbers /\ found \in Found /\ inputs \in Site
    BY NumbersHold
  <1>2. /\ problem.fits \in Nat /\ problem.fits < size /\ size \in Nat /\ size <= problem.largest
        /\ problem.largest \in Nat
    BY <1>1, ProblemType DEF Numbers, Heavy, Sizes
  <1>3. CASE fitted = 0
    <2>1. size = 1 /\ Return(Missing("count_too_large")) /\ UNCHANGED edge
      BY <1>1, <1>3 DEF IInv, Walked, Numbers
    <2>2. problem.fits < problem.largest /\ \A s \in 1..problem.fits : FALSE
      <3>1. problem.fits = 0 /\ problem.fits < problem.largest
        BY <1>2, <2>1
      <3> QED
        BY <3>1
    <2>3. Numbers'
      BY <1>1, <2>1 DEF Numbers, Sizes
    <2> QED
      BY <1>1, <2>1, <2>2, <2>3, EndsMissing DEF Reasons
  <1>4. CASE fitted # 0
    <2>1. /\ pc' = "edging" /\ edge' = [fits |-> fitted, over |-> size]
          /\ UNCHANGED <<found, inputs>>
      BY <1>4
    <2>2. /\ over = 0 /\ count = 1 /\ fitted = under /\ under <= problem.fits
          /\ ~ Exceeds(under, 1) /\ under < size
      BY <1>4 DEF IInv, Walked
    <2>3. Numbers'
      BY <1>1, <1>2, <2>1, <2>2 DEF Numbers, Sizes
    <2>4. Bounded'
      BY <1>1, <1>2, <2>1, <2>2 DEF Bounded, Exceeds, Clock, Numbers, Sizes
    <2>5. Walked' /\ Halved' /\ Counting' /\ Separated'
      BY <2>1 DEF Walked, Halved, Counting, Separated
    <2>6. found' \in Found /\ inputs' \in Site
      BY <1>1, <2>1
    <2> QED
      BY <1>1, <2>1, <2>3, <2>4, <2>5, <2>6, GoesOn
  <1> QED
    BY <1>3, <1>4

LEMMA DoubleKeeps ==
  ASSUME IInv, Double
  PROVE  IInv'
  <1> USE DEF Double
  <1>1. Numbers /\ found \in Found /\ inputs \in Site
    BY NumbersHold
  <1>2. /\ problem.fits \in Nat /\ problem.largest \in Nat /\ problem.fits <= problem.largest
        /\ size \in 1..problem.largest /\ size <= problem.fits
    BY <1>1, ProblemType DEF Numbers, Heavy, Sizes
  <1>3. /\ over = 0 /\ count = 1
        /\ \/ fitted = 0 /\ under = 1 /\ size = 1
           \/ fitted = under /\ ~ Exceeds(under, 1) /\ under < size
    BY DEF IInv, Walked
  <1>4. CASE Exceeds(size, 1)
    <2>1. /\ pc' = "halving" /\ over' = size /\ fitted' = size
          /\ UNCHANGED <<problem, size, under, edge, count, shrinks, found, inputs>>
      BY <1>4
    <2>2. Numbers'
      BY <1>1, <1>2, <2>1 DEF Numbers, Sizes
    <2>3. Halved'
      BY <1>1, <1>2, <1>3, <1>4, <2>1 DEF Halved, Exceeds, Clock, Numbers, Sizes
    <2>4. Walked' /\ Bounded' /\ Counting' /\ Separated'
      BY <2>1 DEF Walked, Bounded, Counting, Separated
    <2>5. found' \in Found /\ inputs' \in Site
      BY <1>1, <2>1
    <2> QED
      BY <1>1, <2>1, <2>2, <2>3, <2>4, <2>5, GoesOn
  <1>5. CASE ~ Exceeds(size, 1) /\ Last(size)
    <2>1. /\ Return(Missing("naive_finished")) /\ under' = size /\ fitted' = size
          /\ UNCHANGED <<problem, size, over, edge, count, shrinks>>
      BY <1>5
    <2>2. Numbers'
      BY <1>1, <1>2, <2>1 DEF Numbers, Sizes
    <2>3. size = problem.largest /\ problem.fits = problem.largest
      BY <1>2, <1>5 DEF Last
    <2>4. ASSUME Monotone, NEW s \in 1..problem.largest
          PROVE  ~ Heavy(s) /\ ~ Exceeds(s, 1)
      BY <1>1, <1>2, <1>5, <2>3, <2>4, SmallerFinishes DEF Heavy, Numbers
    <2> QED
      BY <1>1, <2>1, <2>2, <2>4, EndsMissing DEF Reasons
  <1>6. CASE ~ Exceeds(size, 1) /\ ~ Last(size)
    <2>1. /\ size' = Lesser(Doubled(size), problem.largest)
          /\ under' = size /\ fitted' = size
          /\ UNCHANGED <<pc, problem, over, edge, count, shrinks, found, inputs>>
      BY <1>6
    <2>2. size' \in 1..problem.largest /\ size < size'
      BY <1>2, <1>6, <2>1, HalfOfDouble DEF Lesser, Last
    <2>3. Numbers'
      BY <1>1, <1>2, <2>1, <2>2 DEF Numbers, Sizes
    <2>4. UNCHANGED <<problem, found, inputs>> /\ pc' = "doubling"
      BY <2>1
    <2>5. inputs = Unsearched
      BY DEF IInv, Walked
    <2>6. Walked'
      BY <1>2, <1>3, <1>6, <2>1, <2>2, <2>5 DEF Walked, Exceeds, Clock, Unsearched
    <2>7. Bounded' /\ Halved' /\ Counting' /\ Separated'
      BY <2>4 DEF Bounded, Halved, Counting, Separated
    <2>8. found' \in Found /\ inputs' \in Site
      BY <1>1, <2>4
    <2> QED
      BY <1>1, <2>3, <2>4, <2>6, <2>7, <2>8, GoesOn
  <1> QED
    BY <1>4, <1>5, <1>6

LEMMA StorableKeeps ==
  ASSUME IInv, Storable
  PROVE  IInv'
  <1> DEFINE middle == (edge.fits + edge.over) \div 2
  <1>1. Numbers /\ found \in Found /\ inputs \in Site
    BY NumbersHold
  <1>2. /\ pc = "edging" /\ edge.over - edge.fits > 1
        /\ UNCHANGED <<problem, pc, size, under, fitted, over, count, shrinks, found, inputs>>
        /\ edge' = IF Heavy(middle) THEN [edge EXCEPT !.over = middle]
                                    ELSE [edge EXCEPT !.fits = middle]
    BY DEF Storable
  <1>3. /\ edge.fits \in Nat /\ edge.over \in Nat /\ edge.over <= problem.largest
        /\ problem.fits \in Nat /\ problem.largest \in Nat
    BY <1>1, ProblemType DEF Numbers, Sizes
  <1>4. middle \in Nat /\ edge.fits < middle /\ middle < edge.over
    BY <1>2, <1>3, Middle
  <1> HIDE DEF middle
  <1>5. CASE Heavy(middle)
    <2>1. edge' = [fits |-> edge.fits, over |-> middle]
      BY <1>1, <1>2, <1>5 DEF Numbers
    <2>2. Numbers'
      BY <1>1, <1>2, <1>3, <1>4, <2>1 DEF Numbers, Sizes
    <2>3. Bounded'
      BY <1>2, <1>3, <1>4, <1>5, <2>1 DEF IInv, Bounded, Heavy, Exceeds, Clock
    <2> QED
      BY <1>1, <1>2, <2>2, <2>3, GoesOn DEF Walked, Halved, Counting, Separated
  <1>6. CASE ~ Heavy(middle)
    <2>1. edge' = [fits |-> middle, over |-> edge.over]
      BY <1>1, <1>2, <1>6 DEF Numbers
    <2>2. Numbers'
      BY <1>1, <1>2, <1>3, <1>4, <2>1 DEF Numbers, Sizes
    <2>3. Bounded'
      BY <1>1, <1>2, <1>3, <1>4, <1>6, <2>1 DEF IInv, Bounded, Heavy, Exceeds, Clock, Numbers, Sizes
    <2> QED
      BY <1>1, <1>2, <2>2, <2>3, GoesOn DEF Walked, Halved, Counting, Separated
  <1> QED
    BY <1>5, <1>6
LEMMA EdgeKeeps ==
  ASSUME IInv, Edge
  PROVE  IInv'
  <1>1. Numbers /\ found \in Found /\ inputs \in Site
    BY NumbersHold
  <1>2. /\ pc = "edging" /\ edge.over - edge.fits <= 1
        /\ UNCHANGED <<problem, under, edge, shrinks>>
    BY DEF Edge
  <1>3. /\ edge.fits \in Nat /\ edge.over \in Nat /\ edge.over <= problem.largest
        /\ problem.fits \in Nat /\ problem.largest \in Nat
        /\ under \in Nat \ {0} /\ fitted \in Nat
    BY <1>1, ProblemType DEF Numbers, Sizes
  <1>4. /\ over = 0 /\ count = 1 /\ fitted = under /\ ~ Exceeds(under, 1)
        /\ under <= edge.fits /\ edge.fits <= problem.fits /\ problem.fits < edge.over
    BY <1>2 DEF IInv, Bounded
  <1>5. edge.fits = problem.fits /\ edge.fits \in 1..problem.largest
        /\ problem.fits < problem.largest
    BY <1>2, <1>3, <1>4
  <1>6. CASE edge.fits > fitted /\ Exceeds(edge.fits, 1)
                /\ pc' = "halving" /\ over' = edge.fits
                /\ UNCHANGED <<size, fitted, count, found, inputs>>
    <2>1. Numbers'
      BY <1>1, <1>2, <1>5, <1>6 DEF Numbers, Sizes
    <2>2. Halved'
      BY <1>2, <1>3, <1>4, <1>5, <1>6 DEF Halved, Exceeds, Clock
    <2> QED
      BY <1>1, <1>2, <1>6, <2>1, <2>2, GoesOn DEF Walked, Bounded, Counting, Separated
  <1>7. CASE /\ edge.fits > fitted => ~ Exceeds(edge.fits, 1)
             /\ fitted' = edge.fits /\ Repeat(edge.fits) /\ UNCHANGED over
    <2>1. ~ Exceeds(edge.fits, 1)
      <3>1. CASE edge.fits > fitted
        BY <1>7, <3>1
      <3>2. CASE edge.fits = under
        BY <1>4, <3>2
      <3> QED
        BY <1>3, <1>4, <3>1, <3>2
    <2>2. CASE PerCall(edge.fits) = 0
      <3>1. Return(Missing("count_too_large")) /\ UNCHANGED <<size, count>>
        BY <1>7, <2>2 DEF Repeat
      <3>2. Numbers'
        BY <1>1, <1>2, <1>5, <1>7, <3>1 DEF Numbers, Sizes
      <3>3. ASSUME Monotone, NEW s \in 1..problem.fits
            PROVE  ~ Exceeds(s, 1)
        BY <1>1, <1>3, <1>5, <2>1, <3>3, SmallerFinishes DEF Numbers
      <3> QED
        BY <1>1, <1>2, <1>5, <3>1, <3>2, <3>3, EndsMissing DEF Reasons
    <2>3. CASE PerCall(edge.fits) # 0
      <3>1. /\ pc' = "counting" /\ size' = edge.fits /\ count' = FirstCount(edge.fits)
            /\ UNCHANGED <<found, inputs>>
        BY <1>7, <2>3 DEF Repeat
      <3>2. count' \in Nat \ {0}
        BY <1>1, <1>5, <2>3, <3>1, FirstCountType DEF Numbers
      <3>3. Numbers'
        BY <1>1, <1>2, <1>5, <1>7, <3>1, <3>2 DEF Numbers, Sizes
      <3>4. OneCallIsFew'
        BY <1>2, <1>3, <1>4, <1>5, <1>7, <2>1, <2>3 DEF OneCallIsFew, Exceeds, PerCall, Clock
      <3>5. LeastCount'
        BY <1>2, <1>7, <3>1 DEF LeastCount, FirstCount, PerCall, Clock
      <3> QED
        BY <1>1, <1>2, <3>1, <3>3, <3>4, <3>5, GoesOn
           DEF Walked, Bounded, Halved, Counting, Separated
    <2> QED
      BY <2>2, <2>3
  <1> QED
    BY <1>6, <1>7 DEF Edge

LEMMA HalveKeeps ==
  ASSUME IInv, Halve
  PROVE  IInv'
  <1>1. Numbers /\ found \in Found /\ inputs \in Site
    BY NumbersHold
  <1>2. /\ pc = "halving"
        /\ UNCHANGED <<problem, fitted, edge, count, shrinks, found, inputs>>
    BY DEF Halve
  <1>3. /\ problem.largest \in Nat
        /\ under \in 1..problem.largest /\ over \in 1..problem.largest
    BY <1>1, <1>2, ProblemType DEF Numbers, Sizes, IInv, Halved
  <1>4. /\ count = 1 /\ Exceeds(over, 1)
        /\ \/ under = over /\ over = 1
           \/ under < over /\ ~ Exceeds(under, 1)
    BY <1>2 DEF IInv, Halved
  <1>5. CASE ~ Adjacent
    <2> DEFINE middle == (under + over) \div 2
    <2>1. /\ IF Exceeds(middle, 1) THEN over' = middle /\ UNCHANGED under
                                   ELSE under' = middle /\ UNCHANGED over
          /\ UNCHANGED <<pc, size>>
      BY <1>5 DEF Halve
    <2>2. middle \in Nat /\ under < middle /\ middle < over
      BY <1>3, <1>5, Middle DEF Adjacent
    <2> HIDE DEF middle
    <2>3. Numbers'
      BY <1>1, <1>2, <1>3, <2>1, <2>2 DEF Numbers, Sizes
    <2>4. Halved'
      <3>1. CASE Exceeds(middle, 1)
        BY <1>2, <1>3, <1>4, <1>5, <2>1, <2>2, <3>1 DEF Halved, Exceeds, Clock, Adjacent
      <3>2. CASE ~ Exceeds(middle, 1)
        BY <1>2, <1>3, <1>4, <2>1, <2>2, <3>2 DEF Halved, Exceeds, Clock
      <3> QED
        BY <3>1, <3>2
    <2> QED
      BY <1>1, <1>2, <2>1, <2>3, <2>4, GoesOn DEF Walked, Bounded, Counting, Separated
  <1>6. CASE Adjacent
    <2>1. pc' = "settling" /\ size' = over /\ UNCHANGED <<under, over>>
      BY <1>6 DEF Halve
    <2>2. Numbers'
      BY <1>1, <1>2, <1>3, <2>1 DEF Numbers, Sizes
    <2>3. ASSUME Monotone, NEW s \in 1..(over - 1)
          PROVE  ~ Exceeds(s, 1)
      <3>1. over - under <= 1
        BY <1>6 DEF Adjacent
      <3>2. /\ under < over /\ ~ Exceeds(under, 1)
            /\ s \in 1..problem.largest /\ s <= under
        BY <1>3, <1>4, <3>1
      <3> QED
        BY <1>1, <1>3, <2>3, <3>2, SmallerFinishes DEF Numbers
    <2>4. Separated'
      <3>1. /\ problem' = problem /\ over' = over /\ size' = over /\ count' = 1
            /\ over # 0
        BY <1>2, <1>3, <1>4, <2>1
      <3>2. Exceeds(size, count)'
        BY <1>4, <3>1 DEF Exceeds, Clock
      <3>3. Monotone' => \A s \in 1..(size' - 1) : ~ Exceeds(s, 1)'
        BY <2>3, <3>1 DEF Monotone, Exceeds, Clock
      <3> QED
        BY <3>1, <3>2, <3>3 DEF Separated
    <2> QED
      BY <1>1, <1>2, <2>1, <2>2, <2>4, GoesOn DEF Walked, Bounded, Halved, Counting
  <1> QED
    BY <1>5, <1>6

LEMMA CountKeeps ==
  ASSUME IInv, Count
  PROVE  IInv'
  <1>1. Numbers /\ found \in Found /\ inputs \in Site
    BY NumbersHold
  <1>2. /\ pc = "counting"
        /\ UNCHANGED <<problem, size, under, fitted, over, edge, shrinks>>
    BY DEF Count
  <1>3. OneCallIsFew /\ LeastCount
    BY <1>2 DEF IInv, Counting
  <1>4. OneCallIsFew'
    BY <1>2, <1>3 DEF OneCallIsFew, Exceeds, PerCall, Clock
  <1>5. CASE Return(Missing("count_too_large")) /\ UNCHANGED count
    <2>1. Numbers'
      BY <1>1, <1>2, <1>5 DEF Numbers, Sizes
    <2>2. /\ problem.fits < problem.largest /\ problem.fits \in 1..problem.largest
          /\ ~ Exceeds(problem.fits, 1)
      BY <1>1, <1>3, ProblemType DEF OneCallIsFew, Numbers, Sizes
    <2>3. ASSUME Monotone, NEW s \in 1..problem.fits
          PROVE  ~ Exceeds(s, 1)
      BY <1>1, <2>2, <2>3, ProblemType, SmallerFinishes DEF Numbers
    <2> QED
      BY <1>1, <1>2, <1>5, <2>1, <2>2, <2>3, EndsMissing DEF Reasons
  <1>6. CASE Exceeds(size, count) /\ pc' = "settling" /\ UNCHANGED <<count, found, inputs>>
    <2>1. Numbers'
      BY <1>1, <1>2, <1>6 DEF Numbers, Sizes
    <2>2. LeastCount'
      BY <1>2, <1>3, <1>6 DEF LeastCount, FirstCount, PerCall, Exceeds, Clock
    <2>3. Separated'
      BY <1>2, <1>3, <1>4, <1>6, <2>2 DEF Separated, OneCallIsFew, Exceeds, Clock
    <2> QED
      BY <1>1, <1>2, <1>6, <2>1, <2>3, GoesOn DEF Walked, Bounded, Halved, Counting
  <1>7. CASE ~ Exceeds(size, count) /\ count' = Doubled(count) /\ UNCHANGED <<pc, found, inputs>>
    <2>1. count' \in Nat \ {0} /\ count' \div 2 = count
      BY <1>1, <1>7, HalfOfDouble DEF Numbers
    <2>2. Numbers'
      BY <1>1, <1>2, <1>7, <2>1 DEF Numbers, Sizes
    <2>3. LeastCount'
      BY <1>2, <1>7, <2>1 DEF LeastCount, Exceeds, Clock
    <2> QED
      BY <1>1, <1>2, <1>4, <1>7, <2>2, <2>3, GoesOn
         DEF Walked, Bounded, Halved, Counting, Separated
  <1> QED
    BY <1>5, <1>6, <1>7 DEF Count

LEMMA SettleKeeps ==
  ASSUME IInv, NEW ms \in 0..Cap, NEW agrees \in BOOLEAN, Settle(ms, agrees)
  PROVE  IInv'
  <1>1. Numbers /\ found \in Found /\ inputs \in Site
    BY NumbersHold
  <1>2. pc = "settling" /\ UNCHANGED <<problem, under, fitted, over, edge>>
    BY DEF Settle
  <1>3. CASE /\ size >= 2 /\ shrinks > 1 /\ over = 0
             /\ pc' = "counting" /\ found' = Measured("case_too_large", ms)
             /\ shrinks' = shrinks - 1
             /\ size' = size \div 2 /\ count' = FirstCount(fitted)
             /\ UNCHANGED inputs
    <2>1. OneCallIsFew
      BY <1>2, <1>3 DEF IInv, Separated
    <2>2. /\ problem.largest \in Nat /\ size \in 1..problem.largest
          /\ fitted \in 1..problem.largest
      BY <1>1, <2>1, ProblemType DEF OneCallIsFew, Numbers, Sizes
    <2>3. size' \in 1..problem.largest
      BY <1>3, <2>2
    <2>4. count' \in Nat \ {0}
      BY <1>1, <1>3, <2>1, <2>2, FirstCountType DEF Numbers, OneCallIsFew
    <2>5. Numbers'
      BY <1>1, <1>2, <1>3, <2>2, <2>3, <2>4, SpeedupAssumption DEF Numbers, Sizes
    <2>6. OneCallIsFew'
      BY <1>2, <2>1 DEF OneCallIsFew, Exceeds, PerCall, Clock
    <2>7. LeastCount'
      BY <1>2, <1>3 DEF LeastCount, FirstCount, PerCall, Clock
    <2>8. found' \in Found /\ inputs' \in Site
      <3>1. TypeOK /\ "case_too_large" \in Reasons \cup {"none"}
        BY DEF IInv, Reasons
      <3>2. Measured("case_too_large", ms) \in Found
        BY <3>1, MeasuredType
      <3>3. Found' = Found /\ Site' = Site
        BY <1>2 DEF Found, Site, Sizes
      <3> QED
        BY <1>1, <1>3, <3>2, <3>3
    <2> QED
      BY <1>1, <1>2, <1>3, <2>5, <2>6, <2>7, <2>8, GoesOn
         DEF Walked, Bounded, Halved, Counting, Separated
  <1>4. CASE UNCHANGED <<size, count, shrinks>> /\
              \/ Return(Measured("canonical_too_slow", ms))
              \/ Return(Measured("disagreed", ms))
              \/ Return(Measured("case_too_large", ms)) /\ size > problem.stores
              \/ Return(Measured("none", ms)) /\ ms * Margin <= Cap /\ size <= problem.stores
    <2>1. UNCHANGED <<problem, size, under, fitted, over, edge, count, shrinks>>
      BY <1>2, <1>4
    <2>2. CASE Return(Measured("canonical_too_slow", ms))
      BY <1>2, <2>1, <2>2, EndsMeasured
    <2>3. CASE Return(Measured("disagreed", ms))
      BY <1>2, <2>1, <2>3, EndsMeasured
    <2>4. CASE Return(Measured("case_too_large", ms)) /\ size > problem.stores
      BY <1>2, <2>1, <2>4, EndsMeasured
    <2>5. CASE Return(Measured("none", ms)) /\ ms * Margin <= Cap /\ size <= problem.stores
      BY <1>2, <2>1, <2>5, EndsMeasured
    <2> QED
      BY <1>4, <2>2, <2>3, <2>4, <2>5
  <1> QED
    BY <1>3, <1>4 DEF Settle, Shrink

LEMMA FailureKeeps ==
  ASSUME IInv, \/ CanonicalFails
               \/ NaiveCrashes
  PROVE  IInv'
  <1>1. Numbers
    BY NumbersHold
  <1>2. UNCHANGED <<problem, size, under, fitted, over, edge, count, shrinks>>
    BY DEF CanonicalFails, NaiveCrashes
  <1>3. Numbers'
    BY <1>1, <1>2 DEF Numbers, Sizes
  <1>4. PICK why \in {"canonical_failed", "naive_crashed"} : Return(Missing(why))
    BY DEF CanonicalFails, NaiveCrashes
  <1> QED
    BY <1>1, <1>2, <1>3, <1>4, EndsMissing DEF Reasons

LEMMA RaiseKeeps ==
  ASSUME IInv, Raise
  PROVE  IInv'
  <1>1. Numbers /\ found \in Found /\ inputs \in Site
    BY NumbersHold
  <1>2. /\ pc' = "done" /\ inputs' = [Unsearched EXCEPT !.unseparated = "raised"]
        /\ UNCHANGED <<problem, size, under, fitted, over, edge, count, shrinks, found>>
    BY DEF Raise
  <1>3. /\ inputs' = [separating |-> 0, repeats |-> 1, unseparated |-> "raised",
                      gate |-> FALSE, case |-> FALSE]
    BY <1>2 DEF Unsearched
  <1>4. 0 \in Sizes
    BY <1>1, ProblemType DEF Numbers, Sizes
  <1>5. inputs' \in Site
    BY <1>3, <1>4 DEF Site
  <1>6. TypeOK' /\ problem'.stores <= problem'.fits
    BY <1>1, <1>2, <1>5 DEF Numbers, TypeOK, Found, Site, Sizes
  <1>7. (Walked /\ Bounded /\ Halved /\ Counting /\ Separated)'
    BY <1>2 DEF Walked, Bounded, Halved, Counting, Separated
  <1>8. CaseSeparates' /\ MissingIsTrue'
    BY <1>2, <1>3 DEF CaseSeparates, MissingIsTrue
  <1> QED
    BY <1>6, <1>7, <1>8 DEF IInv

LEMMA StutterKeeps ==
  ASSUME IInv, UNCHANGED vars
  PROVE  IInv'
  <1> USE DEF vars
  <1>1. TypeOK' /\ problem'.stores <= problem'.fits
    BY DEF IInv, TypeOK, Sizes
  <1>2. Walked' /\ Bounded' /\ Halved'
    BY DEF IInv, Walked, Bounded, Halved, Exceeds, Clock
  <1>3. (OneCallIsFew <=> OneCallIsFew') /\ (LeastCount <=> LeastCount')
    BY DEF OneCallIsFew, LeastCount, FirstCount, PerCall, Exceeds, Clock
  <1>4. Counting' /\ Separated'
    BY <1>3 DEF IInv, Counting, Separated, Monotone, Exceeds, Clock
  <1>5. CaseSeparates'
    BY DEF IInv, CaseSeparates, Monotone, FirstCount, PerCall, Exceeds, Clock
  <1>6. MissingIsTrue'
    BY DEF IInv, MissingIsTrue, Monotone, Heavy, Exceeds, Clock
  <1> QED
    BY <1>1, <1>2, <1>4, <1>5, <1>6 DEF IInv

LEMMA Inductive == IInv /\ [Next]_vars => IInv'
  <1> SUFFICES ASSUME IInv, [Next]_vars PROVE IInv'
    OBVIOUS
  <1>1. CASE ReachCeiling \/ Double \/ Storable \/ Edge \/ Halve \/ Count
    BY <1>1, ReachCeilingKeeps, DoubleKeeps, StorableKeeps, EdgeKeeps, HalveKeeps, CountKeeps
  <1>2. CASE \E ms \in 0..Cap, agrees \in BOOLEAN : Settle(ms, agrees)
    BY <1>2, SettleKeeps
  <1>3. CASE CanonicalFails \/ NaiveCrashes
    BY <1>3, FailureKeeps
  <1>4. CASE Raise
    BY <1>4, RaiseKeeps
  <1>5. CASE UNCHANGED vars
    BY <1>5, StutterKeeps
  <1> QED
    BY <1>1, <1>2, <1>3, <1>4, <1>5 DEF Next, Search

-----------------------------------------------------------------------------
(* The theorems.                                                           *)

\* What the invariant says of each function of the search holds at every state.
THEOREM SearchKnowsItsBounds == Spec => []IInv
  BY Initially, Inductive, PTL DEF Spec

\* Every size the search asks the builder for is one the statement allows, at least 1 and at
\* most the largest, whichever walk it comes from (_doubled, _storable, the halving, _repeated).
THEOREM SizesAreLegal == Spec => []TypeOK
  <1>1. IInv => TypeOK
    BY DEF IInv
  <1> QED
    BY <1>1, SearchKnowsItsBounds, PTL

\* found_in stores a case only where it separates: over the cap for the naive solution at the
\* very size and count, a margin under it for the canonical, at the smallest such size of one
\* call, or at a count half of which would not do.
THEOREM StoredCaseSeparates == Spec => []CaseSeparates
  <1>1. IInv => CaseSeparates
    BY DEF IInv
  <1> QED
    BY <1>1, SearchKnowsItsBounds, PTL

\* What the inputs site says of a search that stored no case is so of the problem: the naive
\* solution finished everywhere, or at every storable size, or was separated and not kept.
THEOREM ReasonIsTrue == Spec => []MissingIsTrue
  <1>1. IInv => MissingIsTrue
    BY DEF IInv
  <1> QED
    BY <1>1, SearchKnowsItsBounds, PTL
=============================================================================
