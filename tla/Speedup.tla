------------------------------ MODULE Speedup ------------------------------
(***************************************************************************)
(* The speedup search of one problem (generation/speedup.py) and what it    *)
(* leaves on the draft's inputs (generation/timing.py).                     *)
(*                                                                          *)
(* A problem is what the search cannot change: the largest size its         *)
(* statement allows, what one call of the naive solution costs at a size,   *)
(* the largest size whose arguments are under the ceiling, and the largest  *)
(* whose arguments and answer are.  Weight grows with the size; the cost    *)
(* does where Monotone says so.  A run that crashes, a build that fails and *)
(* what the canonical and the reference answer are choices of the step that *)
(* makes the run.  A size is 0 where the code has None.                     *)
(***************************************************************************)
EXTENDS Integers

CONSTANTS
    MaxSize,     \* bound: the largest size a statement may allow
    Costs,       \* what one call of the naive solution may cost
    Cap,         \* what a sitting allows one case, in the child's milliseconds
    Resolution,  \* how much cost one millisecond of the child's clock stands for
    Margin,      \* MARGIN: the canonical fits this many times under the cap
    RepeatsMax,  \* REPEATS_MAX
    Shrinks      \* SHRINKS

ASSUME SpeedupAssumption ==
    /\ Cap \in Nat \ {0} /\ Resolution \in Nat \ {0} /\ Margin \in Nat \ {0}
    /\ RepeatsMax \in Nat /\ Shrinks \in Nat \ {0}
    /\ MaxSize \in Nat \ {0} /\ Costs \subseteq Nat

Problems ==
    UNION {[largest : {n}, cost : [1..n -> Costs], fits : 0..n, stores : 0..n] : n \in 1..MaxSize}

VARIABLES
    problem,  \* the problem searched, which no step changes
    pc,       \* the function of the search that is running
    size,     \* the size at hand: the walk's, or the one whose calls are counted
    under,    \* the last size the naive solution finished at
    fitted,   \* the largest storable size measured
    over,     \* the smallest size known to exceed the cap
    edge,     \* the bounds _storable halves between
    count,    \* the calls the case at hand carries
    shrinks,  \* how often _repeated may still count
    found,    \* what the search answered, or the last count did
    inputs    \* what the search left on the inputs site

vars == <<problem, pc, size, under, fitted, over, edge, count, shrinks, found, inputs>>

Reasons == {"naive_finished", "naive_crashed", "canonical_failed", "canonical_too_slow",
            "count_too_large", "case_too_large", "disagreed"}

----------------------------------------------------------------------------

\* What the child measures of the naive solution, and whether that is over the cap.
\* The measuring cap is above Cap, so a run it cut short has exceeded as well.
Clock(s, calls) == (problem.cost[s] * calls) \div Resolution

Exceeds(s, calls) == Clock(s, calls) > Cap

\* A build over the ceiling is one no case can carry.
Heavy(s) == s > problem.fits

\* MUTANT: the doubling is not clamped, and passes the statement's own bound.
Unclamped(m, n) == m

Lesser(m, n) == IF m < n THEN m ELSE n

\* MUTANT: the walk ends where a doubling would pass the bound, which it never tries.
LastDoubling(s) == 2 * s > problem.largest

\* The largest legal input is the one size a search that found nothing has to have tried.
Last(s) == s >= problem.largest

\* MUTANT: the halving stops with a size between its bounds.
NearlyAdjacent == over - under <= 2

Adjacent == over - under <= 1

\* MUTANT: a count that fell short is tried again.
Same(calls) == calls

Doubled(calls) == 2 * calls

\* An answer with no size, and one that carries what was measured at a size.
Missing(why) == [missing |-> why, size |-> 0, repeats |-> 1, canonical |-> 0]

Measured(why, ms) == [missing |-> why, size |-> size, repeats |-> count, canonical |-> ms]

\* found_in: the inputs site holds the size a search proved, stored or not.
Left(answer) ==
    [separating |-> answer.size, repeats |-> answer.repeats, unseparated |-> answer.missing,
     gate |-> answer.missing = "disagreed", case |-> answer.missing = "none"]

Unsearched == [separating |-> 0, repeats |-> 1, unseparated |-> "none",
               gate |-> FALSE, case |-> FALSE]

Return(answer) == pc' = "done" /\ found' = answer /\ inputs' = Left(answer)

Init ==
    /\ problem \in Problems /\ problem.stores <= problem.fits
    /\ pc = "doubling" /\ size = 1 /\ under = 1 /\ fitted = 0 /\ over = 0
    /\ edge = [fits |-> 0, over |-> 0] /\ count = 1 /\ shrinks = Shrinks
    /\ found = Missing("count_too_large") /\ inputs = Unsearched

----------------------------------------------------------------------------
(* _doubled: from the smallest size up, until one exceeds or none is left. *)

\* The ceiling ends the walk before the run.  Nothing measured leaves nothing to count.
ReachCeiling ==
    /\ pc = "doubling" /\ Heavy(size)
    /\ IF fitted = 0
       THEN Return(Missing("count_too_large")) /\ UNCHANGED edge
       ELSE /\ pc' = "edging" /\ edge' = [fits |-> fitted, over |-> size]
            /\ UNCHANGED <<found, inputs>>
    /\ UNCHANGED <<problem, size, under, fitted, over, count, shrinks>>

Double ==
    /\ pc = "doubling" /\ ~Heavy(size)
    /\ fitted' = size
    /\ \/ /\ Exceeds(size, 1)
          /\ pc' = "halving" /\ over' = size
          /\ UNCHANGED <<size, under, found, inputs>>
       \/ /\ ~Exceeds(size, 1)
          /\ under' = size
          /\ IF Last(size)
             THEN Return(Missing("naive_finished")) /\ UNCHANGED size
             ELSE size' = Lesser(Doubled(size), problem.largest) /\ UNCHANGED <<pc, found, inputs>>
          /\ UNCHANGED over
    /\ UNCHANGED <<problem, edge, count, shrinks>>

----------------------------------------------------------------------------
(* _edged and _storable: the largest size under the ceiling, run once. *)

Storable ==
    /\ pc = "edging" /\ edge.over - edge.fits > 1
    /\ LET middle == (edge.fits + edge.over) \div 2
       IN edge' = IF Heavy(middle) THEN [edge EXCEPT !.over = middle]
                                   ELSE [edge EXCEPT !.fits = middle]
    /\ UNCHANGED <<problem, pc, size, under, fitted, over, count, shrinks, found, inputs>>

\* _repeated divides the cap by one call, which is what the naive solution took there.
PerCall(s) == Clock(s, 1)

FirstCount(s) == (Cap + PerCall(s) - 1) \div PerCall(s)

Repeat(s) ==
    IF PerCall(s) = 0
    THEN Return(Missing("count_too_large")) /\ UNCHANGED <<size, count>>
    ELSE pc' = "counting" /\ size' = s /\ count' = FirstCount(s) /\ UNCHANGED <<found, inputs>>

Edge ==
    /\ pc = "edging" /\ edge.over - edge.fits <= 1
    /\ \/ /\ edge.fits > fitted /\ Exceeds(edge.fits, 1)
          /\ pc' = "halving" /\ over' = edge.fits
          /\ UNCHANGED <<size, fitted, count, found, inputs>>
       \/ /\ edge.fits > fitted => ~Exceeds(edge.fits, 1)
          /\ fitted' = edge.fits
          /\ Repeat(edge.fits)
          /\ UNCHANGED over
    /\ UNCHANGED <<problem, under, edge, shrinks>>

----------------------------------------------------------------------------
(* The halving: the smallest size that exceeds, between one that does and one that does not. *)

Halve ==
    /\ pc = "halving"
    /\ \/ /\ ~Adjacent
          /\ LET middle == (under + over) \div 2
             IN IF Exceeds(middle, 1) THEN over' = middle /\ UNCHANGED under
                                      ELSE under' = middle /\ UNCHANGED over
          /\ UNCHANGED <<pc, size>>
       \/ /\ Adjacent
          /\ pc' = "settling" /\ size' = over
          /\ UNCHANGED <<under, over>>
    /\ UNCHANGED <<problem, fitted, edge, count, shrinks, found, inputs>>

----------------------------------------------------------------------------
(* _counted: the calls that take the naive solution over the cap at one size. *)

Count ==
    /\ pc = "counting"
    /\ \/ /\ count > RepeatsMax
          /\ Return(Missing("count_too_large")) /\ UNCHANGED count
       \/ /\ count <= RepeatsMax /\ Exceeds(size, count)
          /\ pc' = "settling" /\ UNCHANGED <<count, found, inputs>>
       \/ /\ count <= RepeatsMax /\ ~Exceeds(size, count)
          /\ count' = Doubled(count) /\ UNCHANGED <<pc, found, inputs>>
    /\ UNCHANGED <<problem, size, under, fitted, over, edge, shrinks>>

\* _repeated halves an input whose case weighs too much, times nothing again, and builds
\* the smaller input whether or not it may count once more.
Shrink(answer) ==
    \/ /\ size < 2 \/ shrinks = 1
       /\ Return(answer) /\ UNCHANGED <<size, count, shrinks>>
    \/ /\ size >= 2 /\ shrinks > 1
       /\ pc' = "counting" /\ found' = answer /\ shrinks' = shrinks - 1
       /\ size' = size \div 2 /\ count' = FirstCount(fitted)
       /\ UNCHANGED inputs

----------------------------------------------------------------------------
(* _settled: the canonical under the cap with its margin, then the reference, then the weight. *)

CanonicalFails ==
    /\ pc = "settling"
    /\ Return(Missing("canonical_failed"))
    /\ UNCHANGED <<problem, size, under, fitted, over, edge, count, shrinks>>

Settle(ms, agrees) ==
    /\ pc = "settling"
    /\ \/ /\ ms * Margin > Cap
          /\ Return(Measured("canonical_too_slow", ms)) /\ UNCHANGED <<size, count, shrinks>>
       \/ /\ ms * Margin <= Cap /\ ~agrees
          /\ Return(Measured("disagreed", ms)) /\ UNCHANGED <<size, count, shrinks>>
       \/ /\ ms * Margin <= Cap /\ agrees /\ size > problem.stores
          /\ IF over = 0 THEN Shrink(Measured("case_too_large", ms))
             ELSE Return(Measured("case_too_large", ms)) /\ UNCHANGED <<size, count, shrinks>>
       \/ /\ ms * Margin <= Cap /\ agrees /\ size <= problem.stores
          /\ Return(Measured("none", ms)) /\ UNCHANGED <<size, count, shrinks>>
    /\ UNCHANGED <<problem, under, fitted, over, edge>>

----------------------------------------------------------------------------

\* The step at hand runs the naive solution, which may crash.
RunsNaive ==
    \/ pc = "doubling" /\ ~Heavy(size)
    \/ pc = "edging" /\ edge.over - edge.fits <= 1 /\ edge.fits > fitted
    \/ pc = "halving" /\ ~Adjacent
    \/ pc = "counting" /\ count <= RepeatsMax

NaiveCrashes ==
    /\ RunsNaive
    /\ Return(Missing("naive_crashed"))
    /\ UNCHANGED <<problem, size, under, fitted, over, edge, count, shrinks>>

\* A build that returned no arguments, or a runner at fault, raises: timed() catches it, and
\* the draft keeps the words of the failure alone.
Raise ==
    /\ RunsNaive \/ pc \in {"doubling", "edging", "settling"}
    /\ pc' = "done" /\ inputs' = [Unsearched EXCEPT !.unseparated = "raised"]
    /\ UNCHANGED <<problem, size, under, fitted, over, edge, count, shrinks, found>>

\* The search where nothing fails under it, which is what it ends by.
Search ==
    \/ ReachCeiling \/ Double \/ Storable \/ Edge \/ Halve \/ Count
    \/ \E ms \in 0..Cap, agrees \in BOOLEAN : Settle(ms, agrees)

Next == Search \/ CanonicalFails \/ NaiveCrashes \/ Raise

Spec == Init /\ [][Next]_vars /\ WF_vars(Search)

----------------------------------------------------------------------------
(* Properties *)

Sizes == 0..problem.largest

\* Every size the search holds is one the statement allows, and its bounds are in order.
TypeOK ==
    /\ problem \in Problems
    /\ pc \in {"doubling", "edging", "halving", "counting", "settling", "done"}
    /\ size \in Sizes \ {0} /\ under \in Sizes \ {0} /\ fitted \in Sizes /\ over \in Sizes
    /\ edge \in [fits : Sizes, over : Sizes] /\ edge.fits <= edge.over
    /\ count \in Nat \ {0} /\ shrinks \in 1..Shrinks
    /\ found \in [missing : Reasons \cup {"none"}, size : Sizes, repeats : Nat \ {0},
                  canonical : 0..Cap]
    /\ inputs \in [separating : Sizes, repeats : Nat \ {0}, gate : BOOLEAN, case : BOOLEAN,
                   unseparated : Reasons \cup {"none", "raised"}]

Monotone == \A s, t \in 1..problem.largest : s <= t => problem.cost[s] <= problem.cost[t]

\* A stored case separates the two solutions at the very size and count it carries: the
\* naive solution is over the cap there, the canonical a margin under it, and the case is
\* storable.  One call was enough at the smallest size where it ever is, and where several
\* are needed, half as many were not.
CaseSeparates ==
    pc = "done" /\ inputs.case =>
        /\ Exceeds(found.size, found.repeats)
        /\ found.canonical * Margin <= Cap
        /\ found.size <= problem.stores
        /\ over = 0 => \/ found.repeats = FirstCount(fitted)
                       \/ ~Exceeds(found.size, found.repeats \div 2)
        /\ over # 0 /\ Monotone => \A s \in 1..(found.size - 1) : ~Exceeds(s, 1)

\* A reason says what is so.  The naive solution finished at every size the statement
\* allows; or at every storable one, and there are others; or the separation was proved at
\* the size left on the site, and its case is what the ceiling refuses.
MissingIsTrue ==
    pc = "done" /\ Monotone =>
        /\ inputs.unseparated = "naive_finished" =>
               \A s \in 1..problem.largest : ~Heavy(s) /\ ~Exceeds(s, 1)
        /\ inputs.unseparated = "count_too_large" =>
               /\ problem.fits < problem.largest
               /\ \A s \in 1..problem.fits : ~Exceeds(s, 1)
        /\ inputs.unseparated \in {"case_too_large", "disagreed", "canonical_too_slow"} =>
               Exceeds(inputs.separating, inputs.repeats)
        /\ inputs.unseparated = "case_too_large" => inputs.separating > problem.stores
        /\ inputs.gate => inputs.unseparated = "disagreed"

\* The walk, the halving and the counts each come to an end, at any timing.
SearchEnds == <>(pc = "done")

=============================================================================
