----------------------------- MODULE Hardening -----------------------------
(***************************************************************************)
(* The mutation loop over one settled problem: the declared cases, the fuzz *)
(* pass with its shrinking, and the rounds (generation/hardening.py,        *)
(* fuzzing.py, shrinking.py, mutation/killing.py).                          *)
(*                                                                          *)
(* A case is the mutants it kills of those it is run against, and an input  *)
(* being shrunk is the length of each of its arguments, 0 where that is no  *)
(* list.  What code returns is a choice of the step that runs it; a mutant  *)
(* answers one input one way.                                               *)
(***************************************************************************)
EXTENDS Integers, Sequences, FiniteSets, Functions

CONSTANTS
    Mutants,    \* the mutants of the canonical
    Built,      \* bound: the inputs the generator's code builds
    Shapes,     \* bound: the lengths of their arguments
    Proposals,  \* bound: the cases one round proposes
    Tries,      \* TRIES: the smaller inputs one shrink may try
    Rounds      \* ROUNDS

ASSUME HardeningAssumption ==
    /\ IsFiniteSet(Mutants)
    /\ Built \in Nat /\ Proposals \in Nat /\ Tries \in Nat /\ Rounds \in Nat
    /\ Shapes \subseteq Seq(Nat)

VARIABLES
    pc,        \* what the loop is at
    standing,  \* the mutants nothing has killed
    declared,  \* those the draft's own cases killed
    left,      \* the built inputs the pass has not judged
    input,     \* the input being shrunk, and what it has to go on killing
    kept,      \* the inputs the pass kept, each what it kills and was kept for
    won,       \* the rounds' proposals that landed, likewise
    fuzzed,    \* how many mutants the pass killed
    rounds,    \* how many each round killed
    played,    \* the rounds paid for
    proposed,  \* the proposals that were put to the set
    draft      \* the state the draft is left in

vars == <<pc, standing, declared, left, input, kept, won, fuzzed, rounds, played, proposed, draft>>

----------------------------------------------------------------------------

NoInput == [args |-> <<>>, kills |-> {}, target |-> {}, arg |-> 0, tries |-> 0,
            chunks |-> 0, at |-> 0]

\* What a draft of no disagreement and no failure is advanced to.
Finish == pc' = "done" /\ draft' = "hardened"

Rejected == pc' = "done" /\ draft' = "rejected"

Total(numbers) ==
    LET sum[k \in 0..Len(numbers)] == IF k = 0 THEN 0 ELSE sum[k - 1] + numbers[k]
    IN sum[Len(numbers)]

Init ==
    /\ pc = "declared" /\ standing = Mutants /\ declared = {}
    /\ left = 0 /\ input = NoInput /\ kept = <<>> /\ won = <<>>
    /\ fuzzed = 0 /\ rounds = <<>> /\ played = 0 /\ proposed = 0 /\ draft = "searched"

\* A round is asked while a mutant stands and the bound is not reached.
Another(mutants, paid) == mutants # {} /\ paid < Rounds

Rest(mutants, paid) == IF Another(mutants, paid) THEN pc' = "rounds" /\ UNCHANGED draft ELSE Finish

\* The draft's own cases first.  The pass runs where a mutant stands and a generator was written.
Declared ==
    /\ pc = "declared"
    /\ \E killed \in SUBSET Mutants, inputs \in 0..Built, generator \in BOOLEAN :
        /\ declared' = killed /\ standing' = Mutants \ killed
        /\ IF standing' # {} /\ generator
           THEN pc' = "fuzzing" /\ left' = inputs /\ UNCHANGED draft
           ELSE Rest(standing', 0) /\ inputs = 0 /\ UNCHANGED left
    /\ UNCHANGED <<input, kept, won, fuzzed, rounds, played, proposed>>

----------------------------------------------------------------------------
(* fuzz: each built input against the mutants still standing. *)

\* One the canonical cannot answer, and one that kills nothing, is not kept.
PassOver ==
    /\ pc = "fuzzing" /\ left > 0 /\ standing # {}
    /\ left' = left - 1
    /\ UNCHANGED <<pc, standing, declared, input, kept, won, fuzzed, rounds, played, proposed, draft>>

Kill ==
    /\ pc = "fuzzing" /\ left > 0 /\ standing # {}
    /\ \E args \in Shapes, killed \in (SUBSET standing) \ {{}} :
        input' = [args |-> args, kills |-> killed, target |-> killed, arg |-> 1,
                  tries |-> Tries, chunks |-> 2, at |-> 1]
    /\ pc' = "shrinking" /\ left' = left - 1
    /\ UNCHANGED <<standing, declared, kept, won, fuzzed, rounds, played, proposed, draft>>

\* The pass ends where nothing stands; the reference then settles what it kept, and one
\* answered two ways rejects the draft.
EndPass ==
    /\ pc = "fuzzing" /\ (left = 0 \/ standing = {})
    /\ fuzzed' = Cardinality(Mutants) - Cardinality(declared) - Cardinality(standing)
    /\ \/ Rest(standing, 0)
       \/ kept # <<>> /\ Rejected
    /\ UNCHANGED <<standing, declared, left, input, kept, won, rounds, played, proposed>>

----------------------------------------------------------------------------
(* shrink: delta debugging over each list argument, on one budget. *)

Greater(m, n) == IF m > n THEN m ELSE n

\* MUTANT: the granularity is not brought down to the length left.
Coarser(m, n) == m

Lesser(m, n) == IF m < n THEN m ELSE n

\* MUTANT: the chunks are a size up, so that two of them may not divide a short list.
SplitUp(length, chunks) ==
    LET step == length \div chunks + 1
    IN [i \in 1..((length + step - 1) \div step) |-> Lesser(step, length - (i - 1) * step)]

\* _split: the lengths of the chunks of `length` elements at one granularity.
Split(length, chunks) ==
    LET step == Greater(length \div chunks, 1)
    IN [i \in 1..((length + step - 1) \div step) |-> Lesser(step, length - (i - 1) * step)]

\* _subsets: each chunk, then each complement where those are not the chunks again.
Subsets(length, chunks) ==
    LET parts == Split(length, chunks)
    IN IF Len(parts) < 3 THEN parts ELSE parts \o [i \in DOMAIN parts |-> length - parts[i]]

Length == IF input.arg \in DOMAIN input.args THEN input.args[input.arg] ELSE 0

Trials == Subsets(Length, input.chunks)

Shrinkable == pc = "shrinking" /\ input.tries > 0 /\ Length > 1

\* _kills: every mutant the input killed still fails the smaller one.
StillKills(killed) == input.target \subseteq killed

\* A smaller input is tried; accepted, the search starts over on it.  It is run against the
\* mutants the input killed alone, and may kill others.
Try ==
    /\ Shrinkable /\ input.at <= Len(Trials)
    /\ \E killed \in SUBSET standing :
        input' = IF StillKills(killed)
                 THEN [input EXCEPT !.tries = @ - 1, !.kills = killed, !.chunks = 2, !.at = 1,
                                    !.args[input.arg] = Trials[input.at]]
                 ELSE [input EXCEPT !.tries = @ - 1, !.at = @ + 1]
    /\ UNCHANGED <<pc, standing, declared, left, kept, won, fuzzed, rounds, played, proposed, draft>>

Refine ==
    /\ Shrinkable /\ input.at > Len(Trials)
    /\ input' = IF input.chunks >= Length
                THEN [input EXCEPT !.arg = @ + 1, !.chunks = 2, !.at = 1]
                ELSE [input EXCEPT !.chunks = Lesser(2 * @, Length), !.at = 1]
    /\ UNCHANGED <<pc, standing, declared, left, kept, won, fuzzed, rounds, played, proposed, draft>>

\* An argument that is no list, or has one element, is left alone.
Skip ==
    /\ pc = "shrinking" /\ input.tries > 0 /\ Length <= 1 /\ input.arg <= Len(input.args)
    /\ input' = [input EXCEPT !.arg = @ + 1, !.chunks = 2, !.at = 1]
    /\ UNCHANGED <<pc, standing, declared, left, kept, won, fuzzed, rounds, played, proposed, draft>>

\* MUTANT: the mutants are taken for killed before the ceiling refuses the input.
StandingAnyway(fits) == standing \ input.target

StandingAfter(fits) == IF fits THEN standing \ input.target ELSE standing

\* The ceiling is checked after the shrink: an input still over it is not kept, and its
\* mutants stand.
Keep ==
    /\ pc = "shrinking" /\ (input.tries = 0 \/ input.arg > Len(input.args))
    /\ pc' = "fuzzing" /\ input' = NoInput
    /\ \E fits \in BOOLEAN :
        /\ standing' = StandingAfter(fits)
        /\ kept' = IF fits THEN Append(kept, [kills |-> input.kills, for |-> input.target])
                           ELSE kept
    /\ UNCHANGED <<declared, left, won, fuzzed, rounds, played, proposed, draft>>

----------------------------------------------------------------------------
(* The rounds: one call each, for the cases that kill what stands. *)

\* The first of the cases that a mutant fails, which is the one it names.
Names(cases, mutant) ==
    CHOOSE i \in DOMAIN cases : mutant \in cases[i] /\ \A j \in 1..(i - 1) : mutant \notin cases[j]

\* _killers: a proposal no mutant names decides nothing the set does not.
Killers(cases) == {Names(cases, m) : m \in UNION Range(cases)}

For(cases, i) == {m \in cases[i] : Names(cases, m) = i}

\* What landed is listed as it was proposed.
Listed(chosen) ==
    {list \in [1..Cardinality(chosen) -> chosen] :
        \A j, k \in DOMAIN list : j < k => list[j] < list[k]}

\* MUTANT: a round that killed nothing is not counted.
CountedKills(killed) == IF killed = {} THEN rounds ELSE Append(rounds, Cardinality(killed))

\* The zero of a round that killed nothing keeps a counter's place reading as the round.
Counted(killed) == Append(rounds, Cardinality(killed))

\* The proposals the canonical answered, as what each kills.  Where the two solutions answer
\* one differently the round rejects the draft, and counts nothing.
Round(cases) ==
    /\ pc = "rounds"
    /\ played' = played + 1
    /\ \/ Rejected /\ UNCHANGED <<standing, won, rounds, proposed>>
       \/ LET killed == UNION Range(cases)
          IN /\ standing' = standing \ killed
             /\ rounds' = Counted(killed)
             /\ proposed' = proposed + Len(cases)
             /\ \E landed \in Listed(Killers(cases)) :
                   won' = won \o [k \in DOMAIN landed |->
                                     [kills |-> cases[landed[k]], for |-> For(cases, landed[k])]]
             /\ IF killed = {} THEN Finish ELSE Rest(standing', played')
    /\ UNCHANGED <<declared, left, input, kept, fuzzed>>

\* A round's call that fails, or a runner at fault, costs the whole loop: the draft is held
\* where it was, and keeps none of the cases.
Fail ==
    /\ pc # "done"
    /\ pc' = "done"
    /\ UNCHANGED <<standing, declared, left, input, kept, won, fuzzed, rounds, played, proposed, draft>>

Next ==
    \/ Declared \/ PassOver \/ Kill \/ EndPass
    \/ Try \/ Refine \/ Skip \/ Keep
    \/ \E n \in 0..Proposals : \E cases \in [1..n -> SUBSET standing] : Round(cases)
    \/ Fail

Spec == Init /\ [][Next]_vars

----------------------------------------------------------------------------
(* Properties *)

Case == [kills : SUBSET Mutants, for : SUBSET Mutants]

\* The loop's counters are within their bounds, and a shrink only ever makes an input smaller.
TypeOK ==
    /\ pc \in {"declared", "fuzzing", "shrinking", "rounds", "done"}
    /\ standing \subseteq Mutants /\ declared \subseteq Mutants
    /\ left \in 0..Built /\ played \in 0..Rounds /\ Len(rounds) <= played
    /\ kept \in Seq(Case) /\ won \in Seq(Case)
    /\ proposed \in 0..(Rounds * Proposals) /\ fuzzed \in 0..Cardinality(Mutants)
    /\ draft \in {"searched", "rejected", "hardened"}
    /\ input.tries \in 0..Tries /\ input.target \subseteq input.kills
    /\ pc = "shrinking" => /\ \E shape \in Shapes :
                                 /\ DOMAIN shape = DOMAIN input.args
                                 /\ \A i \in DOMAIN shape : input.args[i] <= shape[i]
                           /\ Length > 1 => input.chunks \in 2..Length

\* A hardened draft's counters account for every mutant once: killed by the declared cases,
\* by the pass or by a round, or standing.  Each round has its count, and each case that
\* landed was proposed.
CountsAddUp ==
    draft = "hardened" =>
        /\ Cardinality(declared) + fuzzed + Total(rounds) + Cardinality(standing)
              = Cardinality(Mutants)
        /\ Len(rounds) = played
        /\ Len(won) <= proposed

\* What a case had killed when it was taken: an input of the pass as it was built, a proposal
\* as it is stored.
Taken(i) == IF i <= Len(kept) THEN kept[i].for ELSE won[i - Len(kept)].kills

\* The set a hardened draft lands with kills every mutant it was counted as killing, through
\* every shrink and every round, and each case of it kills one that nothing before it had
\* killed when it was taken.  Cases in the order they were taken: kept, then won.
\* What a shrunk input has come to kill besides what it was kept for is not taken off what the
\* inputs after it are judged by, so a later case may kill nothing the stored set does not.
SetKillsWhatItCounts ==
    draft = "hardened" =>
        LET cases == kept \o won
        IN /\ Mutants \ standing \subseteq declared \cup UNION {cases[i].kills : i \in DOMAIN cases}
           /\ \A i \in DOMAIN cases :
                 ~ (cases[i].kills \subseteq declared \cup UNION {Taken(j) : j \in 1..(i - 1)})

\* A shrink makes progress until it ends: each step goes on to the next argument, refines the
\* granularity, or spends a try.  A try accepts an input that is shorter by at least one element
\* and still holds one, or goes on to the next at its granularity.  TRIES alone would end a
\* shrink that accepted one input again and again, and the case would be stored as it was built.
ShrinksProgress ==
    [][pc = "shrinking" /\ pc' = "shrinking" =>
         \/ input'.arg > input.arg
         \/ input'.arg = input.arg /\ input'.chunks > input.chunks
         \/ /\ input'.arg = input.arg /\ input'.tries < input.tries
            /\ \/ Length' \in 1..(Length - 1)
               \/ /\ input'.args = input.args /\ input'.chunks = input.chunks
                  /\ input'.at > input.at]_vars
=============================================================================
