-------------------------- MODULE HardeningProofs --------------------------
(***************************************************************************)
(* Theorems about Hardening, for every set of mutants, every shape of the  *)
(* built inputs and every bound on tries, rounds and proposals; and about  *)
(* Runner, which runs the code it judges, for every cap, slack, number of  *)
(* cases and plan of a solution.                                           *)
(***************************************************************************)
EXTENDS Hardening, Runner, FiniteSetTheorems, WellFoundedInduction, NaturalsInduction, TLAPS

-----------------------------------------------------------------------------
(* The inductive invariant.                                                *)

Input == [args : Seq(Int), kills : SUBSET Mutants, target : SUBSET Mutants, arg : Nat,
          tries : Nat, chunks : Nat, at : Nat]

\* What a shrink has at hand, beyond its types.
Smaller ==
  pc = "shrinking" =>
    /\ \E shape \in Shapes : /\ DOMAIN shape = DOMAIN input.args
                             /\ \A i \in DOMAIN shape : input.args[i] <= shape[i]
    /\ Length > 1 => input.chunks \in 2..Length
    /\ input.at # 0

\* Where the loop is says what it has not come to yet.
Placed ==
  /\ pc # "done" => draft = "searched"
  /\ pc = "declared" => standing = Mutants /\ declared = {} /\ kept = <<>>
  /\ pc \in {"declared", "fuzzing", "shrinking"} =>
       won = <<>> /\ rounds = <<>> /\ played = 0 /\ proposed = 0 /\ fuzzed = 0
  /\ pc = "shrinking" => input.target # {} /\ input.kills \subseteq standing
  /\ pc = "rounds" => played < Rounds
  /\ proposed <= played * Proposals

\* The mutants no longer standing are shared out between the declared cases and
\* those that landed, each to the first that killed it.
SharedOut(first, cases, rest) ==
  /\ first \cup UNION {cases[i].for : i \in DOMAIN cases} = Mutants \ rest
  /\ \A i \in DOMAIN cases : /\ cases[i].for # {}
                             /\ cases[i].for \subseteq cases[i].kills
                             /\ cases[i].for \cap first = {}
  /\ \A i, j \in DOMAIN cases : i # j => cases[i].for \cap cases[j].for = {}

Shared == SharedOut(declared, kept \o won, standing)

\* The counters of a loop past its fuzz pass.
AddedUp ==
  pc = "rounds" \/ draft = "hardened" =>
    /\ Cardinality(declared) + fuzzed + Total(rounds) + Cardinality(standing)
          = Cardinality(Mutants)
    /\ Len(rounds) = played
    /\ Len(won) <= proposed

IInv ==
  /\ TypeOK /\ input \in Input /\ rounds \in Seq(Nat)
  /\ Smaller /\ Placed /\ Shared /\ AddedUp
-----------------------------------------------------------------------------
(* The least of some numbers, and the parts of a split.                    *)

LEMMA FirstFailure ==
  ASSUME NEW S \in SUBSET Nat, S # {}
  PROVE  \E x \in S : \A y \in S : x <= y
  <1>1. PICK x \in S : \A y \in S : ~ (<<y, x>> \in OpToRel(<, Nat))
    BY NatLessThanWellFounded, WFMin
  <1>2. ASSUME NEW y \in S
        PROVE  x <= y
    <2>1. x \in Nat /\ y \in Nat
      OBVIOUS
    <2>2. ~ (y < x)
      BY <1>1, <2>1 DEF OpToRel
    <2> QED
      BY <2>1, <2>2
  <1> QED
    BY <1>2

\* A mutant some case kills names one that does.
LEMMA NamesAKiller ==
  ASSUME NEW n \in Nat, NEW cases \in [1..n -> SUBSET Mutants], NEW m \in UNION Range(cases)
  PROVE  /\ Names(cases, m) \in 1..n /\ m \in cases[Names(cases, m)]
         /\ \A j \in 1..(Names(cases, m) - 1) : m \notin cases[j]
  <1> DEFINE fails == {i \in 1..n : m \in cases[i]}
  <1>1. fails \in SUBSET Nat /\ fails # {}
    BY DEF Range
  <1>2. PICK i \in fails : \A j \in fails : i <= j
    BY <1>1, FirstFailure
  <1>3. i \in DOMAIN cases /\ m \in cases[i] /\ \A j \in 1..(i - 1) : m \notin cases[j]
    BY <1>2
  <1> QED
    BY <1>3 DEF Names

\* A chunk is no longer than what it is a chunk of, and no shorter than nothing.
LEMMA SplitParts ==
  ASSUME NEW length \in Nat \ {0}, NEW chunks \in Nat \ {0}
  PROVE  /\ Split(length, chunks) \in Seq(Int)
         /\ \A i \in DOMAIN Split(length, chunks) :
              0 <= Split(length, chunks)[i] /\ Split(length, chunks)[i] <= length
  <1> DEFINE step == Greater(length \div chunks, 1)
             parts == (length + step - 1) \div step
  <1>1. length \div chunks \in Nat /\ length \div chunks <= length
    OBVIOUS
  <1>2. step \in Nat \ {0} /\ step <= length
    BY <1>1 DEF Greater
  <1>3. Split(length, chunks) = [i \in 1..parts |-> Lesser(step, length - (i - 1) * step)]
    BY DEF Split
  <1> HIDE DEF step
  <1>4. parts \in Nat /\ parts * step <= length + step - 1
    BY <1>2
  <1> HIDE DEF parts
  <1>5. ASSUME NEW i \in 1..parts
        PROVE  /\ Lesser(step, length - (i - 1) * step) \in Int
               /\ 0 <= Lesser(step, length - (i - 1) * step)
               /\ Lesser(step, length - (i - 1) * step) <= length
    <2>1. i * step <= parts * step
      BY <1>2, <1>4
    <2>2. (i - 1) * step = i * step - step
      BY <1>2, <1>4
    <2>3. i * step \in Int /\ parts * step \in Int
      BY <1>2, <1>4
    <2>4. 0 <= length - (i - 1) * step /\ length - (i - 1) * step \in Int
      BY <1>2, <1>4, <2>1, <2>2, <2>3
    <2> QED
      BY <1>2, <2>4 DEF Lesser
  <1> QED
    BY <1>3, <1>4, <1>5

\* What is tried in the place of an argument is no longer than it.
LEMMA SubsetsAreSmaller ==
  ASSUME NEW length \in Nat \ {0}, NEW chunks \in Nat \ {0}
  PROVE  /\ Subsets(length, chunks) \in Seq(Int)
         /\ \A i \in DOMAIN Subsets(length, chunks) : Subsets(length, chunks)[i] <= length
  <1> DEFINE parts == Split(length, chunks)
             others == [k \in DOMAIN parts |-> length - parts[k]]
  <1>1. /\ parts \in Seq(Int)
        /\ \A k \in DOMAIN parts : 0 <= parts[k] /\ parts[k] <= length
    BY SplitParts
  <1>2. Subsets(length, chunks) = IF Len(parts) < 3 THEN parts ELSE parts \o others
    BY DEF Subsets
  <1> HIDE DEF parts
  <1>3. /\ others \in Seq(Int) /\ Len(others) = Len(parts)
        /\ \A k \in DOMAIN others : others[k] <= length
    <2>1. Len(parts) \in Nat /\ DOMAIN parts = 1..Len(parts)
      BY <1>1
    <2>2. \A k \in 1..Len(parts) : length - parts[k] \in Int /\ length - parts[k] <= length
      BY SMTT(30), <1>1, <2>1
    <2> QED
      BY <2>1, <2>2
  <1> HIDE DEF others
  <1>4. CASE Len(parts) < 3
    BY <1>1, <1>2, <1>4
  <1>5. CASE ~ (Len(parts) < 3)
    <2>1. Subsets(length, chunks) = parts \o others
      BY <1>2, <1>5
    <2>2. parts \o others \in Seq(Int) /\ Len(parts \o others) = Len(parts) + Len(others)
      <3>1. parts \in Seq(Int) /\ others \in Seq(Int)
        BY <1>1, <1>3
      <3> QED
        BY ONLY <3>1
    <2>3. ASSUME NEW i \in 1..(Len(parts) + Len(others))
          PROVE  (parts \o others)[i] <= length
      <3>1. CASE i <= Len(parts)
        BY <1>1, <1>3, <3>1
      <3>2. CASE ~ (i <= Len(parts))
        BY <1>1, <1>3, <3>2
      <3> QED
        BY <3>1, <3>2
    <2> QED
      BY <2>1, <2>2, <2>3
  <1> QED
    BY <1>4, <1>5
-----------------------------------------------------------------------------
(* What the rounds' counts come to.                                        *)

\* The partial sums of some numbers, which Total takes the last of.
Sums(numbers, n, sum) ==
    sum = [k \in 0..n |-> IF k = 0 THEN 0 ELSE sum[k - 1] + numbers[k]]

LEMMA SumsExist ==
    ASSUME NEW numbers, NEW n \in Nat, \A k \in 1..n : numbers[k] \in Int
    PROVE  \E sum \in [0..n -> Int] : Sums(numbers, n, sum)
  <1> DEFINE Bad == {m \in 0..n : ~ \E sum \in [0..m -> Int] : Sums(numbers, m, sum)}
  <1>1. SUFFICES ASSUME Bad # {} PROVE FALSE
    OBVIOUS
  <1>2. PICK m \in Bad : \A y \in Bad : m <= y
    <2>1. Bad \in SUBSET Nat
      OBVIOUS
    <2> HIDE DEF Bad
    <2> QED
      BY <1>1, <2>1, FirstFailure
  <1>3. m \in 0..n /\ ~ \E sum \in [0..m -> Int] : Sums(numbers, m, sum)
    OBVIOUS
  <1>4. m # 0
    <2>1. SUFFICES ASSUME m = 0 PROVE FALSE
      OBVIOUS
    <2> DEFINE none == [k \in 0..0 |-> 0]
    <2>2. none \in [0..0 -> Int] /\ Sums(numbers, 0, none)
      BY DEF Sums
    <2> QED
      BY <1>3, <2>1, <2>2
  <1>5. m - 1 \in 0..n /\ m - 1 \notin Bad
    BY <1>2, <1>3, <1>4
  <1>6. PICK sum \in [0..m - 1 -> Int] : Sums(numbers, m - 1, sum)
    BY <1>5
  <1> DEFINE more == [k \in 0..m |-> IF k = m THEN sum[m - 1] + numbers[m] ELSE sum[k]]
  <1>7. numbers[m] \in Int /\ m - 1 \in 0..m - 1
    BY <1>3, <1>4
  <1>8. more \in [0..m -> Int]
    BY <1>3, <1>7
  <1>9. ASSUME NEW k \in 0..m
        PROVE  more[k] = IF k = 0 THEN 0 ELSE more[k - 1] + numbers[k]
    <2>1. CASE k = m
      BY <1>3, <1>4, <2>1
    <2>2. CASE k # m
      <3>1. k \in 0..m - 1 /\ more[k] = sum[k]
        BY <1>3, <2>2
      <3>2. sum[k] = IF k = 0 THEN 0 ELSE sum[k - 1] + numbers[k]
        BY <1>6, <3>1 DEF Sums
      <3>3. k # 0 => k - 1 \in 0..m /\ k - 1 # m
        BY <1>3, <3>1
      <3> QED
        BY <3>1, <3>2, <3>3
    <2> QED
      BY <2>1, <2>2
  <1>10. Sums(numbers, m, more)
    BY <1>9 DEF Sums
  <1> QED
    BY <1>3, <1>8, <1>10

\* Two lists of partial sums of the same numbers agree.
Adds(numbers, n, sum) ==
    \A k \in 0..n : sum[k] = IF k = 0 THEN 0 ELSE sum[k - 1] + numbers[k]

LEMMA SumsAgree ==
    ASSUME NEW numbers, NEW n \in Nat, NEW s, Adds(numbers, n, s), NEW t, Adds(numbers, n, t)
    PROVE  \A k \in 0..n : s[k] = t[k]
  <1> DEFINE Bad == {k \in 0..n : s[k] # t[k]}
  <1>1. SUFFICES ASSUME Bad # {} PROVE FALSE
    OBVIOUS
  <1>2. PICK k \in Bad : \A y \in Bad : k <= y
    <2>1. Bad \in SUBSET Nat
      OBVIOUS
    <2> HIDE DEF Bad
    <2> QED
      BY <1>1, <2>1, FirstFailure
  <1>3. k \in 0..n /\ s[k] # t[k]
    OBVIOUS
  <1>4. /\ s[k] = IF k = 0 THEN 0 ELSE s[k - 1] + numbers[k]
        /\ t[k] = IF k = 0 THEN 0 ELSE t[k - 1] + numbers[k]
    BY <1>3 DEF Adds
  <1>5. k # 0
    BY <1>3, <1>4
  <1>6. k - 1 \in 0..n /\ k - 1 \notin Bad
    BY <1>2, <1>3, <1>5
  <1>7. s[k - 1] = t[k - 1]
    BY <1>6
  <1> QED
    BY <1>3, <1>4, <1>5, <1>7

\* Some partial sums are the ones Total takes the last of.
LEMMA TotalIsASum ==
    ASSUME NEW numbers \in Seq(Int)
    PROVE  \E sum : /\ sum \in [0..Len(numbers) -> Int]
                    /\ Adds(numbers, Len(numbers), sum)
                    /\ Total(numbers) = sum[Len(numbers)]
  <1> DEFINE n == Len(numbers)
  <1> DEFINE all == CHOOSE sum : Sums(numbers, n, sum)
  <1>1. n \in Nat /\ \A k \in 1..n : numbers[k] \in Int
    OBVIOUS
  <1>2. Total(numbers) = all[n]
    BY DEF Total, Sums
  <1> HIDE DEF n
  <1>3. PICK sum \in [0..n -> Int] : Sums(numbers, n, sum)
    BY <1>1, SumsExist
  <1>4. Sums(numbers, n, all)
    BY <1>3
  <1> HIDE DEF all
  <1>5. Adds(numbers, n, sum)
    BY <1>3 DEF Sums, Adds
  <1>6. Adds(numbers, n, all)
    BY <1>4 DEF Sums, Adds
  <1>7. \A k \in 0..n : all[k] = sum[k]
    BY <1>1, <1>5, <1>6, SumsAgree
  <1>8. n \in 0..n
    BY <1>1
  <1> QED
    BY <1>2, <1>3, <1>5, <1>7, <1>8 DEF n

\* One more span adds what it numbers.
LEMMA TotalOfOneMore ==
    ASSUME NEW g \in Seq(Int), NEW h \in Seq(Int), Len(h) = Len(g) + 1,
           \A k \in 1..Len(g) : g[k] = h[k]
    PROVE  Total(h) = Total(g) + h[Len(h)]
  <1> DEFINE n == Len(g)
  <1>1. n \in Nat /\ Len(h) = n + 1 /\ n + 1 \in Nat /\ \A k \in 1..n : g[k] = h[k]
    OBVIOUS
  <1>2. PICK s : s \in [0..n -> Int] /\ Adds(g, n, s) /\ Total(g) = s[n]
    BY TotalIsASum
  <1>3. PICK t : t \in [0..n + 1 -> Int] /\ Adds(h, n + 1, t) /\ Total(h) = t[n + 1]
    BY <1>1, TotalIsASum
  <1> HIDE DEF n
  <1>4. Adds(h, n, s) /\ Adds(h, n, t)
    <2>1. ASSUME NEW k \in 0..n
          PROVE  /\ s[k] = IF k = 0 THEN 0 ELSE s[k - 1] + h[k]
                 /\ t[k] = IF k = 0 THEN 0 ELSE t[k - 1] + h[k]
      <3>1. k \in 0..n + 1 /\ (k # 0 => k \in 1..n)
        BY <1>1
      <3>2. t[k] = IF k = 0 THEN 0 ELSE t[k - 1] + h[k]
        BY <1>3, <3>1 DEF Adds
      <3>3. s[k] = IF k = 0 THEN 0 ELSE s[k - 1] + g[k]
        BY <1>2 DEF Adds
      <3>4. k # 0 => g[k] = h[k]
        BY <1>1, <3>1
      <3> QED
        BY <3>2, <3>3, <3>4
    <2> QED
      BY <2>1 DEF Adds
  <1>5. \A k \in 0..n : s[k] = t[k]
    <2>1. n \in Nat
      BY <1>1
    <2>2. Adds(h, n, s) /\ Adds(h, n, t) => \A k \in 0..n : s[k] = t[k]
      BY ONLY <2>1, SumsAgree
    <2> QED
      BY <1>4, <2>2
  <1>6. s[n] = t[n]
    BY <1>1, <1>5
  <1>7. t[n + 1] = t[n] + h[n + 1]
    <2>1. n + 1 \in 0..n + 1 /\ n + 1 # 0 /\ (n + 1) - 1 = n
      BY <1>1
    <2> QED
      BY <1>3, <2>1 DEF Adds
  <1> QED
    BY <1>1, <1>2, <1>3, <1>6, <1>7

LEMMA TotalOfNone ==
    ASSUME NEW g \in Seq(Int), Len(g) = 0
    PROVE  Total(g) = 0
  <1>1. PICK s : s \in [0..0 -> Int] /\ Adds(g, 0, s) /\ Total(g) = s[0]
    BY TotalIsASum
  <1> QED
    BY <1>1 DEF Adds

LEMMA TotalIsAnInteger ==
    ASSUME NEW g \in Seq(Int)
    PROVE  Total(g) \in Int
  BY TotalIsASum
-----------------------------------------------------------------------------
(* What a round that landed some of its proposals shares out.               *)

\* Cases that kill what is standing, each for mutants no other was taken for,
\* share out what they kill.
LEMMA MoreIsShared ==
  ASSUME NEW first, NEW rest \in SUBSET Mutants, NEW cases \in Seq(Case), NEW more \in Seq(Case),
         SharedOut(first, cases, rest),
         NEW killed \in SUBSET rest,
         UNION {more[i].for : i \in DOMAIN more} = killed,
         \A i \in DOMAIN more : more[i].for # {} /\ more[i].for \subseteq more[i].kills,
         \A i, j \in DOMAIN more : i # j => more[i].for \cap more[j].for = {}
  PROVE  SharedOut(first, cases \o more, rest \ killed)
  <1> DEFINE all == cases \o more
             m == Len(cases)
             n == Len(more)
  <1>1. /\ m \in Nat /\ n \in Nat /\ DOMAIN cases = 1..m /\ DOMAIN more = 1..n
        /\ DOMAIN all = 1..(m + n)
        /\ \A i \in 1..m : all[i] = cases[i]
        /\ \A i \in 1..n : all[m + i] = more[i]
    OBVIOUS
  <1>2. \A i \in 1..(m + n) : i \in 1..m \/ (i - m \in 1..n /\ all[i] = more[i - m])
    BY <1>1
  <1> HIDE DEF all, m, n
  <1>3. /\ first \cup UNION {cases[i].for : i \in 1..m} = Mutants \ rest
        /\ \A i \in 1..m : /\ cases[i].for # {} /\ cases[i].for \subseteq cases[i].kills
                           /\ cases[i].for \cap first = {}
        /\ \A i, j \in 1..m : i # j => cases[i].for \cap cases[j].for = {}
    BY <1>1 DEF SharedOut
  <1>4. /\ UNION {more[i].for : i \in 1..n} = killed
        /\ \A i \in 1..n : more[i].for # {} /\ more[i].for \subseteq more[i].kills
        /\ \A i, j \in 1..n : i # j => more[i].for \cap more[j].for = {}
    BY <1>1
  <1>5. /\ \A i \in 1..m : cases[i].for \cap rest = {}
        /\ first \cap rest = {}
        /\ \A i \in 1..n : more[i].for \subseteq rest
    BY <1>3, <1>4
  <1>6. first \cup UNION {all[i].for : i \in DOMAIN all} = Mutants \ (rest \ killed)
    <2>1. ASSUME NEW mutant
          PROVE  mutant \in UNION {all[i].for : i \in 1..(m + n)} <=>
                 mutant \in killed \cup UNION {cases[i].for : i \in 1..m}
      <3>1. ASSUME NEW i \in 1..(m + n), mutant \in all[i].for
            PROVE  mutant \in killed \cup UNION {cases[k].for : k \in 1..m}
        BY <1>1, <1>2, <1>4, <3>1
      <3>2. ASSUME NEW i \in 1..m, mutant \in cases[i].for
            PROVE  mutant \in UNION {all[k].for : k \in 1..(m + n)}
        <4>1. i \in 1..(m + n) /\ all[i] = cases[i]
          BY <1>1
        <4> QED
          BY <3>2, <4>1
      <3>3. ASSUME NEW i \in 1..n, mutant \in more[i].for
            PROVE  mutant \in UNION {all[k].for : k \in 1..(m + n)}
        <4>1. m + i \in 1..(m + n) /\ all[m + i] = more[i]
          BY <1>1
        <4> QED
          BY <3>3, <4>1
      <3> QED
        BY <1>4, <3>1, <3>2, <3>3
    <2> QED
      BY <1>1, <1>3, <2>1
  <1>7. ASSUME NEW i \in 1..(m + n)
        PROVE  /\ all[i].for # {} /\ all[i].for \subseteq all[i].kills
               /\ all[i].for \cap first = {}
    BY <1>1, <1>2, <1>3, <1>4, <1>5
  <1>8. ASSUME NEW i \in 1..(m + n), NEW j \in 1..(m + n), i # j
        PROVE  all[i].for \cap all[j].for = {}
    <2>1. CASE i \in 1..m /\ j \in 1..m
      BY <1>1, <1>3, <1>8, <2>1
    <2>2. CASE i \in 1..m /\ j \notin 1..m
      BY <1>1, <1>2, <1>5, <2>2
    <2>3. CASE i \notin 1..m /\ j \in 1..m
      BY <1>1, <1>2, <1>5, <2>3
    <2>4. CASE i \notin 1..m /\ j \notin 1..m
      <3>1. /\ i - m \in 1..n /\ all[i] = more[i - m]
            /\ j - m \in 1..n /\ all[j] = more[j - m]
            /\ i - m # j - m
        BY <1>1, <1>2, <1>8, <2>4
      <3> QED
        BY <1>4, <3>1
    <2> QED
      BY <2>1, <2>2, <2>3, <2>4
  <1> QED
    BY <1>1, <1>6, <1>7, <1>8 DEF SharedOut, all

\* A list of some numbers in their order has each of them once.
LEMMA ListedOnce ==
  ASSUME NEW n \in Nat, NEW chosen \in SUBSET (1..n), NEW list \in Listed(chosen)
  PROVE  /\ IsFiniteSet(chosen) /\ Cardinality(chosen) \in Nat /\ Cardinality(chosen) <= n
         /\ list \in [1..Cardinality(chosen) -> chosen]
         /\ \A j, k \in DOMAIN list : j # k => list[j] # list[k]
         /\ \A i \in chosen : \E k \in DOMAIN list : list[k] = i
  <1> DEFINE many == Cardinality(chosen)
  <1>1. IsFiniteSet(1..n) /\ Cardinality(1..n) = n
    BY FS_Interval
  <1>2. IsFiniteSet(chosen) /\ many <= n /\ many \in Nat
    BY <1>1, FS_Subset, FS_CardinalityType
  <1>3. /\ list \in [1..many -> chosen]
        /\ \A j, k \in DOMAIN list : j < k => list[j] < list[k]
    BY DEF Listed
  <1> HIDE DEF many
  <1>4. ASSUME NEW j \in DOMAIN list, NEW k \in DOMAIN list, j # k
        PROVE  list[j] # list[k]
    <2>1. DOMAIN list = 1..many /\ list[j] \in 1..n /\ list[k] \in 1..n
      BY <1>3
    <2>2. j \in Nat /\ k \in Nat /\ list[j] \in Nat /\ list[k] \in Nat
      BY <1>2, <2>1
    <2> QED
      BY <1>3, <1>4, <2>2
  <1>5. list \in Injection(1..many, chosen)
    BY <1>3, <1>4 DEF Injection, IsInjective
  <1>6. Cardinality(1..many) = many
    BY <1>2, FS_Interval
  <1>7. list \in Surjection(1..many, chosen)
    BY <1>2, <1>5, <1>6, FS_Injection DEF many
  <1>8. \A i \in chosen : \E k \in DOMAIN list : list[k] = i
    BY <1>3, <1>7 DEF Surjection
  <1> QED
    BY <1>2, <1>3, <1>4, <1>8 DEF many

\* The cases a round keeps of those it proposed, and what is so of them.
Landed(cases, list) ==
  [k \in DOMAIN list |-> [kills |-> cases[list[k]], for |-> For(cases, list[k])]]

ShareOf(more, n, killed) ==
  /\ more \in Seq(Case) /\ Len(more) <= n
  /\ UNION {more[i].for : i \in DOMAIN more} = killed
  /\ \A i \in DOMAIN more : more[i].for # {} /\ more[i].for \subseteq more[i].kills
  /\ \A i, j \in DOMAIN more : i # j => more[i].for \cap more[j].for = {}

\* What a list of a round's killers says of each: the mutants that name it, which
\* no other proposal is taken for.
LEMMA KillersShare ==
  ASSUME NEW rest \in SUBSET Mutants, NEW n \in Nat, NEW cases \in [1..n -> SUBSET rest],
         NEW list \in Listed(Killers(cases))
  PROVE  ShareOf(Landed(cases, list), n, UNION Range(cases))
  <1> DEFINE more == Landed(cases, list)
  <1>0. more = [k \in DOMAIN list |-> [kills |-> cases[list[k]], for |-> For(cases, list[k])]]
    BY DEF Landed
  <1> HIDE DEF more
  <1> DEFINE killed == UNION Range(cases)
  <1>1. /\ cases \in [1..n -> SUBSET Mutants]
        /\ \A m \in killed : Names(cases, m) \in 1..n /\ m \in cases[Names(cases, m)]
    <2>1. cases \in [1..n -> SUBSET Mutants]
      OBVIOUS
    <2> QED
      BY <2>1, NamesAKiller
  <1>2. Killers(cases) \in SUBSET (1..n)
    BY <1>1 DEF Killers
  <1> DEFINE many == Cardinality(Killers(cases))
  <1>3. /\ many \in Nat /\ many <= n /\ list \in [1..many -> Killers(cases)]
        /\ \A j, k \in DOMAIN list : j # k => list[j] # list[k]
        /\ \A i \in Killers(cases) : \E k \in DOMAIN list : list[k] = i
    BY <1>2, ListedOnce
  <1> HIDE DEF many
  <1>4. ASSUME NEW k \in 1..many
        PROVE  /\ list[k] \in 1..n
               /\ more[k] = [kills |-> cases[list[k]], for |-> For(cases, list[k])]
               /\ more[k].kills = cases[list[k]] /\ more[k].for = For(cases, list[k])
               /\ For(cases, list[k]) \subseteq cases[list[k]]
               /\ cases[list[k]] \subseteq Mutants /\ cases[list[k]] \subseteq killed
    <2>1. k \in DOMAIN list /\ list[k] \in 1..n
      BY <1>2, <1>3
    <2>2. more[k] = [kills |-> cases[list[k]], for |-> For(cases, list[k])]
      BY <1>0, <2>1
    <2> QED
      BY <1>1, <2>1, <2>2 DEF For, Range
  <1>5. more \in Seq(Case) /\ Len(more) = many /\ DOMAIN more = 1..many
    <2>1. ASSUME NEW k \in 1..many
          PROVE  more[k] \in Case
      <3>1. For(cases, list[k]) \in SUBSET Mutants /\ cases[list[k]] \in SUBSET Mutants
        BY <1>4
      <3>2. [kills |-> cases[list[k]], for |-> For(cases, list[k])] \in Case
        BY ONLY <3>1 DEF Case
      <3>3. more[k] = [kills |-> cases[list[k]], for |-> For(cases, list[k])]
        BY <1>4
      <3> QED
        BY <3>2, <3>3
    <2>2. DOMAIN more = 1..many /\ more = [k \in 1..many |-> more[k]]
      BY <1>0, <1>3
    <2> HIDE DEF killed
    <2>3. more \in [1..many -> Case]
      BY <2>1, <2>2
    <2> QED
      BY <1>3, <2>3
  <1>6. ASSUME NEW k \in 1..many
        PROVE  more[k].for # {} /\ more[k].for \subseteq more[k].kills
    <2>1. list[k] \in Killers(cases)
      BY <1>3
    <2>2. PICK m \in killed : list[k] = Names(cases, m)
      BY <2>1 DEF Killers
    <2>3. m \in For(cases, list[k])
      BY <1>1, <2>2 DEF For
    <2> QED
      BY <1>4, <2>3
  <1>7. ASSUME NEW i \in 1..many, NEW j \in 1..many, i # j
        PROVE  more[i].for \cap more[j].for = {}
    <2>1. more[i].for = For(cases, list[i]) /\ more[j].for = For(cases, list[j])
      BY <1>4
    <2>2. list[i] # list[j]
      BY <1>3, <1>7
    <2>3. For(cases, list[i]) \cap For(cases, list[j]) = {}
      BY ONLY <2>2 DEF For
    <2> QED
      BY ONLY <2>1, <2>3
  <1>8. UNION {more[i].for : i \in 1..many} = killed
    <2>1. ASSUME NEW m \in killed
          PROVE  \E k \in 1..many : m \in more[k].for
      <3>1. Names(cases, m) \in Killers(cases)
        BY DEF Killers
      <3>2. PICK k \in 1..many : list[k] = Names(cases, m)
        BY <1>3, <3>1
      <3>3. m \in For(cases, list[k])
        BY <1>1, <3>2 DEF For
      <3>4. more[k].for = For(cases, list[k])
        BY <1>4
      <3> QED
        BY <3>3, <3>4
    <2>2. ASSUME NEW k \in 1..many
          PROVE  more[k].for \subseteq killed
      <3>1. /\ more[k].for = For(cases, list[k])
            /\ For(cases, list[k]) \subseteq cases[list[k]] /\ cases[list[k]] \subseteq killed
        BY <1>4
      <3> QED
        BY <3>1
    <2> QED
      BY <2>1, <2>2
  <1>9. more \in Seq(Case) /\ Len(more) <= n
    BY <1>3, <1>5
  <1>10. UNION {more[i].for : i \in DOMAIN more} = killed
    BY <1>5, <1>8, Zenon
  <1>11. \A i \in DOMAIN more : more[i].for # {} /\ more[i].for \subseteq more[i].kills
    <2>1. \A i \in 1..many : more[i].for # {} /\ more[i].for \subseteq more[i].kills
      BY <1>6
    <2>2. DOMAIN more = 1..many
      BY <1>5
    <2> QED
      BY ONLY <2>1, <2>2
  <1>12. \A i, j \in DOMAIN more : i # j => more[i].for \cap more[j].for = {}
    <2>1. \A i, j \in 1..many : i # j => more[i].for \cap more[j].for = {}
      BY <1>7
    <2>2. DOMAIN more = 1..many
      BY <1>5
    <2> QED
      BY ONLY <2>1, <2>2
  <1> QED
    <2>1. ShareOf(more, n, killed)
      BY ONLY <1>9, <1>10, <1>11, <1>12 DEF ShareOf
    <2> QED
      BY ONLY <2>1 DEF more
-----------------------------------------------------------------------------
(* Each step keeps the invariant.                                          *)

\* What the loop holds, the input being shrunk aside.
Held ==
  /\ pc \in {"declared", "fuzzing", "shrinking", "rounds", "done"}
  /\ standing \subseteq Mutants /\ declared \subseteq Mutants
  /\ left \in 0..Built /\ played \in 0..Rounds /\ Len(rounds) <= played
  /\ kept \in Seq(Case) /\ won \in Seq(Case)
  /\ proposed \in 0..(Rounds * Proposals) /\ fuzzed \in 0..Cardinality(Mutants)
  /\ draft \in {"searched", "rejected", "hardened"}
  /\ rounds \in Seq(Nat)

ShrinkOK ==
  /\ input \in Input /\ input.tries \in 0..Tries /\ input.target \subseteq input.kills
  /\ Smaller

LEMMA Parts ==
  IInv <=> Held /\ ShrinkOK /\ Placed /\ Shared /\ AddedUp
  BY DEF IInv, TypeOK, Held, ShrinkOK, Smaller

LEMMA PartsPrimed ==
  IInv' <=> Held' /\ ShrinkOK' /\ Placed' /\ Shared' /\ AddedUp'
  BY DEF IInv, TypeOK, Held, ShrinkOK, Smaller, Length, Input

LEMMA NoInputShrinks ==
  ASSUME input = NoInput, pc # "shrinking"
  PROVE  ShrinkOK
  BY HardeningAssumption DEF NoInput, ShrinkOK, Input, Smaller

\* A shared-out set of cases changes with its cases and with what stands alone.
LEMMA SharedStays ==
  ASSUME Shared, UNCHANGED <<declared, kept, won, standing>>
  PROVE  Shared'
  BY DEF Shared, SharedOut

LEMMA Initially == Init => IInv
  <1> SUFFICES ASSUME Init PROVE IInv
    OBVIOUS
  <1>1. Cardinality(Mutants) \in Nat
    BY HardeningAssumption, FS_CardinalityType
  <1>2. Rounds * Proposals \in Nat /\ 0 * Proposals = 0
    BY HardeningAssumption
  <1>3. Held
    BY <1>1, <1>2, HardeningAssumption DEF Init, Held
  <1>4. ShrinkOK
    BY NoInputShrinks DEF Init
  <1>5. Placed
    BY <1>2 DEF Init, Placed
  <1>6. Shared
    <2>1. kept \o won = <<>>
      BY DEF Init
    <2> QED
      BY <2>1 DEF Init, Shared, SharedOut
  <1>7. AddedUp
    BY DEF Init, AddedUp
  <1> QED
    BY <1>3, <1>4, <1>5, <1>6, <1>7, Parts

\* A subset of the mutants and what is left of them.
LEMMA CountOfRest ==
  ASSUME NEW S \in SUBSET Mutants, NEW T \in SUBSET S
  PROVE  /\ IsFiniteSet(S) /\ Cardinality(S) \in Nat /\ Cardinality(T) \in Nat
         /\ Cardinality(S) <= Cardinality(Mutants) /\ Cardinality(Mutants) \in Nat
         /\ Cardinality(S \ T) = Cardinality(S) - Cardinality(T)
  <1>1. IsFiniteSet(S) /\ Cardinality(S) <= Cardinality(Mutants)
    BY HardeningAssumption, FS_Subset
  <1>2. IsFiniteSet(T) /\ T = S \cap T
    BY <1>1, FS_Subset
  <1>3. Cardinality(S \ T) = Cardinality(S) - Cardinality(S \cap T)
    BY <1>1, FS_Difference
  <1> QED
    BY <1>1, <1>2, <1>3, HardeningAssumption, FS_CardinalityType

\* The loop goes on to its rounds or ends, with its counters added up.
LEMMA RestKeeps ==
  ASSUME NEW mutants, NEW paid \in Nat, Rest(mutants, paid), draft = "searched",
         played' = paid, proposed' <= paid * Proposals,
         Held, UNCHANGED kept
  PROVE  /\ pc' \in {"rounds", "done"} /\ draft' \in {"searched", "hardened"}
         /\ pc' = "rounds" => draft' = "searched" /\ played' < Rounds
         /\ Placed'
  BY DEF Rest, Another, Finish, Placed

LEMMA DeclaredKeeps ==
  ASSUME IInv, Declared
  PROVE  IInv'
  <1>1. Held /\ ShrinkOK /\ Placed /\ Shared /\ AddedUp
    BY Parts
  <1>2. /\ pc = "declared"
        /\ UNCHANGED <<input, kept, won, fuzzed, rounds, played, proposed>>
    BY DEF Declared
  <1>3. PICK killed \in SUBSET Mutants, inputs \in 0..Built, generator \in BOOLEAN :
          /\ declared' = killed /\ standing' = Mutants \ killed
          /\ IF standing' # {} /\ generator
             THEN pc' = "fuzzing" /\ left' = inputs /\ UNCHANGED draft
             ELSE Rest(standing', 0) /\ inputs = 0 /\ UNCHANGED left
    BY DEF Declared
  <1>4. /\ draft = "searched" /\ standing = Mutants /\ declared = {} /\ kept = <<>>
        /\ won = <<>> /\ rounds = <<>> /\ played = 0 /\ proposed = 0 /\ fuzzed = 0
        /\ 0 * Proposals = 0
    BY <1>1, <1>2, HardeningAssumption DEF Placed
  <1>5. /\ pc' \in {"fuzzing", "rounds", "done"} /\ draft' \in {"searched", "hardened"}
        /\ left' \in 0..Built
        /\ Placed'
    <2>1. CASE standing' # {} /\ generator
      BY <1>2, <1>3, <1>4, <2>1 DEF Placed
    <2>2. CASE ~ (standing' # {} /\ generator)
      <3>1. Rest(standing', 0) /\ UNCHANGED left
        BY <1>3, <2>2
      <3>2. played' = 0 /\ proposed' <= 0 * Proposals
        BY <1>2, <1>4
      <3> QED
        BY <1>1, <1>2, <1>4, <3>1, <3>2, RestKeeps DEF Held
    <2> QED
      BY <2>1, <2>2
  <1>6. Held'
    BY <1>1, <1>2, <1>3, <1>5 DEF Held
  <1>7. ShrinkOK'
    BY <1>1, <1>2, <1>5 DEF ShrinkOK, Smaller
  <1>8. Shared'
    <2>1. kept' \o won' = <<>>
      BY <1>2, <1>4
    <2> QED
      BY <1>3, <2>1 DEF Shared, SharedOut
  <1>9. AddedUp'
    <2>1. /\ Cardinality(standing') = Cardinality(Mutants) - Cardinality(declared')
          /\ Cardinality(declared') \in Nat /\ Cardinality(Mutants) \in Nat
      BY <1>3, CountOfRest
    <2>2. Len(rounds') = 0 /\ Len(won') = 0 /\ rounds' \in Seq(Int)
      BY <1>2, <1>4
    <2>3. Total(rounds') = 0
      BY <2>2, TotalOfNone
    <2> QED
      BY <1>2, <1>4, <2>1, <2>2, <2>3 DEF AddedUp
  <1> QED
    BY <1>5, <1>6, <1>7, <1>8, <1>9, PartsPrimed
\* What every step of the fuzz pass leaves alone.
LEMMA PassLeaves ==
  ASSUME IInv, pc \in {"fuzzing", "shrinking"}, pc' \in {"fuzzing", "shrinking"},
         UNCHANGED <<declared, won, fuzzed, rounds, played, proposed, draft>>,
         standing' \subseteq Mutants, kept' \in Seq(Case), left' \in 0..Built,
         pc' = "shrinking" => input'.target # {} /\ input'.kills \subseteq standing'
  PROVE  Held' /\ Placed' /\ AddedUp'
  <1>1. Held /\ Placed
    BY Parts
  <1>2. Held'
    BY <1>1 DEF Held
  <1>3. Placed'
    BY <1>1 DEF Placed
  <1>4. AddedUp'
    BY <1>1 DEF Placed, AddedUp
  <1> QED
    BY <1>2, <1>3, <1>4

LEMMA PassOverKeeps ==
  ASSUME IInv, PassOver
  PROVE  IInv'
  <1>1. Held /\ ShrinkOK /\ Placed /\ Shared
    BY Parts
  <1>2. /\ pc = "fuzzing" /\ left > 0 /\ left' = left - 1
        /\ UNCHANGED <<pc, standing, declared, input, kept, won, fuzzed, rounds, played, proposed, draft>>
    BY DEF PassOver
  <1>3. Held' /\ Placed' /\ AddedUp'
    <2>1. left' \in 0..Built /\ standing' \subseteq Mutants /\ kept' \in Seq(Case)
      BY <1>1, <1>2, HardeningAssumption DEF Held
    <2> QED
      BY <1>2, <2>1, PassLeaves
  <1>4. ShrinkOK'
    BY <1>1, <1>2 DEF ShrinkOK, Smaller
  <1> QED
    BY <1>1, <1>2, <1>3, <1>4, SharedStays, PartsPrimed

LEMMA KillKeeps ==
  ASSUME IInv, Kill
  PROVE  IInv'
  <1>1. Held /\ ShrinkOK /\ Placed /\ Shared
    BY Parts
  <1>2. /\ pc = "fuzzing" /\ left > 0 /\ left' = left - 1 /\ pc' = "shrinking"
        /\ UNCHANGED <<standing, declared, kept, won, fuzzed, rounds, played, proposed, draft>>
    BY DEF Kill
  <1>3. PICK args \in Shapes, killed \in (SUBSET standing) \ {{}} :
          input' = [args |-> args, kills |-> killed, target |-> killed, arg |-> 1,
                    tries |-> Tries, chunks |-> 2, at |-> 1]
    BY DEF Kill
  <1>4. args \in Seq(Nat) /\ args \in Seq(Int) /\ killed \in SUBSET Mutants
    BY <1>1, HardeningAssumption DEF Held
  <1>5. /\ input'.args = args /\ input'.kills = killed /\ input'.target = killed
        /\ input'.arg = 1 /\ input'.tries = Tries /\ input'.chunks = 2 /\ input'.at = 1
    BY <1>3
  <1>6. input' \in Input
    BY <1>3, <1>4, HardeningAssumption DEF Input
  <1>7. Held' /\ Placed' /\ AddedUp'
    <2>1. left' \in 0..Built /\ standing' \subseteq Mutants /\ kept' \in Seq(Case)
      BY <1>1, <1>2, HardeningAssumption DEF Held
    <2>2. input'.target # {} /\ input'.kills \subseteq standing'
      BY <1>2, <1>3, <1>5
    <2> QED
      BY <1>2, <2>1, <2>2, PassLeaves
  <1>8. Smaller'
    <2>1. \A i \in DOMAIN args : args[i] <= args[i]
      BY <1>4
    <2>2. Length' \in Int
      BY <1>4, <1>5 DEF Length
    <2> QED
      BY <1>5, <2>1, <2>2 DEF Smaller
  <1>9. ShrinkOK'
    BY <1>5, <1>6, <1>8, HardeningAssumption DEF ShrinkOK
  <1> QED
    BY <1>1, <1>2, <1>7, <1>9, SharedStays, PartsPrimed

\* A shrink goes on with an input no larger.
LEMMA ShrinkGoesOn ==
  ASSUME ShrinkOK, pc = "shrinking", input' \in Input,
         input'.tries <= input.tries, input'.target \subseteq input'.kills,
         DOMAIN input'.args = DOMAIN input.args,
         \A i \in DOMAIN input.args : input'.args[i] <= input.args[i],
         Length' > 1 => input'.chunks \in 2..Length',
         input'.at # 0
  PROVE  ShrinkOK'
  <1>1. PICK shape \in Shapes : /\ DOMAIN shape = DOMAIN input.args
                                /\ \A i \in DOMAIN shape : input.args[i] <= shape[i]
    BY DEF ShrinkOK, Smaller
  <1>2. /\ shape \in Seq(Nat) /\ input.args \in Seq(Int) /\ input'.args \in Seq(Int)
    BY HardeningAssumption DEF ShrinkOK, Input
  <1>3. ASSUME NEW i \in DOMAIN shape
        PROVE  input'.args[i] <= shape[i]
    <2>1. shape[i] \in Int /\ input.args[i] \in Int /\ input'.args[i] \in Int
      BY <1>1, <1>2
    <2> QED
      BY <1>1, <2>1
  <1>4. Smaller'
    BY <1>1, <1>3 DEF Smaller
  <1>5. input'.tries \in 0..Tries
    BY HardeningAssumption DEF ShrinkOK, Input
  <1> QED
    BY <1>4, <1>5 DEF ShrinkOK

\* The argument being shrunk is a list of at least two elements.
LEMMA ShrinkableLength ==
  ASSUME ShrinkOK, Shrinkable
  PROVE  /\ input.arg \in DOMAIN input.args /\ Length = input.args[input.arg]
         /\ Length \in Nat \ {0} /\ Length > 1 /\ input.chunks \in 2..Length
         /\ input.args \in Seq(Int)
  <1>1. Length > 1 /\ pc = "shrinking" /\ input.args \in Seq(Int)
    BY DEF Shrinkable, ShrinkOK, Input
  <1>2. input.arg \in DOMAIN input.args
    BY <1>1 DEF Length
  <1>3. Length = input.args[input.arg]
    BY <1>2 DEF Length
  <1>4. Length \in Int
    BY <1>1, <1>2, <1>3
  <1> QED
    BY <1>1, <1>2, <1>3, <1>4 DEF ShrinkOK, Smaller

LEMMA LengthType ==
  ASSUME input.args \in Seq(Int)
  PROVE  Length \in Int
  BY DEF Length

LEMMA TryKeeps ==
  ASSUME IInv, Try
  PROVE  IInv'
  <1>1. Held /\ ShrinkOK /\ Placed /\ Shared
    BY Parts
  <1>2. /\ Shrinkable /\ input.at <= Len(Trials) /\ pc = "shrinking" /\ input.tries > 0
        /\ UNCHANGED <<pc, standing, declared, left, kept, won, fuzzed, rounds, played, proposed, draft>>
    BY DEF Try, Shrinkable
  <1>3. /\ input.arg \in DOMAIN input.args /\ Length = input.args[input.arg]
        /\ Length \in Nat \ {0} /\ Length > 1 /\ input.chunks \in 2..Length
        /\ input.args \in Seq(Int)
    BY <1>1, <1>2, ShrinkableLength
  <1>4. /\ input \in Input /\ input.target \subseteq input.kills /\ input.target # {}
        /\ input.at # 0 /\ input.kills \subseteq standing
    BY <1>1, <1>2 DEF ShrinkOK, Smaller, Placed
  <1> DEFINE trial == Trials[input.at]
  <1>5. trial \in Int /\ trial <= Length
    <2>1. input.chunks \in Nat \ {0} /\ input.at \in Nat \ {0}
      BY <1>3, <1>4 DEF Input
    <2>2. /\ Trials \in Seq(Int)
          /\ \A i \in DOMAIN Trials : Trials[i] <= Length
      BY <1>3, <2>1, SubsetsAreSmaller DEF Trials
    <2>3. input.at \in DOMAIN Trials
      BY <1>2, <2>1, <2>2
    <2> QED
      BY <2>2, <2>3
  <1> HIDE DEF trial
  <1>6. PICK killed \in SUBSET standing :
          input' = IF StillKills(killed)
                   THEN [input EXCEPT !.tries = @ - 1, !.kills = killed, !.chunks = 2, !.at = 1,
                                      !.args[input.arg] = trial]
                   ELSE [input EXCEPT !.tries = @ - 1, !.at = @ + 1]
    BY DEF Try, trial
  <1>7. CASE StillKills(killed)
    <2> DEFINE args == [input.args EXCEPT ![input.arg] = trial]
    <2>1. input' = [input EXCEPT !.tries = @ - 1, !.kills = killed, !.chunks = 2, !.at = 1,
                                 !.args = args]
      BY <1>6, <1>7
    <2>2. args \in Seq(Int) /\ DOMAIN args = DOMAIN input.args
      BY <1>3, <1>5
    <2>3. \A i \in DOMAIN input.args : args[i] <= input.args[i]
      BY <1>3, <1>5
    <2>4. args[input.arg] = trial
      BY <1>3
    <2> HIDE DEF args
    <2>5. /\ input'.args = args /\ input'.kills = killed /\ input'.target = input.target
          /\ input'.arg = input.arg /\ input'.tries = input.tries - 1
          /\ input'.chunks = 2 /\ input'.at = 1
      BY <1>4, <2>1 DEF Input
    <2>6. input' \in Input
      <3>1. killed \in SUBSET Mutants /\ input.tries - 1 \in Nat
        BY <1>1, <1>2, <1>4 DEF Held, Input
      <3> QED
        BY <1>4, <2>1, <2>2, <3>1 DEF Input
    <2>7. Length' = trial
      BY <1>3, <2>2, <2>4, <2>5 DEF Length
    <2>8. ShrinkOK'
      <3>1. input'.tries <= input.tries
        BY <1>4, <2>5 DEF Input
      <3>2. input'.target \subseteq input'.kills
        BY <1>7, <2>5 DEF StillKills
      <3>3. Length' > 1 => input'.chunks \in 2..Length'
        BY <1>5, <2>5, <2>7
      <3> QED
        BY <1>1, <1>2, <2>2, <2>3, <2>5, <2>6, <3>1, <3>2, <3>3, ShrinkGoesOn
    <2>9. Held' /\ Placed' /\ AddedUp'
      <3>1. left' \in 0..Built /\ standing' \subseteq Mutants /\ kept' \in Seq(Case)
        BY <1>1, <1>2 DEF Held
      <3>2. input'.target # {} /\ input'.kills \subseteq standing'
        BY <1>2, <1>4, <2>5
      <3> QED
        BY <1>2, <3>1, <3>2, PassLeaves
    <2> QED
      BY <1>1, <1>2, <2>8, <2>9, SharedStays, PartsPrimed
  <1>8. CASE ~ StillKills(killed)
    <2>1. input' = [input EXCEPT !.tries = @ - 1, !.at = @ + 1]
      BY <1>6, <1>8
    <2>2. /\ input'.args = input.args /\ input'.kills = input.kills
          /\ input'.target = input.target /\ input'.arg = input.arg
          /\ input'.tries = input.tries - 1 /\ input'.chunks = input.chunks
          /\ input'.at = input.at + 1
      BY <1>4, <2>1 DEF Input
    <2>3. input' \in Input
      <3>1. input.tries - 1 \in Nat /\ input.at + 1 \in Nat
        BY <1>2, <1>4 DEF Input
      <3> QED
        BY <1>4, <2>1, <3>1 DEF Input
    <2>4. Length' = Length
      BY <2>2 DEF Length
    <2>5. ShrinkOK'
      <3>1. input'.tries <= input.tries /\ input'.at # 0
        BY <1>4, <2>2 DEF Input
      <3>2. \A i \in DOMAIN input.args : input'.args[i] <= input.args[i]
        BY <1>3, <2>2
      <3>3. Length' > 1 => input'.chunks \in 2..Length'
        BY <1>3, <2>2, <2>4
      <3> QED
        BY <1>1, <1>2, <1>4, <2>2, <2>3, <3>1, <3>2, <3>3, ShrinkGoesOn
    <2>6. Held' /\ Placed' /\ AddedUp'
      <3>1. left' \in 0..Built /\ standing' \subseteq Mutants /\ kept' \in Seq(Case)
        BY <1>1, <1>2 DEF Held
      <3>2. input'.target # {} /\ input'.kills \subseteq standing'
        BY <1>2, <1>4, <2>2
      <3> QED
        BY <1>2, <3>1, <3>2, PassLeaves
    <2> QED
      BY <1>1, <1>2, <2>5, <2>6, SharedStays, PartsPrimed
  <1> QED
    BY <1>7, <1>8

LEMMA NextInput ==
  ASSUME NEW old \in Input, NEW next \in Nat
  PROVE  [old EXCEPT !.arg = next, !.chunks = 2, !.at = 1] \in Input
  BY DEF Input

\* The next argument is taken up as the first was.
LEMMA NextArgument ==
  ASSUME input \in Input, input' = [input EXCEPT !.arg = @ + 1, !.chunks = 2, !.at = 1]
  PROVE  /\ input' \in Input /\ input'.at = 1
         /\ input'.args = input.args /\ input'.kills = input.kills
         /\ input'.target = input.target /\ input'.tries = input.tries
         /\ input'.chunks = 2
  <1> DEFINE next == input.arg + 1
  <1>1. next \in Nat
    BY DEF Input
  <1>2. input' = [input EXCEPT !.arg = next, !.chunks = 2, !.at = 1]
    BY DEF Input
  <1> HIDE DEF next
  <1>3. input' \in Input
    BY ONLY input \in Input, <1>1, <1>2, NextInput
  <1> QED
    BY <1>2, <1>3 DEF Input

LEMMA RefineKeeps ==
  ASSUME IInv, Refine
  PROVE  IInv'
  <1>1. Held /\ ShrinkOK /\ Placed /\ Shared
    BY Parts
  <1>2. /\ Shrinkable /\ pc = "shrinking"
        /\ input' = IF input.chunks >= Length
                    THEN [input EXCEPT !.arg = @ + 1, !.chunks = 2, !.at = 1]
                    ELSE [input EXCEPT !.chunks = Lesser(2 * @, Length), !.at = 1]
        /\ UNCHANGED <<pc, standing, declared, left, kept, won, fuzzed, rounds, played, proposed, draft>>
    BY DEF Refine, Shrinkable
  <1>3. Length \in Nat /\ Length > 1 /\ input.chunks \in 2..Length /\ input.args \in Seq(Int)
    BY <1>1, <1>2, ShrinkableLength
  <1>4. /\ input \in Input /\ input.target \subseteq input.kills /\ input.target # {}
        /\ input.kills \subseteq standing
    BY <1>1, <1>2 DEF ShrinkOK, Placed
  <1>5. /\ input' \in Input /\ input'.at = 1
        /\ input'.args = input.args /\ input'.kills = input.kills
        /\ input'.target = input.target /\ input'.tries = input.tries
        /\ Length' > 1 => input'.chunks \in 2..Length'
    <2>1. CASE input.chunks >= Length
      <3>1. input' = [input EXCEPT !.arg = @ + 1, !.chunks = 2, !.at = 1]
        BY <1>2, <2>1
      <3>2. /\ input' \in Input /\ input'.at = 1
            /\ input'.args = input.args /\ input'.kills = input.kills
            /\ input'.target = input.target /\ input'.tries = input.tries
            /\ input'.chunks = 2
        BY <1>4, <3>1, NextArgument
      <3>3. Length' \in Int
        BY <1>3, <3>2 DEF Length
      <3> QED
        BY <3>2, <3>3
    <2>2. CASE ~ (input.chunks >= Length)
      <3> DEFINE finer == Lesser(2 * input.chunks, Length)
      <3>1. finer \in 2..Length /\ finer \in Nat
        BY <1>3 DEF Lesser
      <3>2. input' = [input EXCEPT !.chunks = finer, !.at = 1]
        BY <1>2, <1>4, <2>2 DEF Input
      <3> HIDE DEF finer
      <3>3. /\ input' \in Input /\ input'.at = 1
            /\ input'.args = input.args /\ input'.kills = input.kills
            /\ input'.target = input.target /\ input'.tries = input.tries
            /\ input'.chunks = finer /\ input'.arg = input.arg
        BY <1>4, <3>1, <3>2 DEF Input
      <3>4. Length' = Length
        BY <3>3 DEF Length
      <3> QED
        BY <3>1, <3>3, <3>4
    <2> QED
      BY <2>1, <2>2
  <1>6. ShrinkOK'
    <2>1. \A i \in DOMAIN input.args : input'.args[i] <= input.args[i]
      BY <1>3, <1>5
    <2>2. input'.tries <= input.tries
      BY <1>4, <1>5 DEF Input
    <2> QED
      BY <1>1, <1>2, <1>4, <1>5, <2>1, <2>2, ShrinkGoesOn
  <1>7. Held' /\ Placed' /\ AddedUp'
    <2>1. left' \in 0..Built /\ standing' \subseteq Mutants /\ kept' \in Seq(Case)
      BY <1>1, <1>2 DEF Held
    <2> QED
      BY <1>2, <1>4, <1>5, <2>1, PassLeaves
  <1> QED
    BY <1>1, <1>2, <1>6, <1>7, SharedStays, PartsPrimed

LEMMA SkipKeeps ==
  ASSUME IInv, Skip
  PROVE  IInv'
  <1>1. Held /\ ShrinkOK /\ Placed /\ Shared
    BY Parts
  <1>2. /\ pc = "shrinking"
        /\ input' = [input EXCEPT !.arg = @ + 1, !.chunks = 2, !.at = 1]
        /\ UNCHANGED <<pc, standing, declared, left, kept, won, fuzzed, rounds, played, proposed, draft>>
    BY DEF Skip
  <1>3. /\ input \in Input /\ input.target \subseteq input.kills /\ input.target # {}
        /\ input.kills \subseteq standing /\ input.args \in Seq(Int)
    BY <1>1, <1>2 DEF ShrinkOK, Placed, Input
  <1>4. /\ input' \in Input /\ input'.at = 1
        /\ input'.args = input.args /\ input'.kills = input.kills
        /\ input'.target = input.target /\ input'.tries = input.tries
        /\ input'.chunks = 2
    BY <1>2, <1>3, NextArgument
  <1>5. Length' \in Int
    BY <1>3, <1>4 DEF Length
  <1>6. ShrinkOK'
    <2>1. \A i \in DOMAIN input.args : input'.args[i] <= input.args[i]
      BY <1>3, <1>4
    <2>2. input'.tries <= input.tries
      BY <1>3, <1>4 DEF Input
    <2> QED
      BY <1>1, <1>2, <1>3, <1>4, <1>5, <2>1, <2>2, ShrinkGoesOn
  <1>7. Held' /\ Placed' /\ AddedUp'
    <2>1. left' \in 0..Built /\ standing' \subseteq Mutants /\ kept' \in Seq(Case)
      BY <1>1, <1>2 DEF Held
    <2> QED
      BY <1>2, <1>3, <1>4, <2>1, PassLeaves
  <1> QED
    BY <1>1, <1>2, <1>6, <1>7, SharedStays, PartsPrimed

LEMMA KeepKeeps ==
  ASSUME IInv, Keep
  PROVE  IInv'
  <1> DEFINE case == [kills |-> input.kills, for |-> input.target]
  <1>1. Held /\ ShrinkOK /\ Placed /\ Shared
    BY Parts
  <1>2. /\ pc = "shrinking" /\ pc' = "fuzzing" /\ input' = NoInput
        /\ UNCHANGED <<declared, left, won, fuzzed, rounds, played, proposed, draft>>
    BY DEF Keep
  <1>3. PICK fits \in BOOLEAN :
          /\ standing' = StandingAfter(fits)
          /\ kept' = IF fits THEN Append(kept, case) ELSE kept
    BY DEF Keep
  <1>4. /\ kept \in Seq(Case) /\ standing \in SUBSET Mutants /\ won = <<>>
        /\ input.target # {} /\ input.kills \subseteq standing
        /\ input.target \subseteq input.kills
    BY <1>1, <1>2 DEF Held, Placed, ShrinkOK
  <1>5. case \in Case /\ case.kills = input.kills /\ case.for = input.target
    BY <1>4 DEF Case
  <1> HIDE DEF case
  <1>6. Shared' /\ kept' \in Seq(Case) /\ standing' \subseteq Mutants
    <2>1. CASE fits
      <3>1. kept' = Append(kept, case) /\ standing' = standing \ input.target
        BY <1>3, <2>1 DEF StandingAfter
      <3> DEFINE more == <<case>>
      <3>2. /\ more \in Seq(Case) /\ DOMAIN more = {1} /\ more[1] = case
            /\ kept \o won = kept /\ kept' \o won' = kept \o more
        BY <1>2, <1>4, <1>5, <3>1
      <3> HIDE DEF more
      <3>3. UNION {more[i].for : i \in DOMAIN more} = input.target
        BY <1>5, <3>2
      <3>4. \A i \in DOMAIN more : more[i].for # {} /\ more[i].for \subseteq more[i].kills
        BY <1>4, <1>5, <3>2
      <3>5. \A i, j \in DOMAIN more : i # j => more[i].for \cap more[j].for = {}
        BY <3>2
      <3>6. SharedOut(declared, kept, standing) /\ input.target \in SUBSET standing
        BY <1>1, <1>4, <3>2 DEF Shared
      <3>7. SharedOut(declared, kept \o more, standing \ input.target)
        BY <1>4, <3>2, <3>3, <3>4, <3>5, <3>6, MoreIsShared
      <3>8. Shared'
        BY <1>2, <3>1, <3>2, <3>7 DEF Shared
      <3> QED
        BY <1>4, <1>5, <3>1, <3>8
    <2>2. CASE ~ fits
      <3>1. UNCHANGED <<kept, standing>>
        BY <1>3, <2>2 DEF StandingAfter
      <3> QED
        BY <1>1, <1>2, <1>4, <3>1, SharedStays
    <2> QED
      BY <2>1, <2>2
  <1>7. Held' /\ Placed' /\ AddedUp'
    <2>1. left' \in 0..Built
      BY <1>1, <1>2 DEF Held
    <2> QED
      BY <1>2, <1>6, <2>1, PassLeaves
  <1>8. ShrinkOK'
    BY <1>2, HardeningAssumption DEF NoInput, ShrinkOK, Input, Smaller
  <1> QED
    BY <1>6, <1>7, <1>8, PartsPrimed

LEMMA EndPassKeeps ==
  ASSUME IInv, EndPass
  PROVE  IInv'
  <1>1. Held /\ ShrinkOK /\ Placed /\ Shared
    BY Parts
  <1>2. /\ pc = "fuzzing" /\ (Rest(standing, 0) \/ Rejected)
        /\ fuzzed' = Cardinality(Mutants) - Cardinality(declared) - Cardinality(standing)
        /\ UNCHANGED <<standing, declared, left, input, kept, won, rounds, played, proposed>>
    BY DEF EndPass
  <1>3. /\ won = <<>> /\ rounds = <<>> /\ played = 0 /\ proposed = 0 /\ draft = "searched"
        /\ 0 * Proposals = 0
    BY <1>1, <1>2, HardeningAssumption DEF Placed
  <1>4. /\ Cardinality(Mutants) \in Nat /\ Cardinality(declared) \in Nat
        /\ Cardinality(standing) \in Nat
        /\ Cardinality(declared) <= Cardinality(Mutants) - Cardinality(standing)
    <2>1. /\ standing \in SUBSET Mutants /\ Mutants \ standing \in SUBSET Mutants
          /\ declared \in SUBSET (Mutants \ standing)
      BY <1>1 DEF Held, Shared, SharedOut
    <2>2. /\ Cardinality(Mutants \ standing) = Cardinality(Mutants) - Cardinality(standing)
          /\ Cardinality(standing) \in Nat /\ Cardinality(Mutants) \in Nat
      BY <2>1, CountOfRest
    <2>3. IsFiniteSet(Mutants \ standing) /\ Cardinality(declared) \in Nat
      BY <2>1, CountOfRest
    <2>4. Cardinality(declared) <= Cardinality(Mutants \ standing)
      BY <2>1, <2>3, FS_Subset
    <2> QED
      BY <2>2, <2>3, <2>4
  <1>5. /\ pc' \in {"rounds", "done"} /\ draft' \in {"searched", "rejected", "hardened"}
        /\ Placed'
    <2>1. CASE Rest(standing, 0)
      <3>1. played' = 0 /\ proposed' <= 0 * Proposals
        BY <1>2, <1>3
      <3> QED
        BY <1>1, <1>2, <1>3, <2>1, <3>1, RestKeeps
    <2>2. CASE Rejected
      BY <1>2, <1>3, <2>2 DEF Rejected, Placed
    <2> QED
      BY <1>2, <2>1, <2>2
  <1>6. Held'
    BY <1>1, <1>2, <1>4, <1>5 DEF Held
  <1>7. ShrinkOK'
    BY <1>1, <1>2, <1>5 DEF ShrinkOK, Smaller
  <1>8. AddedUp'
    <2>1. Len(rounds') = 0 /\ rounds' \in Seq(Int) /\ Len(won') = 0
      BY <1>2, <1>3
    <2>2. Total(rounds') = 0
      BY <2>1, TotalOfNone
    <2> QED
      BY <1>2, <1>3, <1>4, <2>1, <2>2 DEF AddedUp
  <1> QED
    BY <1>1, <1>2, <1>5, <1>6, <1>7, <1>8, SharedStays, PartsPrimed

LEMMA FailKeeps ==
  ASSUME IInv, Fail
  PROVE  IInv'
  <1>1. Held /\ ShrinkOK /\ Placed /\ Shared
    BY Parts
  <1>2. /\ pc # "done" /\ pc' = "done" /\ draft = "searched"
        /\ UNCHANGED <<standing, declared, left, input, kept, won, fuzzed, rounds, played, proposed, draft>>
    BY <1>1 DEF Fail, Placed
  <1>3. Held'
    BY <1>1, <1>2 DEF Held
  <1>4. ShrinkOK'
    BY <1>1, <1>2 DEF ShrinkOK, Smaller
  <1>5. Placed' /\ AddedUp'
    BY <1>1, <1>2 DEF Placed, AddedUp
  <1> QED
    BY <1>1, <1>2, <1>3, <1>4, <1>5, SharedStays, PartsPrimed

LEMMA StutterKeeps ==
  ASSUME IInv, UNCHANGED vars
  PROVE  IInv'
  <1> USE DEF vars
  <1>1. Held /\ ShrinkOK /\ Placed /\ Shared /\ AddedUp
    BY Parts
  <1>2. Held' /\ Placed'
    BY <1>1 DEF Held, Placed
  <1>3. ShrinkOK'
    BY <1>1 DEF ShrinkOK, Smaller, Length
  <1>4. AddedUp'
    BY <1>1 DEF AddedUp
  <1> QED
    BY <1>1, <1>2, <1>3, <1>4, SharedStays, PartsPrimed

LEMMA RoundKeeps ==
  ASSUME IInv, NEW n \in 0..Proposals, NEW cases \in [1..n -> SUBSET standing], Round(cases)
  PROVE  IInv'
  <1> DEFINE killed == UNION Range(cases)
  <1>1. Held /\ ShrinkOK /\ Placed /\ Shared /\ AddedUp
    BY Parts
  <1>2. /\ pc = "rounds" /\ played' = played + 1
        /\ UNCHANGED <<declared, left, input, kept, fuzzed>>
    BY DEF Round
  <1>3. /\ draft = "searched" /\ played < Rounds /\ played \in Nat /\ Rounds \in Nat
        /\ proposed \in Nat /\ n \in Nat /\ n <= Proposals /\ Proposals \in Nat
        /\ proposed <= played * Proposals
    BY <1>1, <1>2, HardeningAssumption DEF Placed, Held
  <1>4. /\ (played + 1) * Proposals = played * Proposals + Proposals
        /\ played * Proposals \in Nat /\ Rounds * Proposals \in Nat
        /\ (played + 1) * Proposals <= Rounds * Proposals
    <2>1. (played + 1) * Proposals = played * Proposals + Proposals
      BY <1>3
    <2>2. PICK more \in Nat : Rounds = played + 1 + more
      <3>1. Rounds - (played + 1) \in Nat /\ Rounds = played + 1 + (Rounds - (played + 1))
        BY <1>3
      <3> QED
        BY <3>1
    <2>3. Rounds * Proposals = (played + 1) * Proposals + more * Proposals
      BY <1>3, <2>2
    <2>4. more * Proposals \in Nat /\ played * Proposals \in Nat /\ Rounds * Proposals \in Nat
      BY <1>3, <2>2
    <2> QED
      BY <1>3, <2>1, <2>3, <2>4
  <1>5. CASE Rejected /\ UNCHANGED <<standing, won, rounds, proposed>>
    <2>1. pc' = "done" /\ draft' = "rejected"
      BY <1>5 DEF Rejected
    <2>2. Held'
      BY <1>1, <1>2, <1>3, <1>5, <2>1 DEF Held
    <2>3. Placed'
      BY <1>2, <1>3, <1>4, <1>5, <2>1 DEF Placed
    <2>4. ShrinkOK' /\ AddedUp'
      BY <1>1, <1>2, <2>1 DEF ShrinkOK, Smaller, AddedUp
    <2> QED
      BY <1>1, <1>2, <1>5, <2>2, <2>3, <2>4, SharedStays, PartsPrimed
  <1>6. CASE /\ standing' = standing \ killed
             /\ rounds' = Counted(killed)
             /\ proposed' = proposed + Len(cases)
             /\ \E landed \in Listed(Killers(cases)) :
                   won' = won \o [k \in DOMAIN landed |->
                                     [kills |-> cases[landed[k]], for |-> For(cases, landed[k])]]
             /\ IF killed = {} THEN Finish ELSE Rest(standing', played')
    <2>1. /\ standing \in SUBSET Mutants /\ killed \in SUBSET standing
          /\ kept \in Seq(Case) /\ won \in Seq(Case) /\ rounds \in Seq(Nat)
      BY <1>1 DEF Held, Range
    <2>2. Len(cases) = n
      BY <1>3
    <2>3. PICK landed \in Listed(Killers(cases)) : won' = won \o Landed(cases, landed)
      BY <1>6 DEF Landed
    <2> DEFINE more == Landed(cases, landed)
    <2>4. ShareOf(more, n, killed)
      <3>1. standing \in SUBSET Mutants /\ n \in Nat /\ cases \in [1..n -> SUBSET standing]
        BY <1>3, <2>1
      <3> QED
        BY ONLY <2>3, <3>1, KillersShare
    <2>5. won' = won \o more
      BY <2>3
    <2> HIDE DEF more
    <2>14. /\ more \in Seq(Case) /\ Len(more) <= n
           /\ UNION {more[i].for : i \in DOMAIN more} = killed
           /\ \A i \in DOMAIN more : more[i].for # {} /\ more[i].for \subseteq more[i].kills
           /\ \A i, j \in DOMAIN more : i # j => more[i].for \cap more[j].for = {}
      BY <2>4 DEF ShareOf
    <2> HIDE DEF killed
    <2>6. Shared'
      <3>1. kept \o won \in Seq(Case) /\ SharedOut(declared, kept \o won, standing)
        BY <1>1, <2>1 DEF Shared
      <3>2. SharedOut(declared, (kept \o won) \o more, standing \ killed)
        BY <2>1, <2>14, <3>1, MoreIsShared
      <3>3. kept \o (won \o more) = (kept \o won) \o more
        BY <2>1, <2>14
      <3> QED
        BY <1>2, <1>6, <2>5, <3>2, <3>3 DEF Shared
    <2>7. /\ won' \in Seq(Case) /\ Len(won') = Len(won) + Len(more) /\ Len(more) \in Nat
          /\ proposed' = proposed + n /\ proposed' \in Nat
      <3>1. won \in Seq(Case) /\ more \in Seq(Case) /\ won' = won \o more
        BY <2>1, <2>14, <2>5
      <3>2. won' \in Seq(Case) /\ Len(won') = Len(won) + Len(more) /\ Len(more) \in Nat
        BY ONLY <3>1
      <3>3. proposed' = proposed + n
        BY <1>6, <2>2
      <3>4. proposed' \in Nat
        BY <1>3, <3>3
      <3> QED
        BY <3>2, <3>3, <3>4
    <2>8. /\ Cardinality(standing') = Cardinality(standing) - Cardinality(killed)
          /\ Cardinality(killed) \in Nat /\ Cardinality(standing) \in Nat
      BY <1>6, <2>1, CountOfRest
    <2>9. /\ rounds' \in Seq(Nat) /\ Len(rounds') = Len(rounds) + 1
          /\ Total(rounds') = Total(rounds) + Cardinality(killed)
          /\ Total(rounds) \in Int
      <3>1. rounds' = Append(rounds, Cardinality(killed))
        BY <1>6 DEF Counted
      <3>2. /\ rounds' \in Seq(Nat) /\ Len(rounds') = Len(rounds) + 1
            /\ rounds' \in Seq(Int) /\ rounds \in Seq(Int)
            /\ \A k \in 1..Len(rounds) : rounds[k] = rounds'[k]
            /\ rounds'[Len(rounds')] = Cardinality(killed)
        BY <2>1, <2>8, <3>1
      <3>3. Total(rounds') = Total(rounds) + rounds'[Len(rounds')]
        BY <3>2, TotalOfOneMore
      <3> QED
        BY <3>2, <3>3, TotalIsAnInteger
    <2>10. /\ pc' \in {"rounds", "done"} /\ draft' \in {"searched", "hardened"}
           /\ Placed'
      <3>1. proposed' <= played' * Proposals
        BY <1>2, <1>3, <1>4, <2>7
      <3>2. CASE killed = {}
        BY <1>2, <1>6, <3>1, <3>2 DEF Finish, Placed
      <3>3. CASE killed # {}
        BY <1>1, <1>2, <1>3, <1>6, <3>1, <3>3, RestKeeps
      <3> QED
        BY <3>2, <3>3
    <2>11. Held'
      <3>1. proposed' \in 0..(Rounds * Proposals)
        BY <1>3, <1>4, <2>7
      <3>2. played' \in 0..Rounds /\ Len(rounds') <= played'
        BY <1>1, <1>2, <1>3, <2>1, <2>9 DEF Held
      <3>3. standing' \subseteq Mutants
        BY <1>6, <2>1
      <3> QED
        BY <1>1, <1>2, <2>7, <2>9, <2>10, <3>1, <3>2, <3>3 DEF Held
    <2>12. ShrinkOK'
      BY <1>1, <1>2, <2>10 DEF ShrinkOK, Smaller
    <2>13. AddedUp'
      <3>1. /\ Cardinality(declared) + fuzzed + Total(rounds) + Cardinality(standing)
                  = Cardinality(Mutants)
            /\ Len(rounds) = played /\ Len(won) <= proposed
        BY <1>1, <1>2 DEF AddedUp
      <3>2. /\ Cardinality(Mutants) \in Nat /\ Cardinality(declared) \in Nat
            /\ fuzzed \in Nat /\ Len(won) \in Nat
        <4>1. declared \in SUBSET Mutants /\ won \in Seq(Case)
              /\ fuzzed \in 0..Cardinality(Mutants)
          BY <1>1, <2>1 DEF Held
        <4>2. {} \in SUBSET declared
          OBVIOUS
        <4>3. Cardinality(Mutants) \in Nat /\ Cardinality(declared) \in Nat
          BY <4>1, <4>2, CountOfRest
        <4>4. Len(won) \in Nat
          BY ONLY <4>1
        <4> QED
          BY <4>1, <4>3, <4>4
      <3>3. /\ Cardinality(declared) + fuzzed + Total(rounds') + Cardinality(standing')
                  = Cardinality(Mutants)
        BY <2>8, <2>9, <3>1, <3>2
      <3>4. Len(rounds') = played' /\ Len(won') <= proposed'
        BY SMTT(30), <1>2, <1>3, <2>14, <2>7, <2>9, <3>1, <3>2
      <3> QED
        BY <1>2, <3>3, <3>4 DEF AddedUp
    <2> QED
      BY <2>6, <2>10, <2>11, <2>12, <2>13, PartsPrimed
  <1> QED
    BY <1>5, <1>6 DEF Round

LEMMA Inductive == IInv /\ [Next]_vars => IInv'
  <1> SUFFICES ASSUME IInv, [Next]_vars PROVE IInv'
    OBVIOUS
  <1>1. CASE Declared \/ PassOver \/ Kill \/ EndPass
    BY <1>1, DeclaredKeeps, PassOverKeeps, KillKeeps, EndPassKeeps
  <1>2. CASE Try \/ Refine \/ Skip \/ Keep
    BY <1>2, TryKeeps, RefineKeeps, SkipKeeps, KeepKeeps
  <1>3. CASE \E n \in 0..Proposals : \E cases \in [1..n -> SUBSET standing] : Round(cases)
    BY <1>3, RoundKeeps
  <1>4. CASE Fail
    BY <1>4, FailKeeps
  <1>5. CASE UNCHANGED vars
    BY <1>5, StutterKeeps
  <1> QED
    BY <1>1, <1>2, <1>3, <1>4, <1>5 DEF Next

-----------------------------------------------------------------------------
(* The theorems.                                                           *)

\* Where the loop stands, what it holds and what its counters come to, at every state.
THEOREM LoopKeepsItsBooks == Spec => []IInv
  BY Initially, Inductive, PTL DEF Spec

\* The loop's counters stay within their bounds, and a shrink only ever makes an input
\* smaller: shrink's chunks, its complements and the granularity it doubles.
THEOREM ShrinksAreSmaller == Spec => []TypeOK
  <1>1. IInv => TypeOK
    BY DEF IInv
  <1> QED
    BY <1>1, LoopKeepsItsBooks, PTL

\* The counters harden leaves account for every mutant once, with one count a round, and no
\* case landed that was not proposed.
THEOREM CountersAddUp == Spec => []CountsAddUp
  <1>1. IInv => CountsAddUp
    BY DEF IInv, AddedUp, CountsAddUp
  <1> QED
    BY <1>1, LoopKeepsItsBooks, PTL

\* What the rounds landed kills nothing that stands, and each proposal is taken for mutants
\* that none landed before it kills.
Anew(cases, rest) ==
  /\ \A j \in DOMAIN cases : cases[j].kills \cap rest = {}
  /\ \A i, j \in DOMAIN cases : j < i => cases[i].for \cap cases[j].kills = {}

WonInv == Anew(won, standing)

\* A proposal is listed after those proposed before it, and the mutants that name it fail
\* none of them.
LEMMA KillersAreNew ==
  ASSUME NEW rest \in SUBSET Mutants, NEW n \in Nat, NEW cases \in [1..n -> SUBSET rest],
         NEW list \in Listed(Killers(cases))
  PROVE  Anew(Landed(cases, list), rest \ UNION Range(cases))
  <1> DEFINE killed == UNION Range(cases)
             more == Landed(cases, list)
  <1>1. /\ cases \in [1..n -> SUBSET Mutants]
        /\ \A m \in killed : /\ Names(cases, m) \in 1..n
                             /\ \A j \in 1..(Names(cases, m) - 1) : m \notin cases[j]
    <2>1. cases \in [1..n -> SUBSET Mutants]
      OBVIOUS
    <2> QED
      BY <2>1, NamesAKiller
  <1>2. Killers(cases) \in SUBSET (1..n)
    BY <1>1 DEF Killers
  <1>3. list \in [1..Cardinality(Killers(cases)) -> Killers(cases)]
    BY <1>2, ListedOnce
  <1>4. ASSUME NEW k \in DOMAIN list
        PROVE  /\ list[k] \in 1..n
               /\ more[k].kills = cases[list[k]] /\ more[k].for = For(cases, list[k])
    BY <1>2, <1>3 DEF Landed
  <1>5. DOMAIN more = DOMAIN list
    BY DEF Landed
  <1> HIDE DEF more
  <1>6. ASSUME NEW j \in DOMAIN list
        PROVE  more[j].kills \cap (rest \ killed) = {}
    <2>1. cases[list[j]] \subseteq killed
      BY <1>4 DEF Range
    <2> QED
      BY <1>4, <2>1
  <1>7. ASSUME NEW i \in DOMAIN list, NEW j \in DOMAIN list, j < i
        PROVE  more[i].for \cap more[j].kills = {}
    <2>1. list[j] < list[i] /\ list[j] \in 1..n /\ list[i] \in 1..n
      BY <1>4, <1>7 DEF Listed
    <2>2. list[j] \in 1..(list[i] - 1)
      BY <2>1
    <2>3. ASSUME NEW m \in For(cases, list[i])
          PROVE  m \notin cases[list[j]]
      <3>1. m \in killed /\ Names(cases, m) = list[i]
        BY <2>1 DEF For, Range
      <3> QED
        BY <1>1, <2>2, <3>1
    <2> QED
      BY <1>4, <2>3
  <1> QED
    BY <1>5, <1>6, <1>7 DEF Anew, more

\* Further proposals are as new as those before them, where they are taken for what stood.
LEMMA StillAnew ==
  ASSUME NEW rest, NEW killed, NEW cases \in Seq(Case), NEW more \in Seq(Case),
         Anew(cases, rest), Anew(more, rest \ killed),
         \A i \in DOMAIN more : more[i].for \subseteq rest
  PROVE  Anew(cases \o more, rest \ killed)
  <1> DEFINE all == cases \o more
             m == Len(cases)
             n == Len(more)
  <1>1. /\ m \in Nat /\ n \in Nat /\ DOMAIN cases = 1..m /\ DOMAIN more = 1..n
        /\ DOMAIN all = 1..(m + n)
        /\ \A i \in 1..m : all[i] = cases[i]
        /\ \A i \in 1..n : all[m + i] = more[i]
    OBVIOUS
  <1>2. \A i \in 1..(m + n) :
          (i \in 1..m /\ all[i] = cases[i]) \/ (i > m /\ i - m \in 1..n /\ all[i] = more[i - m])
    BY <1>1
  <1> HIDE DEF all, m, n
  <1>3. /\ \A j \in 1..m : cases[j].kills \cap rest = {}
        /\ \A i, j \in 1..m : j < i => cases[i].for \cap cases[j].kills = {}
        /\ \A j \in 1..n : more[j].kills \cap (rest \ killed) = {}
        /\ \A i, j \in 1..n : j < i => more[i].for \cap more[j].kills = {}
        /\ \A i \in 1..n : more[i].for \subseteq rest
    BY <1>1 DEF Anew
  <1>4. ASSUME NEW j \in 1..(m + n)
        PROVE  all[j].kills \cap (rest \ killed) = {}
    BY <1>2, <1>3
  <1>5. ASSUME NEW i \in 1..(m + n), NEW j \in 1..(m + n), j < i
        PROVE  all[i].for \cap all[j].kills = {}
    <2>1. CASE i \in 1..m
      <3>1. j \in 1..m
        BY <1>1, <1>5, <2>1
      <3> QED
        BY <1>1, <1>3, <1>5, <2>1, <3>1
    <2>2. CASE i \notin 1..m /\ j \in 1..m
      <3>1. i - m \in 1..n /\ all[i] = more[i - m] /\ all[j] = cases[j]
        BY <1>2, <1>1, <2>2
      <3>2. more[i - m].for \subseteq rest /\ cases[j].kills \cap rest = {}
        BY <1>3, <2>2, <3>1
      <3> QED
        BY <3>1, <3>2
    <2>3. CASE i \notin 1..m /\ j \notin 1..m
      <3>1. /\ i - m \in 1..n /\ all[i] = more[i - m]
            /\ j - m \in 1..n /\ all[j] = more[j - m]
            /\ j - m < i - m
        BY <1>1, <1>2, <1>5, <2>3
      <3> QED
        BY <1>3, <3>1
    <2> QED
      BY <2>1, <2>2, <2>3
  <1> QED
    BY <1>1, <1>4, <1>5 DEF Anew, all

LEMMA RoundStaysAnew ==
  ASSUME IInv, WonInv, NEW n \in 0..Proposals, NEW cases \in [1..n -> SUBSET standing], Round(cases)
  PROVE  WonInv'
  <1> DEFINE killed == UNION Range(cases)
  <1>1. standing \in SUBSET Mutants /\ won \in Seq(Case)
    BY DEF IInv, TypeOK
  <1>2. CASE Rejected /\ UNCHANGED <<standing, won, rounds, proposed>>
    BY <1>2 DEF WonInv
  <1>3. CASE /\ standing' = standing \ killed
             /\ \E landed \in Listed(Killers(cases)) :
                   won' = won \o [k \in DOMAIN landed |->
                                     [kills |-> cases[landed[k]], for |-> For(cases, landed[k])]]
    <2>1. PICK landed \in Listed(Killers(cases)) : won' = won \o Landed(cases, landed)
      BY <1>3 DEF Landed
    <2>2. /\ ShareOf(Landed(cases, landed), n, killed)
          /\ Anew(Landed(cases, landed), standing \ killed)
      <3>1. n \in Nat
        BY HardeningAssumption
      <3> QED
        BY ONLY <1>1, <3>1, cases \in [1..n -> SUBSET standing],
                landed \in Listed(Killers(cases)), KillersShare, KillersAreNew
    <2> DEFINE more == Landed(cases, landed)
    <2>3. /\ more \in Seq(Case) /\ UNION {more[i].for : i \in DOMAIN more} = killed
          /\ Anew(more, standing \ killed)
      BY <2>2 DEF ShareOf
    <2>4. won' = won \o more
      BY <2>1
    <2> HIDE DEF more
    <2>5. killed \subseteq standing
      BY DEF Range
    <2> HIDE DEF killed
    <2>6. \A i \in DOMAIN more : more[i].for \subseteq standing
      BY <2>3, <2>5
    <2>7. Anew(won \o more, standing \ killed)
      BY <1>1, <2>3, <2>6, StillAnew DEF WonInv
    <2> QED
      BY <1>3, <2>4, <2>7 DEF WonInv
  <1> QED
    BY <1>2, <1>3 DEF Round

LEMMA StaysAnew == IInv /\ WonInv /\ [Next]_vars => WonInv'
  <1> SUFFICES ASSUME IInv, WonInv, [Next]_vars PROVE WonInv'
    OBVIOUS
  <1>1. ASSUME UNCHANGED won, standing' \subseteq standing
        PROVE  WonInv'
    BY <1>1 DEF WonInv, Anew
  <1>2. CASE Declared
    <2>1. standing = Mutants /\ standing' \subseteq Mutants /\ UNCHANGED won
      BY <1>2 DEF Declared, IInv, Placed
    <2> QED
      BY <1>1, <2>1
  <1>3. CASE PassOver \/ Kill \/ EndPass \/ Try \/ Refine \/ Skip \/ Fail \/ UNCHANGED vars
    BY <1>1, <1>3 DEF PassOver, Kill, EndPass, Try, Refine, Skip, Fail, vars
  <1>4. CASE Keep
    BY <1>1, <1>4 DEF Keep, StandingAfter
  <1>5. CASE \E n \in 0..Proposals : \E cases \in [1..n -> SUBSET standing] : Round(cases)
    BY <1>5, RoundStaysAnew
  <1> QED
    BY <1>2, <1>3, <1>4, <1>5 DEF Next

\* The set a hardened draft lands with kills what it was counted as killing, through every
\* shrink and every round, and each case of it kills a mutant that nothing before it had
\* killed when it was taken: an input of the pass as it was built, a proposal as it is stored.
THEOREM EveryCaseKillsAnother == Spec => []SetKillsWhatItCounts
  <1>1. ASSUME IInv, WonInv
        PROVE  SetKillsWhatItCounts
    <2> DEFINE all == kept \o won
               before(i) == declared \cup UNION {Taken(j) : j \in 1..(i - 1)}
    <2>1. /\ declared \cup UNION {all[i].for : i \in DOMAIN all} = Mutants \ standing
          /\ \A i \in DOMAIN all : /\ all[i].for # {} /\ all[i].for \subseteq all[i].kills
                                   /\ all[i].for \cap declared = {}
          /\ \A i, j \in DOMAIN all : i # j => all[i].for \cap all[j].for = {}
      BY <1>1 DEF IInv, Shared, SharedOut
    <2>2. /\ kept \in Seq(Case) /\ won \in Seq(Case)
          /\ Len(kept) \in Nat /\ Len(won) \in Nat
          /\ DOMAIN all = 1..(Len(kept) + Len(won)) /\ DOMAIN won = 1..Len(won)
          /\ \A i \in 1..Len(kept) : all[i] = kept[i]
          /\ \A i \in 1..(Len(kept) + Len(won)) : i > Len(kept) => all[i] = won[i - Len(kept)]
      BY <1>1 DEF IInv, TypeOK
    <2> HIDE DEF all
    <2>3. Mutants \ standing \subseteq declared \cup UNION {all[i].kills : i \in DOMAIN all}
      BY <2>1
    <2>4. ASSUME NEW i \in DOMAIN all, NEW j \in 1..(i - 1)
          PROVE  all[i].for \cap Taken(j) = {}
      <3>1. j \in DOMAIN all /\ i # j /\ j \in Nat /\ i \in Nat /\ j < i
        BY <2>2, <2>4
      <3>2. CASE j <= Len(kept)
        <4>1. Taken(j) = all[j].for
          BY <2>2, <2>4, <3>2 DEF Taken
        <4> QED
          BY <2>1, <2>4, <3>1, <4>1
      <3>3. CASE ~ (j <= Len(kept))
        <4>1. /\ i - Len(kept) \in DOMAIN won /\ j - Len(kept) \in DOMAIN won
              /\ j - Len(kept) < i - Len(kept)
              /\ all[i] = won[i - Len(kept)]
          BY <2>2, <2>4, <3>1, <3>3
        <4>2. Taken(j) = won[j - Len(kept)].kills
          BY <3>3 DEF Taken
        <4> QED
          BY <1>1, <4>1, <4>2 DEF WonInv, Anew
      <3> QED
        BY <3>2, <3>3
    <2>5. ASSUME NEW i \in DOMAIN all
          PROVE  ~ (all[i].kills \subseteq before(i))
      <3>1. PICK mutant \in all[i].for : mutant \in all[i].kills
        BY <2>1, <2>5
      <3>2. mutant \notin declared
        BY <2>1, <2>5, <3>1
      <3>3. \A j \in 1..(i - 1) : mutant \notin Taken(j)
        BY <2>4, <2>5, <3>1
      <3> QED
        BY <3>1, <3>2, <3>3
    <2> QED
      BY <2>3, <2>5 DEF SetKillsWhatItCounts, all
  <1>2. Init => WonInv
    BY DEF Init, WonInv, Anew
  <1> QED
    BY <1>1, <1>2, StaysAnew, LoopKeepsItsBooks, PTL DEF Spec

\* A list split in two parts or more, and no finer than it is long, has parts that are shorter
\* than it and not empty.
LEMMA SplitIsProper ==
  ASSUME NEW length \in Nat \ {0}, NEW chunks \in 2..length
  PROVE  /\ Split(length, chunks) \in Seq(Int)
         /\ \A i \in DOMAIN Split(length, chunks) : Split(length, chunks)[i] \in 1..(length - 1)
  <1> DEFINE step == Greater(length \div chunks, 1)
             parts == (length + step - 1) \div step
  <1>1. /\ length \div chunks \in Nat /\ chunks * (length \div chunks) <= length
        /\ length < chunks * (length \div chunks) + chunks
    OBVIOUS
  <1>2. length \div chunks # 0
    BY <1>1
  <1>3. step \in Nat \ {0} /\ step < length
    <2>1. step = length \div chunks /\ step \in Nat \ {0}
      BY <1>1, <1>2 DEF Greater
    <2>2. 2 * step <= chunks * step
      <3>1. PICK more \in Nat : chunks = 2 + more
        <4>1. chunks - 2 \in Nat /\ chunks = 2 + (chunks - 2)
          OBVIOUS
        <4> QED
          BY <4>1
      <3>2. chunks * step = 2 * step + more * step /\ more * step \in Nat
        BY <2>1, <3>1
      <3> QED
        BY <2>1, <3>2
    <2>3. chunks * step \in Nat
      BY <2>1
    <2> HIDE DEF step
    <2> QED
      BY <1>1, <2>1, <2>2, <2>3
  <1>4. Split(length, chunks) = [i \in 1..parts |-> Lesser(step, length - (i - 1) * step)]
    BY DEF Split
  <1> HIDE DEF step
  <1>5. parts \in Nat /\ parts * step <= length + step - 1
    BY <1>3
  <1> HIDE DEF parts
  <1>6. ASSUME NEW i \in 1..parts
        PROVE  Lesser(step, length - (i - 1) * step) \in 1..(length - 1)
    <2>1. i * step <= parts * step
      BY <1>3, <1>5
    <2>2. (i - 1) * step = i * step - step
      BY <1>3, <1>5
    <2>3. i * step \in Int /\ parts * step \in Int
      BY <1>3, <1>5
    <2>4. 1 <= length - (i - 1) * step /\ length - (i - 1) * step \in Int
      BY <1>3, <1>5, <2>1, <2>2, <2>3
    <2> QED
      BY <1>3, <2>4 DEF Lesser
  <1>7. 1..(length - 1) \subseteq Int
    OBVIOUS
  <1> QED
    BY <1>4, <1>5, <1>6, <1>7

\* What is tried in the place of such a list is shorter than it and not empty.
LEMMA SubsetsAreProper ==
  ASSUME NEW length \in Nat \ {0}, NEW chunks \in 2..length
  PROVE  /\ Subsets(length, chunks) \in Seq(Int)
         /\ \A i \in DOMAIN Subsets(length, chunks) : Subsets(length, chunks)[i] \in 1..(length - 1)
  <1> DEFINE parts == Split(length, chunks)
             others == [k \in DOMAIN parts |-> length - parts[k]]
  <1>1. parts \in Seq(Int) /\ \A k \in DOMAIN parts : parts[k] \in 1..(length - 1)
    BY SplitIsProper
  <1>2. Subsets(length, chunks) = IF Len(parts) < 3 THEN parts ELSE parts \o others
    BY DEF Subsets
  <1> HIDE DEF parts
  <1>3. Len(parts) \in Nat /\ DOMAIN parts = 1..Len(parts)
    BY <1>1
  <1>4. /\ others \in Seq(Int) /\ Len(others) = Len(parts)
        /\ \A k \in 1..Len(parts) : others[k] \in 1..(length - 1)
    <2>1. \A k \in 1..Len(parts) : length - parts[k] \in Int /\ length - parts[k] \in 1..(length - 1)
      BY SMTT(30), <1>1, <1>3
    <2> QED
      BY <1>3, <2>1
  <1> HIDE DEF others
  <1>5. CASE Len(parts) < 3
    BY <1>1, <1>2, <1>5
  <1>6. CASE ~ (Len(parts) < 3)
    <2>1. Subsets(length, chunks) = parts \o others
      BY <1>2, <1>6
    <2>2. parts \o others \in Seq(Int) /\ Len(parts \o others) = Len(parts) + Len(others)
      <3>1. parts \in Seq(Int) /\ others \in Seq(Int)
        BY <1>1, <1>4
      <3> QED
        BY ONLY <3>1
    <2>3. ASSUME NEW i \in 1..(Len(parts) + Len(others))
          PROVE  (parts \o others)[i] \in 1..(length - 1)
      <3>1. CASE i <= Len(parts)
        <4>1. (parts \o others)[i] = parts[i] /\ i \in 1..Len(parts)
          BY <1>1, <1>3, <1>4, <3>1
        <4> QED
          BY <1>1, <1>3, <4>1
      <3>2. CASE ~ (i <= Len(parts))
        <4>1. /\ (parts \o others)[i] = others[i - Len(parts)]
              /\ i - Len(parts) \in 1..Len(parts)
          BY <1>1, <1>3, <1>4, <3>2
        <4> QED
          BY <1>4, <4>1
      <3> QED
        BY <3>1, <3>2
    <2> QED
      BY <2>1, <2>2, <2>3
  <1> QED
    BY <1>5, <1>6

\* A shrink makes progress at every step until it ends: the chunks and complements tried are
\* shorter than the argument and hold an element, those refused are not tried again, the
\* granularity only grows on one input, and every input tried is one of TRIES.
THEOREM ShrinksGetOn == Spec => ShrinksProgress
  <1> DEFINE Progress ==
        pc = "shrinking" /\ pc' = "shrinking" =>
          \/ input'.arg > input.arg
          \/ input'.arg = input.arg /\ input'.chunks > input.chunks
          \/ /\ input'.arg = input.arg /\ input'.tries < input.tries
             /\ \/ Length' \in 1..(Length - 1)
                \/ /\ input'.args = input.args /\ input'.chunks = input.chunks
                   /\ input'.at > input.at
  <1>1. ASSUME IInv, Next
        PROVE  Progress
    <2>1. ShrinkOK /\ input \in Input
      BY <1>1, Parts DEF ShrinkOK
    <2>2. CASE Try
      <3>1. Shrinkable /\ input.at <= Len(Trials) /\ input.tries > 0
        BY <2>2 DEF Try, Shrinkable
      <3>2. /\ input.arg \in DOMAIN input.args
            /\ Length \in Nat \ {0} /\ input.chunks \in 2..Length
            /\ input.args \in Seq(Int) /\ input.at # 0
        BY <2>1, <3>1, ShrinkableLength DEF ShrinkOK, Smaller, Shrinkable
      <3> DEFINE trial == Trials[input.at]
      <3>3. trial \in 1..(Length - 1)
        <4>1. /\ Trials \in Seq(Int)
              /\ \A i \in DOMAIN Trials : Trials[i] \in 1..(Length - 1)
          BY <3>2, SubsetsAreProper DEF Trials
        <4>2. input.at \in DOMAIN Trials
          BY <2>1, <3>1, <3>2, <4>1 DEF Input
        <4> QED
          BY <4>1, <4>2
      <3> HIDE DEF trial
      <3>4. PICK killed \in SUBSET standing :
              input' = IF StillKills(killed)
                       THEN [input EXCEPT !.tries = @ - 1, !.kills = killed, !.chunks = 2,
                                          !.at = 1, !.args[input.arg] = trial]
                       ELSE [input EXCEPT !.tries = @ - 1, !.at = @ + 1]
        BY <2>2 DEF Try, trial
      <3>5. input.tries - 1 < input.tries
        BY <2>1 DEF Input
      <3>6. CASE StillKills(killed)
        <4> DEFINE args == [input.args EXCEPT ![input.arg] = trial]
        <4>1. input' = [input EXCEPT !.tries = @ - 1, !.kills = killed, !.chunks = 2, !.at = 1,
                                     !.args = args]
          BY <3>4, <3>6
        <4>2. DOMAIN args = DOMAIN input.args /\ args[input.arg] = trial
          BY <3>2
        <4> HIDE DEF args
        <4>3. input'.args = args /\ input'.arg = input.arg /\ input'.tries = input.tries - 1
          BY <2>1, <4>1 DEF Input
        <4>4. Length' = trial
          BY <3>2, <4>2, <4>3 DEF Length
        <4> QED
          BY <3>3, <3>5, <4>3, <4>4
      <3>7. CASE ~ StillKills(killed)
        <4>1. /\ input'.args = input.args /\ input'.arg = input.arg
              /\ input'.chunks = input.chunks /\ input'.at = input.at + 1
              /\ input'.tries = input.tries - 1
          BY <2>1, <3>4, <3>7 DEF Input
        <4>2. input'.at > input.at
          BY <2>1, <4>1 DEF Input
        <4> QED
          BY <3>5, <4>1, <4>2
      <3> QED
        BY <3>6, <3>7
    <2>3. CASE Refine
      <3>1. /\ Length \in Nat /\ input.chunks \in 2..Length
            /\ input' = IF input.chunks >= Length
                        THEN [input EXCEPT !.arg = @ + 1, !.chunks = 2, !.at = 1]
                        ELSE [input EXCEPT !.chunks = Lesser(2 * @, Length), !.at = 1]
        BY <2>1, <2>3, ShrinkableLength DEF Refine
      <3>2. CASE input.chunks >= Length
        BY <2>1, <3>1, <3>2 DEF Input
      <3>3. CASE ~ (input.chunks >= Length)
        <4>1. /\ input'.arg = input.arg
              /\ input'.chunks = Lesser(2 * input.chunks, Length)
          BY <2>1, <3>1, <3>3 DEF Input
        <4>2. Lesser(2 * input.chunks, Length) > input.chunks
          BY <3>1, <3>3 DEF Lesser
        <4> QED
          BY <4>1, <4>2
      <3> QED
        BY <3>2, <3>3
    <2>4. CASE Skip
      BY <2>1, <2>4 DEF Skip, Input
    <2>5. CASE Declared \/ PassOver \/ Kill \/ EndPass \/ Keep \/ Fail
      BY <2>5 DEF Declared, PassOver, Kill, EndPass, Keep, Fail
    <2>6. CASE \E n \in 0..Proposals : \E cases \in [1..n -> SUBSET standing] : Round(cases)
      BY <2>6 DEF Round
    <2> QED
      BY <1>1, <2>2, <2>3, <2>4, <2>5, <2>6 DEF Next
  <1>2. IInv /\ [Next]_vars => [Progress]_vars
    BY <1>1
  <1>3. ShrinksProgress <=> [][Progress]_vars
    BY DEF ShrinksProgress
  <1> HIDE DEF Progress
  <1> QED
    BY <1>2, <1>3, LoopKeepsItsBooks, PTL DEF Spec

-----------------------------------------------------------------------------
(* The run of code.  Hardening takes what a case comes to as a choice; that *)
(* Runner, which makes it, tells the truth of it is proved here, for every  *)
(* cap, slack and number of cases and whatever a solution's plan is.  The   *)
(* sums above are those of its calls.                                       *)

PlanOK(p) ==
  /\ p.start \in Nat /\ p.load \in Nat /\ p.calls \in Seq(Nat) /\ p.calls # <<>>
  /\ p.end \in Ends /\ p.catches \in BOOLEAN
  /\ p.leaves \in {"nothing", "process", "thread"}

\* What the calls of a plan take, the first of them, and the alarm's share.
SumTo(s, k) == Total([i \in 1..k |-> s[i]])

Takes(p) == SumTo(p.calls, Len(p.calls))

Covers(p) == Takes(p) + Len(p.calls) * p.load

LEMMA OneCallMore ==
  ASSUME NEW s \in Seq(Nat), NEW k \in 1..Len(s)
  PROVE  /\ SumTo(s, k) = SumTo(s, k - 1) + s[k]
         /\ SumTo(s, k) \in Int /\ SumTo(s, k - 1) \in Int
  <1> DEFINE g == [i \in 1..(k - 1) |-> s[i]]
             h == [i \in 1..k |-> s[i]]
  <1>1. /\ g \in Seq(Int) /\ h \in Seq(Int) /\ Len(g) = k - 1 /\ Len(h) = k
        /\ k - 1 \in Nat /\ k \in Nat /\ \A i \in 1..k : s[i] \in Nat
    OBVIOUS
  <1>2. \A i \in 1..Len(g) : g[i] = h[i]
    BY <1>1
  <1>3. h[Len(h)] = s[k]
    BY <1>1
  <1>4. SumTo(s, k) = Total(h) /\ SumTo(s, k - 1) = Total(g)
    BY DEF SumTo
  <1> HIDE DEF g, h
  <1>5. Total(g) \in Int /\ Total(h) \in Int
    BY ONLY <1>1, TotalIsAnInteger
  <1>6. Len(h) = Len(g) + 1
    BY <1>1
  <1>7. Total(h) = Total(g) + h[Len(h)]
    BY ONLY <1>1, <1>2, <1>6, TotalOfOneMore
  <1> QED
    BY <1>3, <1>4, <1>5, <1>7

LEMMA NoCallYet ==
  ASSUME NEW s
  PROVE  SumTo(s, 0) = 0
  <1> DEFINE g == [i \in 1..0 |-> s[i]]
  <1>1. g \in Seq(Int) /\ Len(g) = 0
    OBVIOUS
  <1>2. SumTo(s, 0) = Total(g)
    BY DEF SumTo
  <1> HIDE DEF g
  <1> QED
    BY <1>1, <1>2, TotalOfNone

\* The first calls take no longer than all of them.
LEMMA FirstCallsTakeLess ==
  ASSUME NEW s \in Seq(Nat), NEW k \in 0..Len(s)
  PROVE  SumTo(s, k) \in Nat /\ SumTo(s, k) <= SumTo(s, Len(s)) /\ SumTo(s, Len(s)) \in Nat
  <1>1. \A j \in 0..Len(s) : SumTo(s, j) \in Nat
    <2> DEFINE Bad == {j \in 0..Len(s) : SumTo(s, j) \notin Nat}
    <2>1. SUFFICES ASSUME Bad # {} PROVE FALSE
      OBVIOUS
    <2>2. Bad \in SUBSET Nat
      OBVIOUS
    <2>3. PICK j \in Bad : \A y \in Bad : j <= y
      <3> HIDE DEF Bad
      <3> QED
        BY <2>1, <2>2, FirstFailure
    <2>4. j \in 0..Len(s) /\ SumTo(s, j) \notin Nat
      OBVIOUS
    <2>5. j # 0
      BY <2>4, NoCallYet
    <2>6. j - 1 \in 0..Len(s) /\ j - 1 \notin Bad /\ j \in 1..Len(s) /\ s[j] \in Nat
      BY <2>3, <2>4, <2>5
    <2>7. SumTo(s, j - 1) \in Nat
      BY <2>6
    <2>8. SumTo(s, j) = SumTo(s, j - 1) + s[j]
      BY <2>6, OneCallMore
    <2> QED
      BY <2>4, <2>6, <2>7, <2>8
  <1>2. \A j \in 0..Len(s) : SumTo(s, Len(s) - j) <= SumTo(s, Len(s))
    <2> DEFINE Bad == {j \in 0..Len(s) : ~ (SumTo(s, Len(s) - j) <= SumTo(s, Len(s)))}
    <2>1. SUFFICES ASSUME Bad # {} PROVE FALSE
      OBVIOUS
    <2>2. Bad \in SUBSET Nat
      OBVIOUS
    <2>3. PICK j \in Bad : \A y \in Bad : j <= y
      <3> HIDE DEF Bad
      <3> QED
        BY <2>1, <2>2, FirstFailure
    <2>4. j \in 0..Len(s) /\ ~ (SumTo(s, Len(s) - j) <= SumTo(s, Len(s)))
      OBVIOUS
    <2>5. Len(s) \in Nat /\ Len(s) - 0 = Len(s) /\ SumTo(s, Len(s)) \in Nat
      BY <1>1
    <2>6. j # 0
      BY <2>4, <2>5
    <2>7. j - 1 \in 0..Len(s) /\ j - 1 \notin Bad
      BY <2>3, <2>4, <2>6
    <2> DEFINE m == Len(s) - (j - 1)
    <2>8. m \in 1..Len(s) /\ m - 1 = Len(s) - j /\ s[m] \in Nat
      BY <2>4, <2>5, <2>6
    <2>9. SumTo(s, m) <= SumTo(s, Len(s))
      BY <2>7
    <2> HIDE DEF m
    <2>10. SumTo(s, m) = SumTo(s, m - 1) + s[m] /\ SumTo(s, m - 1) \in Int /\ SumTo(s, m) \in Int
      BY <2>8, OneCallMore
    <2>11. SumTo(s, m - 1) <= SumTo(s, Len(s))
      BY <2>5, <2>8, <2>9, <2>10
    <2> QED
      BY <2>4, <2>8, <2>11
  <1>3. Len(s) - k \in 0..Len(s) /\ Len(s) - (Len(s) - k) = k /\ Len(s) \in 0..Len(s)
    OBVIOUS
  <1> QED
    BY <1>1, <1>2, <1>3

LEMMA AllTheCalls ==
  ASSUME NEW s \in Seq(Nat)
  PROVE  Sum(s) = SumTo(s, Len(s))
  <1>1. s = [i \in 1..Len(s) |-> s[i]]
    OBVIOUS
  <1>2. Sum(s) = Total(s)
    BY DEF Sum, Total
  <1> QED
    BY <1>1, <1>2 DEF SumTo

-----------------------------------------------------------------------------
(* What is so of the process of a case.                                    *)

Pcs == {"none", "starting", "loading", "reloading", "solving", "called", "describing", "hangs",
        "stuck", "disarming", "encoding", "leaving", "dead"}

ChildRecord ==
  [pc : Pcs, left : Nat, call : Nat \ {0}, armed : BOOLEAN, timer : 0..Cap, elapsed : Nat,
   answer : {"none", "returns", "unencodable", "too_deep", "crashed", "timeout", "returned"},
   wrote : BOOLEAN, code : {"none", "signal", "exit"}, spawned : BOOLEAN]

Early == {"starting", "loading"}
Working == {"reloading", "solving", "called", "describing", "hangs", "stuck"}
Telling == {"encoding", "leaving", "dead"}

\* What of the alarm's share is behind a child: each call loads its module first.
Worked(p, c) ==
  IF c.pc = "reloading" THEN c.elapsed + (c.call - 1) * p.load + p.load - c.left
  ELSE IF c.pc = "solving" THEN c.elapsed + c.call * p.load + p.calls[c.call] - c.left
  ELSE IF c.pc = "called" THEN c.elapsed + (c.call - 1) * p.load
  ELSE Covers(p)

\* What a child holds at each place of its code.
ChildPlaced(p, c) ==
  /\ c.call <= Len(p.calls) + 1
  /\ c.left > 0 => c.pc \in {"starting", "loading", "reloading", "solving"}
  /\ c.pc \in Early => ~ c.armed /\ c.elapsed = 0 /\ c.call = 1
  /\ c.pc \in Early \cup Working => ~ c.wrote /\ c.answer = "none"
  /\ c.pc \in Working => /\ c.call <= Len(p.calls)
                         /\ c.elapsed = SumTo(p.calls, c.call - 1)
                         /\ c.armed \/ p.catches
  /\ c.pc = "describing" => p.end = "raises" /\ c.call = Len(p.calls)
  /\ c.pc \in {"hangs", "stuck"} => p.end = c.pc
  /\ c.pc \in {"disarming", "encoding"} =>
       ~ c.wrote /\ c.answer \in {"returns", "unencodable", "too_deep", "crashed", "timeout"}
  /\ c.pc = "disarming" => IF c.answer = "timeout" THEN ~ c.armed ELSE c.armed \/ p.catches
  /\ c.pc \in Telling => ~ c.armed
  /\ c.pc = "leaving" => c.wrote
  /\ c.wrote => c.pc \in Telling /\ c.answer \in {"returned", "crashed", "timeout"}

\* What its answer says of the plan, and what a death with none does.
ChildTells(p, c) ==
  /\ c.answer \in {"returns", "unencodable", "too_deep"} => p.end = c.answer
  /\ c.answer \in {"returns", "returned"} => p.end = "returns" /\ c.elapsed = Takes(p)
  /\ c.answer \in {"returns", "returned"} /\ c.pc \in Telling => Covers(p) <= Cap \/ p.catches
  /\ c.answer = "crashed" => p.end \in {"raises", "unloadable", "unencodable"}
  /\ c.answer = "timeout" => p.end = "hangs" \/ Covers(p) >= Cap
  /\ c.pc = "dead" /\ ~ c.wrote =>
       \/ c.code = "signal" /\ p.end = "killed"
       \/ c.code = "exit" /\ (p.end \in {"exits", "too_deep"} \/ Covers(p) = Cap)
  /\ c.spawned => p.leaves = "process"

\* The alarm has what is left of the cap.
AlarmRuns(p, c) ==
  c.armed /\ c.pc \in {"reloading", "solving", "called", "describing", "disarming"} =>
    c.timer + Worked(p, c) = Cap

\* Why the parent may come to give a case up.
Slow(p, b) ==
  \/ p.end \in {"hangs", "stuck"}
  \/ Covers(p) >= Cap
  \/ p.start + p.load + Covers(p) >= Deadline
  \/ b = "local" /\ p.leaves = "thread"
  \/ b = "entry" /\ p.leaves = "process" /\ p.end \in {"killed", "exits", "too_deep"}

\* The clock has what the child did, where nothing holds it up.
ClockRuns(p, c, b, t) ==
  /\ c.pc = "starting" => t + c.left = p.start
  /\ c.pc = "loading" => t + c.left = p.start + p.load
  /\ c.pc \in {"reloading", "solving", "called"} => t = p.start + p.load + Worked(p, c)
  /\ c.pc \in {"describing", "disarming"} \cup Telling =>
       Slow(p, b) \/ t <= p.start + p.load + Covers(p)

ChildInv(p, c) ==
  c \in ChildRecord /\ ChildPlaced(p, c) /\ ChildTells(p, c) /\ AlarmRuns(p, c)

\* What a verdict says of the plan it is about.
Tells(p, b, verdict) ==
  /\ verdict.outcome = "returned" =>
       p.end = "returns" /\ verdict.ms = Takes(p) /\ (Covers(p) <= Cap \/ p.catches)
  /\ verdict.outcome = "crashed" => p.end \in {"raises", "unloadable", "unencodable", "killed"}
  /\ verdict.outcome = "timeout" => Slow(p, b)

\* The inductive invariant.
RunnerInv ==
  /\ RunnerTypeOK /\ PlanOK(plan) /\ ChildInv(plan, child)
  /\ Ran => results # <<>> /\ Tells(plan, backend, Verdict)
  /\ parent = "fault" => plan.end \in {"exits", "too_deep"} \/ Covers(plan) = Cap
  /\ parent \in {"idle", "waiting", "joining"} => index <= Cases
  /\ parent = "idle" /\ index > 1 => results # <<>>
  /\ parent \in {"waiting", "joining"} => child.pc # "none"
  /\ parent = "waiting" => ClockRuns(plan, child, backend, clock)
  /\ parent = "joining" => Late

LEMMA Products ==
  ASSUME NEW a \in Nat, NEW b \in Nat, NEW x \in Nat, a <= b
  PROVE  a * x \in Nat /\ b * x \in Nat /\ a * x <= b * x /\ (a - 1) * x + x = a * x
         /\ (a - 1) * x \in Int
  <1>1. b - a \in Nat /\ b = a + (b - a)
    OBVIOUS
  <1>2. b * x = a * x + (b - a) * x
    BY <1>1
  <1>3. (b - a) * x \in Nat /\ a * x \in Nat /\ b * x \in Nat
    BY <1>1
  <1>4. (a - 1) * x + x = a * x /\ (a - 1) * x \in Int
    OBVIOUS
  <1> QED
    BY <1>2, <1>3, <1>4

LEMMA PlanNumbers ==
  ASSUME NEW p, PlanOK(p)
  PROVE  /\ p.start \in Nat /\ p.load \in Nat /\ Len(p.calls) \in Nat \ {0}
         /\ Takes(p) \in Nat /\ Covers(p) \in Nat /\ Len(p.calls) * p.load \in Nat
         /\ Covers(p) = Takes(p) + Len(p.calls) * p.load
  <1>1. /\ p.start \in Nat /\ p.load \in Nat /\ Len(p.calls) \in Nat /\ p.calls \in Seq(Nat)
        /\ p.calls # <<>>
    BY DEF PlanOK
  <1>2. Len(p.calls) # 0
    BY <1>1
  <1>3. Takes(p) \in Nat
    <2>1. Len(p.calls) \in 0..Len(p.calls)
      BY <1>1
    <2> QED
      BY <1>1, <2>1, FirstCallsTakeLess DEF Takes
  <1>4. Len(p.calls) * p.load \in Nat
    BY <1>1, Products
  <1> QED
    BY <1>1, <1>2, <1>3, <1>4 DEF Covers

\* What is behind a child at work: less than all it has to do.
LEMMA WorkedNumbers ==
  ASSUME NEW p, PlanOK(p), NEW c, ChildInv(p, c), c.pc \in {"reloading", "solving", "called"}
  PROVE  /\ Worked(p, c) \in Int /\ Worked(p, c) <= Covers(p)
         /\ c.call \in 1..Len(p.calls) /\ p.calls[c.call] \in Nat
         /\ c.call * p.load \in Nat /\ (c.call - 1) * p.load \in Int
         /\ (c.call - 1) * p.load + p.load = c.call * p.load
         /\ c.elapsed \in Nat /\ c.left \in Nat
         /\ SumTo(p.calls, c.call) = c.elapsed + p.calls[c.call]
  <1>1. /\ c \in ChildRecord /\ c.call <= Len(p.calls)
        /\ c.elapsed = SumTo(p.calls, c.call - 1)
    BY DEF ChildInv, ChildPlaced, Working
  <1>2. c.left \in Nat /\ c.elapsed \in Nat /\ c.call \in Nat \ {0}
    BY <1>1 DEF ChildRecord
  <1>3. /\ p.load \in Nat /\ Len(p.calls) \in Nat \ {0} /\ Takes(p) \in Nat
        /\ Len(p.calls) * p.load \in Nat /\ Covers(p) = Takes(p) + Len(p.calls) * p.load
    BY PlanNumbers
  <1>4. c.call \in 1..Len(p.calls) /\ p.calls \in Seq(Nat)
    BY <1>1, <1>2, <1>3 DEF PlanOK
  <1>5. SumTo(p.calls, c.call) = c.elapsed + p.calls[c.call] /\ p.calls[c.call] \in Nat
    BY SMTT(30), <1>1, <1>4, OneCallMore
  <1>6. /\ c.call * p.load \in Nat /\ c.call * p.load <= Len(p.calls) * p.load
        /\ (c.call - 1) * p.load + p.load = c.call * p.load /\ (c.call - 1) * p.load \in Int
    BY <1>1, <1>2, <1>3, Products
  <1>7. SumTo(p.calls, c.call) <= Takes(p)
    BY <1>4, FirstCallsTakeLess DEF Takes
  <1> DEFINE before == (c.call - 1) * p.load
             now == c.call * p.load
             all == Len(p.calls) * p.load
             upto == p.calls[c.call]
  <1>9. /\ before \in Int /\ now \in Nat /\ all \in Nat /\ upto \in Nat /\ now <= all
        /\ before + p.load = now /\ c.elapsed + upto <= Takes(p) /\ Covers(p) = Takes(p) + all
        /\ Takes(p) \in Nat /\ p.load \in Nat
    BY <1>3, <1>5, <1>6, <1>7
  <1>10. /\ c.pc = "reloading" => Worked(p, c) = c.elapsed + before + p.load - c.left
         /\ c.pc = "solving" => Worked(p, c) = c.elapsed + now + upto - c.left
         /\ c.pc = "called" => Worked(p, c) = c.elapsed + before
    BY DEF Worked
  <1> HIDE DEF before, now, all, upto
  <1>8. Worked(p, c) \in Int /\ Worked(p, c) <= Covers(p)
    <2>1. CASE c.pc = "reloading"
      BY ONLY <1>2, <1>9, <1>10, <2>1
    <2>2. CASE c.pc = "solving"
      BY ONLY <1>2, <1>9, <1>10, <2>2
    <2>3. CASE c.pc = "called"
      BY ONLY <1>2, <1>9, <1>10, <2>3
    <2> QED
      BY <2>1, <2>2, <2>3
  <1> QED
    BY <1>2, <1>4, <1>5, <1>6, <1>8

-----------------------------------------------------------------------------
(* Each step of the child, whoever is waiting for it.                      *)

\* A step of the child keeps what is so of it, and of the clock.
ChildKeeps(p, c, d) ==
  /\ ChildInv(p, d) /\ d.pc # "none"
  /\ \A b : \A t \in Nat : ClockRuns(p, c, b, t) => ClockRuns(p, d, b, t)

LEMMA IsolateKeeps ==
  ASSUME NEW p, PlanOK(p), NEW c, ChildInv(p, c), c.pc = "starting", c.left = 0,
         NEW d, d = [c EXCEPT !.pc = "loading", !.left = p.load]
  PROVE  ChildKeeps(p, c, d)
  <1>1. c \in ChildRecord /\ p.load \in Nat /\ p.start \in Nat
    BY PlanNumbers DEF ChildInv
  <1>2. d \in ChildRecord
    BY <1>1 DEF ChildRecord, Pcs
  <1>3. /\ d.pc = "loading" /\ d.left = p.load /\ d.call = c.call /\ d.armed = c.armed
        /\ d.elapsed = c.elapsed /\ d.answer = c.answer /\ d.wrote = c.wrote
        /\ d.spawned = c.spawned
    BY <1>1 DEF ChildRecord
  <1>4. ChildPlaced(p, d) /\ ChildTells(p, d) /\ AlarmRuns(p, d)
    BY <1>3 DEF ChildInv, ChildPlaced, ChildTells, AlarmRuns, Early, Working, Telling
  <1>5. ASSUME NEW b, NEW t \in Nat, ClockRuns(p, c, b, t)
        PROVE  ClockRuns(p, d, b, t)
    BY <1>1, <1>3, <1>5 DEF ClockRuns, Telling
  <1> QED
    BY <1>2, <1>3, <1>4, <1>5 DEF ChildInv, ChildKeeps

LEMMA UnloadableKeeps ==
  ASSUME NEW p, PlanOK(p), NEW c, ChildInv(p, c), c.pc = "loading", c.left = 0,
         p.end = "unloadable",
         NEW d, d = [c EXCEPT !.pc = "encoding", !.answer = "crashed"]
  PROVE  ChildKeeps(p, c, d)
  <1>1. /\ c \in ChildRecord /\ p.load \in Nat /\ p.start \in Nat /\ Covers(p) \in Nat
    BY PlanNumbers DEF ChildInv
  <1>2. d \in ChildRecord
    BY <1>1 DEF ChildRecord, Pcs
  <1>3. /\ d.pc = "encoding" /\ d.left = c.left /\ d.call = c.call /\ d.armed = c.armed
        /\ d.elapsed = c.elapsed /\ d.answer = "crashed" /\ d.wrote = c.wrote
        /\ d.spawned = c.spawned
    BY <1>1 DEF ChildRecord
  <1>4. ChildPlaced(p, d) /\ ChildTells(p, d) /\ AlarmRuns(p, d)
    BY <1>3 DEF ChildInv, ChildPlaced, ChildTells, AlarmRuns, Early, Working, Telling
  <1>5. ASSUME NEW b, NEW t \in Nat, ClockRuns(p, c, b, t)
        PROVE  ClockRuns(p, d, b, t)
    <2>1. t = p.start + p.load
      BY <1>1, <1>5 DEF ClockRuns
    <2> QED
      BY <1>1, <1>3, <2>1 DEF ClockRuns
  <1> QED
    BY <1>2, <1>3, <1>4, <1>5 DEF ChildInv, ChildKeeps

\* The first call sets the alarm, and nothing of its share is behind the child.
LEMMA FirstCallKeeps ==
  ASSUME NEW p, PlanOK(p), NEW c, ChildInv(p, c), c.pc = "loading", c.left = 0,
         Cap \in Nat,
         NEW d, d = [[c EXCEPT !.armed = TRUE, !.timer = Cap]
                       EXCEPT !.pc = "reloading", !.left = p.load]
  PROVE  ChildKeeps(p, c, d)
  <1>1. /\ c \in ChildRecord /\ p.load \in Nat /\ p.start \in Nat /\ Len(p.calls) \in Nat \ {0}
    BY PlanNumbers DEF ChildInv
  <1>2. d \in ChildRecord
    <2> DEFINE e == [c EXCEPT !.armed = TRUE, !.timer = Cap]
    <2>1. d = [e EXCEPT !.pc = "reloading", !.left = p.load]
      OBVIOUS
    <2>2. Cap \in 0..Cap
      OBVIOUS
    <2>3. e \in ChildRecord
      BY ONLY <1>1, <2>2 DEF ChildRecord
    <2> HIDE DEF e
    <2> QED
      BY ONLY <1>1, <2>1, <2>3 DEF ChildRecord, Pcs
  <1>3. /\ d.pc = "reloading" /\ d.left = p.load /\ d.call = c.call /\ d.armed = TRUE
        /\ d.timer = Cap /\ d.elapsed = c.elapsed /\ d.answer = c.answer /\ d.wrote = c.wrote
        /\ d.spawned = c.spawned
    BY <1>1 DEF ChildRecord
  <1>4. d.call = 1 /\ d.elapsed = 0 /\ ~ d.wrote /\ d.answer = "none"
        /\ (d.spawned => p.leaves = "process")
    BY <1>3 DEF ChildInv, ChildPlaced, ChildTells, Early
  <1>5. Worked(p, d) = 0
    <2>1. Worked(p, d) = 0 + (1 - 1) * p.load + p.load - p.load
      BY <1>3, <1>4 DEF Worked
    <2> QED
      BY <1>1, <2>1
  <1>6. d.elapsed = SumTo(p.calls, d.call - 1)
    BY <1>4, NoCallYet
  <1>7. ChildPlaced(p, d) /\ ChildTells(p, d) /\ AlarmRuns(p, d)
    BY <1>1, <1>3, <1>4, <1>5, <1>6 DEF ChildPlaced, ChildTells, AlarmRuns, Early, Working, Telling
  <1>8. ASSUME NEW b, NEW t \in Nat, ClockRuns(p, c, b, t)
        PROVE  ClockRuns(p, d, b, t)
    <2>1. t = p.start + p.load
      BY <1>1, <1>8 DEF ClockRuns
    <2> QED
      BY <1>1, <1>3, <1>5, <2>1 DEF ClockRuns, Telling
  <1> QED
    BY <1>2, <1>3, <1>7, <1>8 DEF ChildInv, ChildKeeps

LEMMA NextCallKeeps ==
  ASSUME NEW p, PlanOK(p), NEW c, ChildInv(p, c), c.pc = "called",
         NEW d, d = [c EXCEPT !.pc = "reloading", !.left = p.load]
  PROVE  ChildKeeps(p, c, d)
  <1>1. /\ c \in ChildRecord /\ p.load \in Nat /\ p.start \in Nat /\ Len(p.calls) \in Nat \ {0}
    BY PlanNumbers DEF ChildInv
  <1>2. d \in ChildRecord
    BY <1>1 DEF ChildRecord, Pcs
  <1>3. /\ d.pc = "reloading" /\ d.left = p.load /\ d.call = c.call /\ d.armed = c.armed
        /\ d.timer = c.timer /\ d.elapsed = c.elapsed /\ d.answer = c.answer /\ d.wrote = c.wrote
        /\ d.spawned = c.spawned
    BY <1>1 DEF ChildRecord
  <1>4. Worked(p, d) = Worked(p, c)
    <2>1. /\ Worked(p, d) = c.elapsed + (c.call - 1) * p.load + p.load - p.load
          /\ Worked(p, c) = c.elapsed + (c.call - 1) * p.load
      BY <1>3 DEF Worked
    <2>2. c.elapsed \in Nat /\ (c.call - 1) * p.load \in Int
      BY WorkedNumbers
    <2> QED
      BY <1>1, <2>1, <2>2
  <1>5. ChildPlaced(p, d) /\ ChildTells(p, d)
    BY <1>3 DEF ChildInv, ChildPlaced, ChildTells, Early, Working, Telling
  <1>6. AlarmRuns(p, d)
    BY <1>3, <1>4 DEF ChildInv, AlarmRuns
  <1>7. ASSUME NEW b, NEW t \in Nat, ClockRuns(p, c, b, t)
        PROVE  ClockRuns(p, d, b, t)
    BY <1>3, <1>4, <1>7 DEF ClockRuns, Telling
  <1> QED
    BY <1>2, <1>3, <1>5, <1>6, <1>7 DEF ChildInv, ChildKeeps

LEMMA SolveKeeps ==
  ASSUME NEW p, PlanOK(p), NEW c, ChildInv(p, c), c.pc = "reloading", c.left = 0,
         NEW d, d = [c EXCEPT !.pc = "solving", !.left = p.calls[c.call],
                              !.spawned = p.leaves = "process"]
  PROVE  ChildKeeps(p, c, d)
  <1>1. /\ c \in ChildRecord /\ p.load \in Nat /\ p.calls[c.call] \in Nat
        /\ c.elapsed \in Nat /\ c.call * p.load \in Nat /\ (c.call - 1) * p.load \in Int
        /\ (c.call - 1) * p.load + p.load = c.call * p.load
    BY PlanNumbers, WorkedNumbers DEF ChildInv
  <1>2. d \in ChildRecord
    BY <1>1 DEF ChildRecord, Pcs
  <1>3. /\ d.pc = "solving" /\ d.left = p.calls[c.call] /\ d.call = c.call /\ d.armed = c.armed
        /\ d.timer = c.timer /\ d.elapsed = c.elapsed /\ d.answer = c.answer /\ d.wrote = c.wrote
        /\ d.spawned = (p.leaves = "process")
    BY <1>1 DEF ChildRecord
  <1>4. Worked(p, d) = Worked(p, c)
    <2>1. /\ Worked(p, d) = c.elapsed + c.call * p.load + p.calls[c.call] - p.calls[c.call]
          /\ Worked(p, c) = c.elapsed + (c.call - 1) * p.load + p.load - 0
      BY <1>3 DEF Worked
    <2> QED
      BY <1>1, <2>1
  <1>5. ChildPlaced(p, d) /\ ChildTells(p, d)
    BY <1>3 DEF ChildInv, ChildPlaced, ChildTells, Early, Working, Telling
  <1>6. AlarmRuns(p, d)
    BY <1>3, <1>4 DEF ChildInv, AlarmRuns
  <1>7. ASSUME NEW b, NEW t \in Nat, ClockRuns(p, c, b, t)
        PROVE  ClockRuns(p, d, b, t)
    BY <1>3, <1>4, <1>7 DEF ClockRuns, Telling
  <1> QED
    BY <1>2, <1>3, <1>5, <1>6, <1>7 DEF ChildInv, ChildKeeps

\* A call ends: what is behind the child then.
LEMMA CallBehind ==
  ASSUME NEW p, PlanOK(p), NEW c, ChildInv(p, c), c.pc = "solving", c.left = 0
  PROVE  /\ c \in ChildRecord /\ p.load \in Nat /\ p.start \in Nat /\ Len(p.calls) \in Nat \ {0}
         /\ c.call \in 1..Len(p.calls) /\ p.calls[c.call] \in Nat /\ c.elapsed \in Nat
         /\ c.elapsed + p.calls[c.call] = SumTo(p.calls, c.call)
         /\ Worked(p, c) = c.elapsed + p.calls[c.call] + c.call * p.load
         /\ Worked(p, c) \in Int /\ Covers(p) \in Nat
         /\ c.call = Len(p.calls) =>
              Worked(p, c) = Covers(p) /\ c.elapsed + p.calls[c.call] = Takes(p)
  <1>1. /\ p.load \in Nat /\ p.start \in Nat /\ Len(p.calls) \in Nat \ {0} /\ c \in ChildRecord
        /\ Covers(p) \in Nat /\ Covers(p) = Takes(p) + Len(p.calls) * p.load /\ Takes(p) \in Nat
    BY PlanNumbers DEF ChildInv
  <1>2. /\ c.call \in 1..Len(p.calls) /\ p.calls[c.call] \in Nat /\ c.elapsed \in Nat
        /\ SumTo(p.calls, c.call) = c.elapsed + p.calls[c.call]
        /\ c.call * p.load \in Nat /\ Worked(p, c) \in Int
    BY WorkedNumbers
  <1>3. Worked(p, c) = c.elapsed + c.call * p.load + p.calls[c.call] - 0
    BY DEF Worked
  <1>4. Worked(p, c) = c.elapsed + p.calls[c.call] + c.call * p.load
    BY <1>2, <1>3
  <1>5. ASSUME c.call = Len(p.calls)
        PROVE  Worked(p, c) = Covers(p) /\ c.elapsed + p.calls[c.call] = Takes(p)
    <2>1. c.elapsed + p.calls[c.call] = Takes(p)
      BY <1>2, <1>5 DEF Takes
    <2> QED
      BY <1>1, <1>4, <1>5, <2>1
  <1> QED
    BY <1>1, <1>2, <1>4, <1>5

LEMMA ReturnsKeeps ==
  ASSUME NEW p, PlanOK(p), NEW c, ChildInv(p, c), c.pc = "solving", c.left = 0,
         NEW next, NEW answer,
         \/ c.call # Len(p.calls) /\ next = "called" /\ answer = "none"
         \/ /\ c.call = Len(p.calls) /\ next = "disarming" /\ answer = p.end
            /\ p.end \in {"returns", "unencodable", "too_deep"},
         NEW d, d = [c EXCEPT !.pc = next, !.elapsed = @ + p.calls[c.call], !.call = @ + 1,
                              !.answer = answer]
  PROVE  ChildKeeps(p, c, d)
  <1>1. /\ c \in ChildRecord /\ p.load \in Nat /\ p.start \in Nat /\ Len(p.calls) \in Nat \ {0}
        /\ c.call \in 1..Len(p.calls) /\ p.calls[c.call] \in Nat /\ c.elapsed \in Nat
        /\ c.elapsed + p.calls[c.call] = SumTo(p.calls, c.call)
        /\ Worked(p, c) = c.elapsed + p.calls[c.call] + c.call * p.load
        /\ Worked(p, c) \in Int /\ Covers(p) \in Nat
        /\ c.call = Len(p.calls) =>
              Worked(p, c) = Covers(p) /\ c.elapsed + p.calls[c.call] = Takes(p)
    BY CallBehind
  <1> DEFINE elapsed == c.elapsed + p.calls[c.call]
             call == c.call + 1
  <1>8. d = [c EXCEPT !.pc = next, !.elapsed = elapsed, !.call = call, !.answer = answer]
    OBVIOUS
  <1>10. c.elapsed \in Nat /\ p.calls[c.call] \in Nat /\ c.call \in Nat \ {0}
    BY <1>1 DEF ChildRecord
  <1>2. elapsed \in Nat /\ call \in Nat \ {0} /\ call - 1 = c.call
    BY ONLY <1>10
  <1> HIDE DEF elapsed, call
  <1>9. /\ next \in Pcs
        /\ answer \in {"none", "returns", "unencodable", "too_deep", "crashed", "timeout", "returned"}
    BY DEF Pcs
  <1>3. d \in ChildRecord
    BY ONLY <1>1, <1>2, <1>8, <1>9 DEF ChildRecord
  <1>4. /\ d.pc = next /\ d.left = c.left /\ d.call = call /\ d.armed = c.armed
        /\ d.timer = c.timer /\ d.elapsed = elapsed /\ d.answer = answer /\ d.wrote = c.wrote
        /\ d.spawned = c.spawned
    BY ONLY <1>1, <1>8 DEF ChildRecord
  <1>5. /\ ~ d.wrote /\ (d.armed \/ p.catches) /\ (d.spawned => p.leaves = "process")
        /\ d.left = 0 /\ d.call = c.call + 1 /\ d.call <= Len(p.calls) + 1
    BY <1>1, <1>4 DEF ChildInv, ChildPlaced, ChildTells, Working, call
  <1>6. CASE c.call # Len(p.calls) /\ next = "called" /\ answer = "none"
    <2>1. Worked(p, d) = Worked(p, c)
      <3>1. Worked(p, d) = elapsed + c.call * p.load
        BY <1>2, <1>4, <1>6 DEF Worked
      <3> QED
        BY <1>1, <3>1 DEF elapsed
    <2>2. d.elapsed = SumTo(p.calls, d.call - 1) /\ d.call <= Len(p.calls)
      BY SMTT(40), <1>1, <1>2, <1>4, <1>6 DEF elapsed
    <2>3. ChildPlaced(p, d) /\ ChildTells(p, d)
      BY <1>4, <1>5, <1>6, <2>2 DEF ChildPlaced, ChildTells, Early, Working, Telling
    <2>4. AlarmRuns(p, d)
      BY <1>4, <1>6, <2>1 DEF ChildInv, AlarmRuns
    <2>5. ASSUME NEW b, NEW t \in Nat, ClockRuns(p, c, b, t)
          PROVE  ClockRuns(p, d, b, t)
      BY <1>4, <1>6, <2>1, <2>5 DEF ClockRuns, Telling
    <2> QED
      BY <1>3, <1>4, <1>6, <2>3, <2>4, <2>5 DEF ChildInv, ChildKeeps
  <1>7. CASE /\ c.call = Len(p.calls) /\ next = "disarming" /\ answer = p.end
             /\ p.end \in {"returns", "unencodable", "too_deep"}
    <2>1. Worked(p, c) = Covers(p) /\ d.elapsed = Takes(p) /\ Worked(p, d) = Covers(p)
      BY <1>1, <1>4, <1>7 DEF elapsed, Worked
    <2>2. ChildPlaced(p, d) /\ ChildTells(p, d)
      BY <1>4, <1>5, <1>7, <2>1 DEF ChildPlaced, ChildTells, Early, Working, Telling
    <2>3. AlarmRuns(p, d)
      BY <1>4, <1>7, <2>1 DEF ChildInv, AlarmRuns
    <2>4. ASSUME NEW b, NEW t \in Nat, ClockRuns(p, c, b, t)
          PROVE  ClockRuns(p, d, b, t)
      <3>1. t = p.start + p.load + Covers(p)
        BY <2>1, <2>4 DEF ClockRuns
      <3> QED
        BY <1>1, <1>4, <1>7, <3>1 DEF ClockRuns, Telling
    <2> QED
      BY <1>3, <1>4, <1>7, <2>2, <2>3, <2>4 DEF ChildInv, ChildKeeps
  <1> QED
    BY <1>6, <1>7

LEMMA EndsKeeps ==
  ASSUME NEW p, PlanOK(p), NEW c, ChildInv(p, c), c.pc = "solving", c.left = 0,
         c.call = Len(p.calls),
         NEW next, \/ next = "describing" /\ p.end = "raises"
                   \/ next \in {"hangs", "stuck"} /\ p.end = next,
         NEW d, d = [c EXCEPT !.pc = next]
  PROVE  ChildKeeps(p, c, d)
  <1>1. /\ c \in ChildRecord /\ p.load \in Nat /\ p.start \in Nat
        /\ Worked(p, c) = Covers(p) /\ Covers(p) \in Nat
    BY CallBehind
  <1>2. d \in ChildRecord
    BY <1>1 DEF ChildRecord, Pcs
  <1>3. /\ d.pc = next /\ d.left = c.left /\ d.call = c.call /\ d.armed = c.armed
        /\ d.timer = c.timer /\ d.elapsed = c.elapsed /\ d.answer = c.answer /\ d.wrote = c.wrote
        /\ d.spawned = c.spawned
    BY <1>1 DEF ChildRecord
  <1>4. ChildPlaced(p, d) /\ ChildTells(p, d)
    BY <1>3 DEF ChildInv, ChildPlaced, ChildTells, Early, Working, Telling
  <1>5. Worked(p, d) = Covers(p)
    BY <1>3 DEF Worked
  <1>6. AlarmRuns(p, d)
    BY <1>1, <1>3, <1>5 DEF ChildInv, AlarmRuns
  <1>7. ASSUME NEW b, NEW t \in Nat, ClockRuns(p, c, b, t)
        PROVE  ClockRuns(p, d, b, t)
    <2>1. t = p.start + p.load + Covers(p)
      BY <1>1, <1>7 DEF ClockRuns
    <2> QED
      BY <1>1, <1>3, <2>1 DEF ClockRuns, Telling
  <1> QED
    BY <1>2, <1>3, <1>4, <1>6, <1>7 DEF ChildInv, ChildKeeps

\* The process dies with nothing written, of the plan or of an alarm come as the last call did.
LEMMA DiesKeeps ==
  ASSUME NEW p, PlanOK(p), NEW c, ChildInv(p, c),
         NEW code,
         \/ /\ c.pc = "solving" /\ c.left = 0 /\ c.call = Len(p.calls)
            /\ \/ p.end = "killed" /\ code = "signal"
               \/ p.end = "exits" /\ code = "exit"
         \/ c.pc = "encoding" /\ c.answer = "too_deep" /\ code = "exit"
         \/ c.pc = "leaving" /\ code = "exit"
         \/ c.pc \in {"describing", "disarming"} /\ c.armed /\ c.timer = 0 /\ code = "exit",
         NEW d, d = [c EXCEPT !.pc = "dead", !.armed = FALSE, !.code = code]
  PROVE  ChildKeeps(p, c, d)
  <1>1. /\ c \in ChildRecord /\ p.load \in Nat /\ p.start \in Nat /\ Covers(p) \in Nat
    BY PlanNumbers DEF ChildInv
  <1>2. d \in ChildRecord
    BY <1>1 DEF ChildRecord, Pcs
  <1>3. /\ d.pc = "dead" /\ d.left = c.left /\ d.call = c.call /\ d.armed = FALSE
        /\ d.timer = c.timer /\ d.elapsed = c.elapsed /\ d.answer = c.answer /\ d.wrote = c.wrote
        /\ d.spawned = c.spawned /\ d.code = code
    BY <1>1 DEF ChildRecord
  <1>4. c.pc \in {"describing", "disarming"} /\ c.armed /\ c.timer = 0 => Covers(p) = Cap
    <2>1. c.pc \in {"describing", "disarming"} => Worked(p, c) = Covers(p)
      BY DEF Worked
    <2> QED
      BY <1>1, <2>1 DEF ChildInv, AlarmRuns
  <1>5. ChildPlaced(p, d)
    BY <1>3 DEF ChildInv, ChildPlaced, Early, Working, Telling
  <1>6. ChildTells(p, d)
    BY <1>1, <1>3, <1>4 DEF ChildInv, ChildPlaced, ChildTells, Early, Working, Telling
  <1>7. AlarmRuns(p, d)
    BY <1>3 DEF AlarmRuns
  <1>8. ASSUME NEW b, NEW t \in Nat, ClockRuns(p, c, b, t)
        PROVE  ClockRuns(p, d, b, t)
    <2>1. Slow(p, b) \/ t <= p.start + p.load + Covers(p)
      <3>1. CASE c.pc = "solving" /\ c.left = 0 /\ c.call = Len(p.calls)
        <4>1. t = p.start + p.load + Covers(p)
          BY <1>8, <3>1, CallBehind DEF ClockRuns
        <4> QED
          BY <1>1, <4>1
      <3>2. CASE c.pc \in {"encoding", "leaving", "describing", "disarming"}
        BY <1>8, <3>2 DEF ClockRuns, Telling
      <3> QED
        BY <3>1, <3>2
    <2> QED
      BY <1>3, <2>1 DEF ClockRuns, Telling
  <1> QED
    BY <1>2, <1>3, <1>5, <1>6, <1>7, <1>8 DEF ChildInv, ChildKeeps

LEMMA DescribeKeeps ==
  ASSUME NEW p, PlanOK(p), NEW c, ChildInv(p, c), c.pc = "describing",
         NEW d, d = [c EXCEPT !.pc = "disarming", !.answer = "crashed"]
  PROVE  ChildKeeps(p, c, d)
  <1>1. c \in ChildRecord
    BY DEF ChildInv
  <1>2. d \in ChildRecord
    BY <1>1 DEF ChildRecord, Pcs
  <1>3. /\ d.pc = "disarming" /\ d.left = c.left /\ d.call = c.call /\ d.armed = c.armed
        /\ d.timer = c.timer /\ d.elapsed = c.elapsed /\ d.answer = "crashed"
        /\ d.wrote = c.wrote /\ d.spawned = c.spawned
    BY <1>1 DEF ChildRecord
  <1>4. ChildPlaced(p, d) /\ ChildTells(p, d)
    BY <1>3 DEF ChildInv, ChildPlaced, ChildTells, Early, Working, Telling
  <1>5. AlarmRuns(p, d)
    BY <1>3 DEF ChildInv, AlarmRuns, Worked
  <1>6. ASSUME NEW b, NEW t \in Nat, ClockRuns(p, c, b, t)
        PROVE  ClockRuns(p, d, b, t)
    BY <1>3, <1>6 DEF ClockRuns, Telling
  <1> QED
    BY <1>2, <1>3, <1>4, <1>5, <1>6 DEF ChildInv, ChildKeeps

\* Disarmed before it came due, the alarm had some of the cap left.
LEMMA DisarmKeeps ==
  ASSUME NEW p, PlanOK(p), NEW c, ChildInv(p, c), c.pc = "disarming", Cap \in Nat,
         NEW d, d = [c EXCEPT !.pc = "encoding", !.armed = FALSE]
  PROVE  ChildKeeps(p, c, d)
  <1>1. c \in ChildRecord /\ Covers(p) \in Nat /\ c.timer \in Nat
    BY PlanNumbers DEF ChildInv, ChildRecord
  <1>2. d \in ChildRecord
    BY <1>1 DEF ChildRecord, Pcs
  <1>3. /\ d.pc = "encoding" /\ d.left = c.left /\ d.call = c.call /\ d.armed = FALSE
        /\ d.timer = c.timer /\ d.elapsed = c.elapsed /\ d.answer = c.answer
        /\ d.wrote = c.wrote /\ d.spawned = c.spawned
    BY <1>1 DEF ChildRecord
  <1>4. c.armed => Covers(p) <= Cap
    <2>1. Worked(p, c) = Covers(p)
      BY DEF Worked
    <2>2. c.armed => c.timer + Covers(p) = Cap
      BY <2>1 DEF ChildInv, AlarmRuns
    <2> QED
      BY <1>1, <2>2
  <1>5. ChildPlaced(p, d)
    BY <1>3 DEF ChildInv, ChildPlaced, Early, Working, Telling
  <1>6. ChildTells(p, d) /\ AlarmRuns(p, d)
    BY <1>3, <1>4 DEF ChildInv, ChildPlaced, ChildTells, AlarmRuns, Telling
  <1>7. ASSUME NEW b, NEW t \in Nat, ClockRuns(p, c, b, t)
        PROVE  ClockRuns(p, d, b, t)
    BY <1>3, <1>7 DEF ClockRuns, Telling
  <1> QED
    BY <1>2, <1>3, <1>5, <1>6, <1>7 DEF ChildInv, ChildKeeps

LEMMA WritesKeeps ==
  ASSUME NEW p, PlanOK(p), NEW c, ChildInv(p, c), c.pc = "encoding", c.answer # "too_deep",
         NEW answer,
         answer = CASE c.answer = "returns" -> "returned" [] c.answer = "unencodable" -> "crashed"
                    [] OTHER -> c.answer,
         NEW d, d = [c EXCEPT !.pc = "leaving", !.wrote = TRUE, !.answer = answer]
  PROVE  ChildKeeps(p, c, d)
  <1>1. c \in ChildRecord
    BY DEF ChildInv
  <1>2. c.answer \in {"returns", "unencodable", "crashed", "timeout"}
    BY DEF ChildInv, ChildPlaced
  <1>3. /\ answer \in {"returned", "crashed", "timeout"}
        /\ answer = "returned" => c.answer = "returns"
        /\ answer = "crashed" => c.answer \in {"unencodable", "crashed"}
        /\ answer = "timeout" => c.answer = "timeout"
    BY <1>2
  <1>4. d \in ChildRecord
    BY ONLY <1>1, <1>3, d = [c EXCEPT !.pc = "leaving", !.wrote = TRUE, !.answer = answer]
       DEF ChildRecord, Pcs
  <1>5. /\ d.pc = "leaving" /\ d.left = c.left /\ d.call = c.call /\ d.armed = c.armed
        /\ d.timer = c.timer /\ d.elapsed = c.elapsed /\ d.answer = answer
        /\ d.wrote = TRUE /\ d.spawned = c.spawned
    BY ONLY <1>1, d = [c EXCEPT !.pc = "leaving", !.wrote = TRUE, !.answer = answer]
       DEF ChildRecord
  <1>6. ChildPlaced(p, d)
    BY <1>3, <1>5 DEF ChildInv, ChildPlaced, Early, Working, Telling
  <1>7. ChildTells(p, d) /\ AlarmRuns(p, d)
    BY <1>3, <1>5 DEF ChildInv, ChildTells, AlarmRuns, Telling
  <1>8. ASSUME NEW b, NEW t \in Nat, ClockRuns(p, c, b, t)
        PROVE  ClockRuns(p, d, b, t)
    BY <1>5, <1>8 DEF ClockRuns, Telling
  <1> QED
    BY <1>4, <1>5, <1>6, <1>7, <1>8 DEF ChildInv, ChildKeeps

\* The alarm in the solution's own code, which may catch it.
LEMMA ExpireKeeps ==
  ASSUME NEW p, PlanOK(p), NEW c, ChildInv(p, c), Cap \in Nat,
         c.armed, c.timer = 0, c.pc \in {"reloading", "solving", "called", "hangs"},
         NEW d,
         \/ p.catches /\ d = [c EXCEPT !.armed = FALSE]
         \/ d = [c EXCEPT !.pc = "disarming", !.left = 0, !.armed = FALSE, !.answer = "timeout"]
  PROVE  ChildKeeps(p, c, d)
  <1>1. c \in ChildRecord /\ p.start \in Nat /\ p.load \in Nat /\ Covers(p) \in Nat
    BY PlanNumbers DEF ChildInv
  <1>2. CASE p.catches /\ d = [c EXCEPT !.armed = FALSE]
    <2>1. d \in ChildRecord
      BY <1>1, <1>2 DEF ChildRecord, Pcs
    <2>2. /\ d.pc = c.pc /\ d.left = c.left /\ d.call = c.call /\ d.armed = FALSE
          /\ d.timer = c.timer /\ d.elapsed = c.elapsed /\ d.answer = c.answer
          /\ d.wrote = c.wrote /\ d.spawned = c.spawned
      BY <1>1, <1>2 DEF ChildRecord
    <2>3. ChildPlaced(p, d)
      BY <1>2, <2>2 DEF ChildInv, ChildPlaced, Early, Working, Telling
    <2>4. ChildTells(p, d) /\ AlarmRuns(p, d)
      BY <1>2, <2>2 DEF ChildInv, ChildTells, AlarmRuns, Telling
    <2>5. ASSUME NEW b, NEW t \in Nat, ClockRuns(p, c, b, t)
          PROVE  ClockRuns(p, d, b, t)
      <3>1. Worked(p, d) = Worked(p, c)
        BY <2>2 DEF Worked
      <3> QED
        BY <2>2, <2>5, <3>1 DEF ClockRuns
    <2> QED
      BY <2>1, <2>2, <2>3, <2>4, <2>5 DEF ChildInv, ChildKeeps
  <1>3. CASE d = [c EXCEPT !.pc = "disarming", !.left = 0, !.armed = FALSE, !.answer = "timeout"]
    <2>1. d \in ChildRecord
      BY ONLY <1>1, <1>3 DEF ChildRecord, Pcs
    <2>2. /\ d.pc = "disarming" /\ d.left = 0 /\ d.call = c.call /\ d.armed = FALSE
          /\ d.timer = c.timer /\ d.elapsed = c.elapsed /\ d.answer = "timeout"
          /\ d.wrote = c.wrote /\ d.spawned = c.spawned
      BY ONLY <1>1, <1>3 DEF ChildRecord
    <2>3. p.end = "hangs" \/ Covers(p) >= Cap
      <3>1. CASE c.pc = "hangs"
        BY <3>1 DEF ChildInv, ChildPlaced
      <3>2. CASE c.pc \in {"reloading", "solving", "called"}
        <4>1. 0 + Worked(p, c) = Cap
          BY <3>2 DEF ChildInv, AlarmRuns
        <4>2. Worked(p, c) \in Int /\ Worked(p, c) <= Covers(p)
          BY <3>2, WorkedNumbers
        <4> QED
          BY <1>1, <4>1, <4>2
      <3> QED
        BY <3>1, <3>2
    <2>4. ChildPlaced(p, d)
      BY <2>2 DEF ChildInv, ChildPlaced, Early, Working, Telling
    <2>5. ChildTells(p, d) /\ AlarmRuns(p, d)
      BY <2>2, <2>3 DEF ChildInv, ChildTells, AlarmRuns, Telling
    <2>6. \A b, t : ClockRuns(p, d, b, t)
      <3>1. \A b : Slow(p, b)
        BY <2>3 DEF Slow
      <3> QED
        BY <2>2, <3>1 DEF ClockRuns
    <2> QED
      BY <2>1, <2>2, <2>4, <2>5, <2>6 DEF ChildInv, ChildKeeps
  <1> QED
    BY <1>2, <1>3

-----------------------------------------------------------------------------
(* Time.                                                                   *)

LEMMA WorksOn ==
  ASSUME NEW p, PlanOK(p), NEW c, ChildInv(p, c), c.left > 0, c.pc \in {"reloading", "solving"},
         NEW timer, NEW d, d = [c EXCEPT !.left = c.left - 1, !.timer = timer]
  PROVE  Worked(p, d) = Worked(p, c) + 1
  <1>1. c \in ChildRecord
    BY DEF ChildInv
  <1>2. /\ c.elapsed \in Nat /\ c.left \in Nat /\ c.call * p.load \in Nat
        /\ (c.call - 1) * p.load \in Int /\ p.calls[c.call] \in Nat /\ p.load \in Nat
    BY WorkedNumbers, PlanNumbers
  <1> DEFINE before == (c.call - 1) * p.load
             now == c.call * p.load
             upto == p.calls[c.call]
  <1>3. d.pc = c.pc /\ d.left = c.left - 1 /\ d.elapsed = c.elapsed /\ d.call = c.call
    BY <1>1 DEF ChildRecord
  <1>4. CASE c.pc = "reloading"
    <2>1. /\ Worked(p, c) = c.elapsed + before + p.load - c.left
          /\ Worked(p, d) = c.elapsed + before + p.load - (c.left - 1)
      BY <1>3, <1>4 DEF Worked
    <2>2. before \in Int
      BY <1>2
    <2> HIDE DEF before
    <2> QED
      BY <1>2, <2>1, <2>2
  <1>5. CASE c.pc = "solving"
    <2>1. /\ Worked(p, c) = c.elapsed + now + upto - c.left
          /\ Worked(p, d) = c.elapsed + now + upto - (c.left - 1)
      BY <1>3, <1>5 DEF Worked
    <2>2. now \in Int /\ upto \in Nat
      BY <1>2
    <2> HIDE DEF now, upto
    <2> QED
      BY <1>2, <2>1, <2>2
  <1> QED
    BY <1>4, <1>5

LEMMA TickKeeps ==
  ASSUME NEW p, PlanOK(p), NEW c, ChildInv(p, c), Cap \in Nat,
         c.left > 0 \/ c.pc \in {"hangs", "stuck", "dead", "leaving"},
         ~ (c.armed /\ c.timer = 0
            /\ c.pc \in {"reloading", "solving", "called", "hangs", "describing", "disarming"}),
         NEW d, d = [c EXCEPT !.left = IF c.left > 0 THEN c.left - 1 ELSE 0,
                              !.timer = IF c.timer > 0 THEN c.timer - 1 ELSE 0]
  PROVE  /\ ChildInv(p, d) /\ d.pc = c.pc
         /\ \A b : \A t \in Nat :
              ClockRuns(p, c, b, t) /\ (c.pc \in {"dead", "leaving"} => Slow(p, b)) =>
                ClockRuns(p, d, b, t + 1)
  <1> DEFINE less == IF c.left > 0 THEN c.left - 1 ELSE 0
             timer == IF c.timer > 0 THEN c.timer - 1 ELSE 0
  <1>1. c \in ChildRecord /\ p.load \in Nat /\ p.start \in Nat
    BY PlanNumbers DEF ChildInv
  <1>2. c.left \in Nat /\ c.timer \in 0..Cap
    BY <1>1 DEF ChildRecord
  <1>3. less \in Nat /\ timer \in 0..Cap
    BY <1>2
  <1>4. d = [c EXCEPT !.left = less, !.timer = timer]
    OBVIOUS
  <1>5. /\ c.left > 0 => less = c.left - 1
        /\ c.left = 0 => less = 0
        /\ c.timer > 0 => timer = c.timer - 1
        /\ less > 0 => c.left > 0
    BY <1>2
  <1> HIDE DEF less, timer
  <1>6. d \in ChildRecord
    BY ONLY <1>1, <1>3, <1>4 DEF ChildRecord
  <1>7. /\ d.pc = c.pc /\ d.left = less /\ d.call = c.call /\ d.armed = c.armed
        /\ d.timer = timer /\ d.elapsed = c.elapsed /\ d.answer = c.answer
        /\ d.wrote = c.wrote /\ d.spawned = c.spawned /\ d.code = c.code
    BY ONLY <1>1, <1>4 DEF ChildRecord
  <1>8. ChildPlaced(p, d)
    BY ONLY <1>2, <1>5, <1>7, ChildInv(p, c) DEF ChildInv, ChildPlaced, Early, Working, Telling
  <1>9. ChildTells(p, d)
    BY ONLY <1>7, ChildInv(p, c) DEF ChildInv, ChildTells, Telling
  <1>10. c.left > 0 => c.pc \in {"starting", "loading", "reloading", "solving"}
    BY DEF ChildInv, ChildPlaced
  <1>11. c.left > 0 /\ c.pc \in {"reloading", "solving"} => Worked(p, d) = Worked(p, c) + 1
    <2>1. SUFFICES ASSUME c.left > 0, c.pc \in {"reloading", "solving"}
                   PROVE  Worked(p, d) = Worked(p, c) + 1
      OBVIOUS
    <2>2. d = [c EXCEPT !.left = c.left - 1, !.timer = timer]
      BY ONLY <1>4, <1>5, <2>1
    <2> QED
      BY ONLY PlanOK(p), ChildInv(p, c), <2>1, <2>2, WorksOn
  <1>12. c.pc \in {"reloading", "solving"} => Worked(p, c) \in Int
    BY WorkedNumbers
  <1>13. AlarmRuns(p, d)
    <2>1. SUFFICES ASSUME d.armed, d.pc \in {"reloading", "solving", "called", "describing", "disarming"}
                   PROVE  d.timer + Worked(p, d) = Cap
      BY DEF AlarmRuns
    <2>2. c.left > 0 /\ c.pc \in {"reloading", "solving"} /\ c.timer > 0
      BY <1>2, <1>7, <1>10, <2>1
    <2>3. c.timer + Worked(p, c) = Cap
      BY <1>7, <2>1, <2>2 DEF ChildInv, AlarmRuns
    <2> QED
      BY <1>2, <1>5, <1>7, <1>11, <1>12, <2>2, <2>3
  <1>14. ASSUME NEW b, NEW t \in Nat, ClockRuns(p, c, b, t),
                c.pc \in {"dead", "leaving"} => Slow(p, b)
         PROVE  ClockRuns(p, d, b, t + 1)
    <2>1. CASE c.pc \in {"starting", "loading"} /\ c.left > 0
      BY <1>1, <1>2, <1>5, <1>7, <1>14, <2>1 DEF ClockRuns, Telling
    <2>2. CASE c.pc \in {"reloading", "solving"} /\ c.left > 0
      <3>1. t = p.start + p.load + Worked(p, c)
        BY <1>14, <2>2 DEF ClockRuns
      <3>2. t + 1 = p.start + p.load + Worked(p, d)
        BY <1>1, <1>11, <1>12, <2>2, <3>1
      <3> QED
        BY <1>7, <2>2, <3>2 DEF ClockRuns, Telling
    <2>3. CASE c.pc \in {"hangs", "stuck", "dead", "leaving"}
      BY <1>7, <1>14, <2>3 DEF ClockRuns, Telling
    <2> QED
      BY <1>10, <2>1, <2>2, <2>3
  <1> QED
    BY <1>6, <1>7, <1>8, <1>9, <1>13, <1>14 DEF ChildInv

\* A case that is over the deadline is slow, wherever its process is.
LEMMA OverTheDeadline ==
  ASSUME NEW p, PlanOK(p), NEW c, ChildInv(p, c), c.pc # "none", NEW b,
         Deadline \in Nat, ClockRuns(p, c, b, Deadline)
  PROVE  Slow(p, b)
  <1>1. /\ c \in ChildRecord /\ p.load \in Nat /\ p.start \in Nat /\ Covers(p) \in Nat
    BY PlanNumbers DEF ChildInv
  <1>2. c.left \in Nat /\ c.pc \in Pcs
    BY <1>1 DEF ChildRecord
  <1>3. CASE c.pc \in {"starting", "loading"}
    <2>1. p.start + p.load >= Deadline
      BY <1>1, <1>2, <1>3 DEF ClockRuns
    <2> QED
      BY <1>1, <2>1 DEF Slow
  <1>4. CASE c.pc \in {"reloading", "solving", "called"}
    <2>1. Deadline = p.start + p.load + Worked(p, c)
      BY <1>4 DEF ClockRuns
    <2>2. Worked(p, c) \in Int /\ Worked(p, c) <= Covers(p)
      BY <1>4, WorkedNumbers
    <2> QED
      BY <1>1, <2>1, <2>2 DEF Slow
  <1>5. CASE c.pc \in {"describing", "disarming"} \cup Telling
    <2>1. Slow(p, b) \/ Deadline <= p.start + p.load + Covers(p)
      BY <1>5 DEF ClockRuns
    <2> QED
      BY <1>1, <2>1 DEF Slow
  <1>6. CASE c.pc \in {"hangs", "stuck"}
    BY <1>6 DEF ChildInv, ChildPlaced, Slow
  <1> QED
    BY <1>2, <1>3, <1>4, <1>5, <1>6 DEF Pcs, Telling

-----------------------------------------------------------------------------
(* Each step of the run.                                                   *)

LEMMA ChildGoesOn ==
  ASSUME RunnerInv, Alone, child.pc # "none",
         ChildKeeps(plan, child, child')
  PROVE  RunnerInv'
  <1>1. /\ backend' = backend /\ stopEarly' = stopEarly /\ index' = index /\ results' = results
        /\ plan' = plan /\ parent' = parent /\ clock' = clock
    BY DEF Alone, run
  <1>2. RunnerTypeOK /\ parent \in {"waiting", "joining"}
    BY DEF RunnerInv, RunnerTypeOK
  <1>3. ChildInv(plan, child') /\ child'.pc # "none"
    BY DEF ChildKeeps
  <1>4. child'.timer \in 0..Cap /\ child'.call \in 1..Len(plan.calls) + 1
    <2>1. child'.timer \in 0..Cap /\ child'.call \in Nat \ {0}
      BY <1>3 DEF ChildInv, ChildRecord
    <2>2. child'.call <= Len(plan.calls) + 1 /\ Len(plan.calls) \in Nat
      BY <1>3, PlanNumbers DEF ChildInv, ChildPlaced, RunnerInv
    <2> QED
      BY <2>1, <2>2
  <1>5. RunnerTypeOK'
    BY <1>1, <1>2, <1>4 DEF RunnerTypeOK
  <1>6. parent = "waiting" => ClockRuns(plan, child', backend, clock)
    <2>1. clock \in Nat
      BY RunnerAssumption, <1>2 DEF RunnerTypeOK, Deadline, RunnerAssumption
    <2> QED
      BY <2>1 DEF ChildKeeps, RunnerInv
  <1>7. ~ Ran' /\ parent # "fault" /\ parent # "idle"
    BY <1>1, <1>2 DEF Ran
  <1>8. Late' <=> Late
    BY <1>1 DEF Late
  <1> QED
    BY <1>1, <1>2, <1>3, <1>5, <1>6, <1>7, <1>8 DEF RunnerInv

LEMMA ChildMoves ==
  ASSUME RunnerInv,
         \/ Isolate \/ Unloadable \/ Call \/ Solve \/ EndCall \/ Describe \/ Disarm
         \/ Encode \/ Leave \/ Expire
  PROVE  RunnerInv'
  <1>1. PlanOK(plan) /\ ChildInv(plan, child) /\ Cap \in Nat
    BY RunnerAssumption DEF RunnerInv, RunnerAssumption
  <1>2. SUFFICES Alone /\ child.pc # "none" /\ ChildKeeps(plan, child, child')
    BY ChildGoesOn
  <1>3. CASE Isolate
    BY <1>1, <1>3, IsolateKeeps DEF Isolate, Is
  <1>4. CASE Unloadable
    BY <1>1, <1>4, UnloadableKeeps DEF Unloadable, Is
  <1>5. CASE Call
    <2>1. CASE child.pc = "loading"
      <3>1. child' = [[child EXCEPT !.armed = TRUE, !.timer = Cap]
                        EXCEPT !.pc = "reloading", !.left = plan.load]
        BY <1>5, <2>1 DEF Call, Armed
      <3> QED
        BY <1>1, <1>5, <2>1, <3>1, FirstCallKeeps DEF Call, Is
    <2>2. CASE child.pc = "called"
      <3>1. child' = [child EXCEPT !.pc = "reloading", !.left = plan.load]
        BY <1>5, <2>2 DEF Call, Armed
      <3> QED
        BY <1>1, <1>5, <2>2, <3>1, NextCallKeeps DEF Call, Is
    <2> QED
      BY <1>5, <2>1, <2>2 DEF Call, Is
  <1>6. CASE Solve
    BY <1>1, <1>6, SolveKeeps DEF Solve, Is
  <1>7. CASE EndCall
    <2>1. child.pc = "solving" /\ child.left = 0 /\ Alone
      BY <1>7 DEF EndCall, Is
    <2>2. CASE ~ LastCall /\ Returned("called", "none")
      BY <1>1, <2>1, <2>2, ReturnsKeeps DEF Returned, LastCall
    <2>3. CASE LastCall /\ plan.end \in {"returns", "unencodable", "too_deep"}
               /\ Returned("disarming", plan.end)
      BY <1>1, <2>1, <2>3, ReturnsKeeps DEF Returned, LastCall
    <2>4. CASE LastCall /\ plan.end = "raises" /\ child' = [child EXCEPT !.pc = "describing"]
      BY <1>1, <2>1, <2>4, EndsKeeps DEF LastCall
    <2>5. CASE LastCall /\ plan.end = "killed" /\ Dies("signal")
      BY <1>1, <2>1, <2>5, DiesKeeps DEF LastCall, Dies
    <2>6. CASE LastCall /\ plan.end = "exits" /\ Dies("exit")
      BY <1>1, <2>1, <2>6, DiesKeeps DEF LastCall, Dies
    <2>7. CASE LastCall /\ plan.end \in {"hangs", "stuck"}
               /\ child' = [child EXCEPT !.pc = plan.end]
      BY <1>1, <2>1, <2>7, EndsKeeps DEF LastCall
    <2> QED
      BY <1>7, <2>1, <2>2, <2>3, <2>4, <2>5, <2>6, <2>7 DEF EndCall
  <1>8. CASE Describe
    BY <1>1, <1>8, DescribeKeeps DEF Describe, Is
  <1>9. CASE Disarm
    BY <1>1, <1>9, DisarmKeeps DEF Disarm, Is
  <1>10. CASE Encode
    <2>1. child.pc = "encoding" /\ Alone
      BY <1>10 DEF Encode, Is
    <2>2. CASE child.answer = "too_deep" /\ Dies("exit")
      BY <1>1, <2>1, <2>2, DiesKeeps DEF Dies
    <2>3. CASE child.answer # "too_deep" /\ ~ Dies("exit")
      BY <1>1, <1>10, <2>1, <2>3, WritesKeeps DEF Encode
    <2>4. CASE child.answer # "too_deep" /\ Dies("exit")
      BY <1>1, <1>10, <2>1, <2>4, WritesKeeps DEF Encode
    <2> QED
      BY <1>10, <2>2, <2>3, <2>4 DEF Encode
  <1>11. CASE Leave
    BY <1>1, <1>11, DiesKeeps DEF Leave, Is, Dies
  <1>12. CASE Expire
    <2>1. child.armed /\ child.timer = 0 /\ Alone
      BY <1>12 DEF Expire, Due
    <2>2. CASE child.pc \in Code
      BY <1>1, <1>12, <2>1, <2>2, ExpireKeeps DEF Expire, Code, Caught
    <2>3. CASE child.pc \notin Code
      <3>1. child.pc \in {"describing", "disarming"} /\ Dies("exit")
        BY <1>12, <2>3 DEF Expire, Due
      <3> QED
        BY <1>1, <2>1, <3>1, DiesKeeps DEF Dies
    <2> QED
      BY <2>2, <2>3
  <1> QED
    BY <1>3, <1>4, <1>5, <1>6, <1>7, <1>8, <1>9, <1>10, <1>11, <1>12

LEMMA TimePasses ==
  ASSUME RunnerInv, Tick
  PROVE  RunnerInv'
  <1>1. PlanOK(plan) /\ ChildInv(plan, child) /\ Cap \in Nat /\ Deadline \in Nat /\ RunnerTypeOK
    BY RunnerAssumption DEF RunnerInv, RunnerAssumption, Deadline
  <1>2. /\ backend' = backend /\ stopEarly' = stopEarly /\ index' = index /\ results' = results
        /\ plan' = plan /\ parent' = parent /\ parent \in {"waiting", "joining"}
    BY DEF Tick, run
  <1>3. /\ child.left > 0 \/ child.pc \in {"hangs", "stuck", "dead", "leaving"}
        /\ ~ (child.armed /\ child.timer = 0
              /\ child.pc \in {"reloading", "solving", "called", "hangs", "describing", "disarming"})
    BY DEF Tick, Computes, Lingers, Due, Code
  <1>4. child' = [child EXCEPT !.left = IF child.left > 0 THEN child.left - 1 ELSE 0,
                               !.timer = IF child.timer > 0 THEN child.timer - 1 ELSE 0]
    BY DEF Tick
  <1>5. /\ ChildInv(plan, child') /\ child'.pc = child.pc
        /\ \A b : \A t \in Nat :
             ClockRuns(plan, child, b, t) /\ (child.pc \in {"dead", "leaving"} => Slow(plan, b)) =>
               ClockRuns(plan, child', b, t + 1)
    BY ONLY ZenonT(40), <1>1, <1>3, <1>4, TickKeeps
  <1>6. child'.timer \in 0..Cap /\ child'.call \in 1..Len(plan.calls) + 1
    <2>1. child'.timer \in 0..Cap /\ child'.call \in Nat \ {0}
      BY <1>5 DEF ChildInv, ChildRecord
    <2>2. child'.call <= Len(plan.calls) + 1 /\ Len(plan.calls) \in Nat
      BY <1>1, <1>5, PlanNumbers DEF ChildInv, ChildPlaced
    <2> QED
      BY <2>1, <2>2
  <1>7. clock \in 0..Deadline /\ clock' = IF clock < Deadline THEN clock + 1 ELSE clock
    BY <1>1 DEF RunnerTypeOK, Tick
  <1>8. clock' \in 0..Deadline
    BY <1>1, <1>7
  <1>9. RunnerTypeOK'
    BY <1>1, <1>2, <1>6, <1>8 DEF RunnerTypeOK
  <1>10. parent = "waiting" => ClockRuns(plan, child', backend, clock')
    <2>1. SUFFICES ASSUME parent = "waiting"
                   PROVE  ClockRuns(plan, child', backend, clock')
      OBVIOUS
    <2>2. /\ clock # Deadline /\ ~ Whole /\ ~ Silent
          /\ child.pc = "leaving" => backend = "local" /\ plan.leaves = "thread"
      <3>1. clock # Deadline /\ ~ Whole /\ ~ Silent
        BY <2>1 DEF Tick, Expired, Answers
      <3>2. child.pc = "leaving" => child.left = 0
        BY <1>1 DEF ChildInv, ChildPlaced, ChildRecord
      <3> QED
        BY <3>1, <3>2 DEF Tick, Computes, Lingers
    <2>3. clock \in Nat /\ clock' = clock + 1
      BY <1>1, <1>7, <2>2
    <2>4. child.pc \in {"dead", "leaving"} => Slow(plan, backend)
      <3>1. CASE child.pc = "leaving"
        BY <2>2, <3>1 DEF Slow
      <3>2. CASE child.pc = "dead"
        <4>1. ~ child.wrote
          BY <2>2, <3>2 DEF Whole
        <4>2. backend = "entry" /\ child.spawned
          BY <2>2, <3>2, <4>1 DEF Silent
        <4>3. /\ plan.leaves = "process"
              /\ plan.end \in {"killed", "exits", "too_deep"} \/ Covers(plan) = Cap
          BY <1>1, <3>2, <4>1, <4>2 DEF ChildInv, ChildTells
        <4> QED
          BY <1>1, <4>2, <4>3 DEF Slow
      <3> QED
        BY <3>1, <3>2
    <2>5. ClockRuns(plan, child, backend, clock)
      BY <2>1 DEF RunnerInv
    <2> QED
      BY <1>5, <2>3, <2>4, <2>5
  <1>11. ~ Ran' /\ parent # "fault" /\ parent # "idle"
    BY <1>2 DEF Ran
  <1>12. Late' <=> Late
    BY <1>2 DEF Late
  <1>13. child'.pc # "none"
    BY <1>2, <1>5 DEF RunnerInv
  <1> QED
    BY <1>1, <1>2, <1>5, <1>9, <1>10, <1>11, <1>12, <1>13 DEF RunnerInv

\* No case at hand.
LEMMA NoChildHolds ==
  ASSUME Cap \in Nat
  PROVE  /\ NoChild \in ChildRecord
         /\ NoChild.pc = "none" /\ NoChild.left = 0 /\ NoChild.call = 1
         /\ NoChild.armed = FALSE /\ NoChild.timer = 0 /\ NoChild.elapsed = 0
         /\ NoChild.answer = "none" /\ NoChild.wrote = FALSE /\ NoChild.code = "none"
         /\ NoChild.spawned = FALSE
  <1>1. "none" \in Pcs /\ 0 \in 0..Cap
    BY DEF Pcs
  <1> QED
    BY <1>1 DEF NoChild, ChildRecord

\* A process no step has been taken by, or what is left of one.
Fresh(c) ==
  /\ c \in ChildRecord /\ c.pc \in {"none", "starting"} /\ (c.pc = "none" => c.left = 0)
  /\ c.call = 1 /\ ~ c.armed /\ c.timer = 0 /\ c.elapsed = 0 /\ c.answer = "none" /\ ~ c.wrote

LEMMA FreshChild ==
  ASSUME Cap \in Nat, NEW p, PlanOK(p), NEW c, Fresh(c), c.spawned => p.leaves = "process"
  PROVE  ChildInv(p, c) /\ c.timer \in 0..Cap /\ c.call \in 1..Len(p.calls) + 1
  <1>1. Len(p.calls) \in Nat \ {0}
    BY PlanNumbers
  <1>2. ChildPlaced(p, c)
    BY <1>1 DEF Fresh, ChildPlaced, Early, Working, Telling, ChildRecord
  <1>3. ChildTells(p, c) /\ AlarmRuns(p, c)
    BY DEF Fresh, ChildTells, AlarmRuns
  <1> QED
    BY <1>1, <1>2, <1>3 DEF Fresh, ChildInv

\* A case is recorded, the one at hand, with what is so of its plan.
LEMMA Recorded ==
  ASSUME RunnerInv, parent \in {"waiting", "joining"},
         NEW outcome \in {"returned", "crashed", "timeout"}, NEW ms \in Nat,
         Tells(plan, backend, [outcome |-> outcome, ms |-> ms]),
         NEW spawned \in BOOLEAN,
         spawned => Late /\ plan.leaves = "process",
         NEW remains,
         \/ remains = NoChild /\ spawned = FALSE
         \/ remains = [NoChild EXCEPT !.spawned = spawned],
         Record(outcome, ms, remains)
  PROVE  RunnerInv'
  <1> DEFINE verdict == [outcome |-> outcome, ms |-> ms]
             Verdicts == [outcome : {"returned", "crashed", "timeout"}, ms : Nat]
  <1>1. /\ RunnerTypeOK /\ PlanOK(plan) /\ index <= Cases
        /\ Cap \in Nat /\ Cases \in Nat \ {0} /\ Deadline \in Nat
    BY RunnerAssumption DEF RunnerInv, RunnerAssumption, Deadline
  <1>2. /\ backend' = backend /\ stopEarly' = stopEarly /\ plan' = plan /\ clock' = clock
        /\ index' = index + 1 /\ child' = remains
        /\ results' = (IF index = 0 THEN results ELSE Append(results, verdict))
        /\ parent' = (IF Stops(outcome) THEN "done" ELSE "idle")
    BY DEF Record
  <1>3. /\ remains \in ChildRecord
        /\ remains.pc = "none" /\ remains.left = 0 /\ remains.call = 1 /\ ~ remains.armed
        /\ remains.timer = 0 /\ remains.answer = "none" /\ ~ remains.wrote
        /\ remains.code = "none" /\ remains.spawned = spawned /\ remains.elapsed = 0
    BY <1>1, NoChildHolds DEF ChildRecord
  <1>4. ChildInv(plan, remains) /\ 1 \in 1..Len(plan.calls) + 1
    <2>1. Fresh(remains) /\ (remains.spawned => plan.leaves = "process")
      BY <1>3 DEF Fresh
    <2> QED
      BY <1>1, <1>3, <2>1, FreshChild
  <1>5. index \in 0..Cases
    BY <1>1 DEF RunnerTypeOK
  <1>6. index' \in 0..Cases + 1 /\ (parent' = "idle" => index' <= Cases)
    BY <1>1, <1>2, <1>5 DEF Stops
  <1>7. results \in Seq(Verdicts) /\ verdict \in Verdicts
    BY <1>1 DEF RunnerTypeOK
  <1>8. /\ results' \in Seq(Verdicts)
        /\ index # 0 => results' # <<>> /\ results'[Len(results')] = verdict
    <2> HIDE DEF Verdicts, verdict
    <2>1. CASE index = 0
      BY ONLY <1>2, <1>7, <2>1
    <2>2. CASE index # 0
      <3>1. results' = Append(results, verdict)
        BY ONLY <1>2, <2>2
      <3>2. /\ Append(results, verdict) \in Seq(Verdicts) /\ Append(results, verdict) # <<>>
            /\ Append(results, verdict)[Len(Append(results, verdict))] = verdict
        BY ONLY <1>7
      <3> QED
        BY ONLY <3>1, <3>2
    <2> QED
      BY ONLY <2>1, <2>2
  <1>9. Late' <=> Late
    BY <1>2 DEF Late
  <1>10. parent' \in {"done", "idle"}
    BY <1>2
  <1>11. RunnerTypeOK'
    <2>1. 0 \in 0..Cap
      BY <1>1
    <2> QED
      BY <1>1, <1>2, <1>3, <1>4, <1>6, <1>8, <1>9, <1>10, <2>1 DEF RunnerTypeOK
  <1>12. Ran' => results' # <<>> /\ Tells(plan, backend, Verdict)'
    <2>1. SUFFICES ASSUME Ran' PROVE results' # <<>> /\ Tells(plan, backend, Verdict)'
      OBVIOUS
    <2>2. index # 0
      BY <1>2, <1>5, <2>1 DEF Ran
    <2>3. Verdict' = verdict
      BY <1>8, <2>2 DEF Verdict
    <2> QED
      BY <1>2, <1>8, <2>2, <2>3
  <1>13. parent' = "idle" /\ index' > 1 => results' # <<>>
    BY <1>2, <1>5, <1>8
  <1> QED
    BY <1>1, <1>2, <1>3, <1>4, <1>6, <1>10, <1>11, <1>12, <1>13 DEF RunnerInv

LEMMA ParentMoves ==
  ASSUME RunnerInv,
         Written \/ Died \/ Fault \/ GiveUp \/ Join
  PROVE  RunnerInv'
  <1>1. /\ RunnerTypeOK /\ PlanOK(plan) /\ ChildInv(plan, child)
        /\ Cap \in Nat /\ Deadline \in Nat
    BY RunnerAssumption DEF RunnerInv, RunnerAssumption, Deadline
  <1>2. child \in ChildRecord /\ child.elapsed \in Nat /\ child.spawned \in BOOLEAN
    BY <1>1 DEF ChildInv, ChildRecord
  <1>4. CASE Written
    <2>1. /\ parent = "waiting" /\ child.wrote
          /\ Record(child.answer, child.elapsed, NoChild)
      BY <1>4 DEF Written, Whole, Killed
    <2>2. child.answer \in {"returned", "crashed", "timeout"} /\ child.pc \in Telling
      BY <1>1, <2>1 DEF ChildInv, ChildPlaced
    <2>3. Tells(plan, backend, [outcome |-> child.answer, ms |-> child.elapsed])
      BY <1>1, <2>2 DEF ChildInv, ChildTells, Tells, Slow
    <2> QED
      BY <1>2, <2>1, <2>2, <2>3, Recorded
  <1>5. CASE Died
    <2>1. /\ parent = "waiting" /\ child.pc = "dead" /\ ~ child.wrote /\ child.code = "signal"
          /\ Record("crashed", 0, NoChild)
      BY <1>5 DEF Died, Silent, Killed
    <2>2. plan.end = "killed"
      BY <1>1, <2>1 DEF ChildInv, ChildTells
    <2>3. Tells(plan, backend, [outcome |-> "crashed", ms |-> 0])
      BY <2>2 DEF Tells
    <2> QED
      BY <2>1, <2>3, Recorded
  <1>6. CASE Fault
    <2>1. /\ parent = "waiting" /\ child.pc = "dead" /\ ~ child.wrote /\ child.code = "exit"
          /\ parent' = "fault" /\ child' = NoChild
          /\ backend' = backend /\ stopEarly' = stopEarly /\ index' = index
          /\ results' = results /\ plan' = plan /\ clock' = clock
      BY <1>6 DEF Fault, Silent, Killed, run
    <2>2. plan.end \in {"exits", "too_deep"} \/ Covers(plan) = Cap
      BY <1>1, <2>1 DEF ChildInv, ChildTells
    <2>3. /\ NoChild.pc = "none" /\ NoChild.call = 1 /\ NoChild.timer = 0
          /\ NoChild.spawned = FALSE
      BY <1>1, NoChildHolds
    <2>4. Fresh(NoChild)
      BY <1>1, NoChildHolds DEF Fresh
    <2>5. ChildInv(plan, NoChild) /\ 0 \in 0..Cap /\ 1 \in 1..Len(plan.calls) + 1
      BY <1>1, <2>3, <2>4, FreshChild
    <2>7. RunnerTypeOK'
      BY <1>1, <2>1, <2>3, <2>5 DEF RunnerTypeOK
    <2>8. ~ Ran'
      BY <2>1 DEF Ran
    <2> QED
      BY <1>1, <2>1, <2>2, <2>5, <2>7, <2>8 DEF RunnerInv
  <1>7. CASE GiveUp
    <2>1. parent = "waiting" /\ clock = Deadline
      BY <1>7 DEF GiveUp, Expired
    <2>2. ClockRuns(plan, child, backend, Deadline) /\ child.pc # "none"
      BY <2>1 DEF RunnerInv
    <2>3. CASE backend = "local" /\ child.pc = "starting"
      <3>1. /\ parent' = "joining" /\ child' = child
            /\ backend' = backend /\ stopEarly' = stopEarly /\ index' = index
            /\ results' = results /\ plan' = plan /\ clock' = clock
        BY <1>7, <2>3 DEF GiveUp, run
      <3>2. Late
        <4>1. Deadline + child.left = plan.start
          BY <2>2, <2>3 DEF ClockRuns
        <4>2. child.left \in Nat /\ plan.start \in Nat
          BY <1>1, <1>2, PlanNumbers DEF ChildRecord
        <4> QED
          BY <1>1, <2>3, <4>1, <4>2 DEF Late
      <3>3. Late' /\ RunnerTypeOK' /\ ~ Ran'
        BY <1>1, <3>1, <3>2 DEF Late, RunnerTypeOK, Ran
      <3>4. index <= Cases
        BY <2>1 DEF RunnerInv
      <3> QED
        BY <1>1, <2>2, <3>1, <3>3, <3>4 DEF RunnerInv
    <2>4. CASE ~ (backend = "local" /\ child.pc = "starting")
      <3>1. Record("timeout", 0, NoChild)
        BY <1>7, <2>4 DEF GiveUp, Killed
      <3>2. Slow(plan, backend)
        BY <1>1, <2>2, OverTheDeadline
      <3>3. Tells(plan, backend, [outcome |-> "timeout", ms |-> 0])
        BY <3>2 DEF Tells
      <3> QED
        BY <2>1, <3>1, <3>3, Recorded
    <2> QED
      BY <2>3, <2>4
  <1>8. CASE Join
    <2>1. /\ parent = "joining" /\ Late
          /\ Record("timeout", 0, [NoChild EXCEPT !.spawned = child.spawned])
      BY <1>8 DEF Join, RunnerInv
    <2>2. Slow(plan, backend)
      <3>1. plan.start \in Nat /\ plan.load \in Nat /\ Covers(plan) \in Nat
        BY <1>1, PlanNumbers
      <3> QED
        BY <1>1, <2>1, <3>1 DEF Late, Slow
    <2>3. Tells(plan, backend, [outcome |-> "timeout", ms |-> 0])
      BY <2>2 DEF Tells
    <2>4. child.spawned => plan.leaves = "process"
      BY <1>1 DEF ChildInv, ChildTells
    <2> QED
      BY <1>2, <2>1, <2>3, <2>4, Recorded
  <1> QED
    BY <1>4, <1>5, <1>6, <1>7, <1>8

LEMMA PlansAreRuns ==
  PlanOK(WarmUp) /\ \A p \in Plans : PlanOK(p)
  <1>1. PlanOK(WarmUp)
    <2>1. <<0>> \in Seq(Nat) /\ <<0>> # <<>>
      OBVIOUS
    <2> QED
      BY <2>1 DEF PlanOK, WarmUp, Ends
  <1>2. \A p \in Plans : PlanOK(p)
    BY RunnerAssumption DEF PlanOK, RunnerAssumption
  <1> QED
    BY <1>1, <1>2

LEMMA RunStarts ==
  ASSUME RunnerInit
  PROVE  RunnerInv
  <1>1. /\ Cap \in Nat /\ Cases \in Nat \ {0} /\ Deadline \in Nat
    BY RunnerAssumption DEF RunnerAssumption, Deadline
  <1>2. plan = WarmUp /\ child = NoChild /\ parent = "idle" /\ results = <<>> /\ clock = 0
        /\ index \in {0, 1} /\ backend \in {"local", "entry"} /\ stopEarly \in BOOLEAN
    BY DEF RunnerInit
  <1>3. PlanOK(plan)
    BY <1>2, PlansAreRuns
  <1>5. /\ ChildInv(plan, child) /\ child.pc = "none" /\ child.timer \in 0..Cap
        /\ ~ child.spawned /\ child.call \in 1..Len(plan.calls) + 1
    <2>1. Fresh(child) /\ child.pc = "none" /\ ~ child.spawned
      BY <1>1, <1>2, NoChildHolds DEF Fresh
    <2> QED
      BY <1>1, <1>3, <2>1, FreshChild
  <1>6. index \in 0..Cases + 1 /\ index <= Cases /\ clock \in 0..Deadline /\ ~ (index > 1)
    BY <1>1, <1>2
  <1>7. RunnerTypeOK /\ ~ Ran
    BY <1>2, <1>5, <1>6 DEF RunnerTypeOK, Ran
  <1> QED
    BY <1>2, <1>3, <1>5, <1>6, <1>7 DEF RunnerInv

LEMMA CaseStarts ==
  ASSUME RunnerInv, Unrunnable \/ Fork
  PROVE  RunnerInv'
  <1>1. /\ RunnerTypeOK /\ PlanOK(plan) /\ ChildInv(plan, child)
        /\ Cap \in Nat /\ Deadline \in Nat /\ Cases \in Nat \ {0} /\ index <= Cases
    BY RunnerAssumption DEF RunnerInv, RunnerAssumption, Deadline, Unrunnable, Fork
  <1>2. CASE Unrunnable
    <2>1. /\ parent = "idle" /\ results = <<>> /\ parent' = "done"
          /\ results' = [i \in 1..Cases |-> [outcome |-> "crashed", ms |-> 0]]
          /\ backend' = backend /\ stopEarly' = stopEarly /\ index' = index /\ plan' = plan
          /\ child' = child /\ clock' = clock
      BY <1>2 DEF Unrunnable
    <2>2. ~ (index > 1)
      BY <2>1 DEF RunnerInv
    <2>3. results' \in Seq([outcome : {"returned", "crashed", "timeout"}, ms : Nat])
      BY <1>1, <2>1
    <2>4. RunnerTypeOK' /\ ~ Ran'
      BY <1>1, <2>1, <2>2, <2>3 DEF RunnerTypeOK, Ran, Late
    <2> QED
      BY <1>1, <2>1, <2>4 DEF RunnerInv
  <1>3. CASE Fork
    <2>1. /\ parent = "idle" /\ parent' = "waiting" /\ clock' = 0
          /\ plan' \in {WarmUp} \cup Plans
          /\ child' = [NoChild EXCEPT !.pc = "starting", !.left = plan'.start]
          /\ backend' = backend /\ stopEarly' = stopEarly /\ index' = index
          /\ results' = results
      BY <1>3 DEF Fork
    <2>2. PlanOK(plan') /\ plan'.start \in Nat
      BY <2>1, PlansAreRuns, PlanNumbers
    <2>3. /\ ChildInv(plan', child') /\ child'.pc = "starting" /\ child'.timer \in 0..Cap
          /\ child'.call \in 1..Len(plan'.calls) + 1 /\ child'.left = plan'.start
      <3>1. Fresh(child') /\ child'.pc = "starting" /\ child'.left = plan'.start /\ ~ child'.spawned
        BY <1>1, <2>1, <2>2, NoChildHolds DEF Fresh, ChildRecord, Pcs
      <3> QED
        BY <1>1, <2>2, <3>1, FreshChild
    <2>4. ClockRuns(plan', child', backend', clock')
      BY <2>1, <2>2, <2>3 DEF ClockRuns, Telling
    <2>5. 0 \in 0..Deadline
      BY <1>1
    <2>6. RunnerTypeOK' /\ ~ Ran'
      BY <1>1, <2>1, <2>3, <2>5 DEF RunnerTypeOK, Ran
    <2> QED
      BY <1>1, <2>1, <2>2, <2>3, <2>4, <2>6 DEF RunnerInv
  <1> QED
    BY <1>2, <1>3

-----------------------------------------------------------------------------
(* The theorems.                                                           *)

LEMMA RunnerStep ==
  ASSUME RunnerInv, [RunnerNext]_runnerVars
  PROVE  RunnerInv'
  <1>1. CASE RunnerNext
    BY <1>1, ChildMoves, TimePasses, ParentMoves, CaseStarts DEF RunnerNext
  <1>2. CASE UNCHANGED runnerVars
    <2>1. /\ backend' = backend /\ stopEarly' = stopEarly /\ index' = index /\ results' = results
          /\ parent' = parent /\ plan' = plan /\ child' = child /\ clock' = clock
      BY <1>2 DEF runnerVars
    <2>2. RunnerTypeOK' /\ (Ran' <=> Ran) /\ Verdict' = Verdict /\ (Late' <=> Late)
      BY <2>1 DEF RunnerTypeOK, Ran, Verdict, Late, RunnerInv
    <2> QED
      BY <2>1, <2>2 DEF RunnerInv
  <1> QED
    BY <1>1, <1>2

\* Every run keeps its parent and its child to their places: what the alarm
\* has left and what the clock has counted are what the child's work explains.
THEOREM RunsGoByTheirPlans == RunnerSpec => []RunnerInv
  <1>1. RunnerInit => RunnerInv
    BY RunStarts
  <1>2. RunnerInv /\ [RunnerNext]_runnerVars => RunnerInv'
    BY RunnerStep
  <1> QED
    BY <1>1, <1>2, PTL DEF RunnerSpec

\* The runner's state is what runner/execution.py and runner/child.py keep,
\* and no case meets a process of the one before it, unless the engine's child
\* was past the deadline before it had a group of its own to be killed with.
THEOREM RunnerTypeCorrect == RunnerSpec => []RunnerTypeOK
  <1>1. RunnerInv => RunnerTypeOK
    BY DEF RunnerInv
  <1> QED
    BY <1>1, RunsGoByTheirPlans, PTL

LEMMA VerdictFollows ==
  ASSUME RunnerInv
  PROVE  VerdictIsTrue
  <1>1. plan.calls \in Seq(Nat) /\ Covers(plan) \in Nat /\ Cap \in Nat /\ Deadline \in Nat
    BY RunnerAssumption, PlanNumbers DEF RunnerInv, PlanOK, RunnerAssumption, Deadline
  <1>2. Spent = Takes(plan) /\ Covered = Covers(plan)
    BY <1>1, AllTheCalls DEF Spent, Covered, Takes, Covers
  <1> DEFINE Verdicts == [outcome : {"returned", "crashed", "timeout"}, ms : Nat]
  <1>3. ASSUME Ran
        PROVE  /\ Verdict.outcome \in {"returned", "crashed", "timeout"}
               /\ Tells(plan, backend, Verdict)
    <2>1. results \in Seq(Verdicts)
      BY DEF RunnerInv, RunnerTypeOK
    <2>2. results # <<>> /\ Tells(plan, backend, Verdict)
      BY <1>3 DEF RunnerInv
    <2>3. Verdict \in Verdicts
      <3> HIDE DEF Verdicts
      <3>1. results[Len(results)] \in Verdicts
        BY ONLY <2>1, <2>2
      <3> QED
        BY <3>1 DEF Verdict
    <2> QED
      BY <2>2, <2>3
  <1>4. parent = "fault" => plan.end \in {"exits", "too_deep"} \/ Covers(plan) = Cap
    BY DEF RunnerInv
  <1>5. Covered \in Nat
    BY <1>1, <1>2
  <1> QED
    BY <1>2, <1>3, <1>4, <1>5 DEF VerdictIsTrue, Tells, Slow

\* What a case comes to is what its solution did, whichever of the two timers
\* fired and whoever was first (_collected and _waited of
\* runner/execution.py, the alarm of runner/child.py): whatever the cap, the
\* slack, the number of cases and the plans.
THEOREM VerdictsAreTrue == RunnerSpec => []VerdictIsTrue
  <1>1. RunnerInv => VerdictIsTrue
    BY VerdictFollows
  <1> QED
    BY <1>1, RunsGoByTheirPlans, PTL
=============================================================================
