---------------------------- MODULE WritingProofs ----------------------------
(***************************************************************************)
(* Theorems about Writing, for every bench, bound and limit.               *)
(***************************************************************************)
EXTENDS Writing, TLAPS

(***************************************************************************)
(* What the operators on drafts return.                                    *)
(***************************************************************************)

\* The draft a write revises is a draft, at the further of two states.
LEMMA LaterType ==
  ASSUME NEW one \in OrderStates, NEW other \in OrderStates
  PROVE  /\ Later(one, other) \in {one, other}
         /\ Later(one, other) \in OrderStates
  BY DEF Later

LEMMA AdvancedType ==
  ASSUME NEW d \in Draft, d.state \in OrderStates, NEW state \in OrderStates
  PROVE  /\ Advanced(d, state) \in Draft
         /\ Advanced(d, state).state = Later(d.state, state)
         /\ Advanced(d, state).state \in OrderStates
         /\ Advanced(d, state).answers = d.answers
         /\ Advanced(d, state).cases = d.cases
         /\ Advanced(d, state).separating = d.separating
         /\ Advanced(d, state).loop = d.loop
  BY LaterType DEF Advanced, Draft, States

LEMMA RejectedType ==
  ASSUME NEW d \in Draft
  PROVE  /\ Rejected(d) \in Draft
         /\ Rejected(d).state = "rejected"
  BY DEF Rejected, Draft, States

LEMMA AnsweredType ==
  ASSUME NEW d \in Draft, NEW site \in Sites, NEW config \in Configs, paid \in Nat
  PROVE  /\ Answered(d, site, config) \in Draft
         /\ Answered(d, site, config).state = d.state
         /\ Answered(d, site, config).answers[site].call = paid + 1
         /\ Answered(d, site, config).cases = d.cases
         /\ Answered(d, site, config).separating = d.separating
         /\ Answered(d, site, config).loop = d.loop
         /\ \A s \in Sites \ {site} :
              Answered(d, site, config).answers[s] = d.answers[s]
  BY DEF Answered, Draft, Answer

\* A resume starts at a step of the order.
LEMMA StartsAtType ==
  ASSUME NEW d \in Draft, d.state \in OrderStates, NEW bench, NEW speedup,
         NEW bounds
  PROVE  StartsAt(d, bench, speedup, bounds) \in OrderStates
  <1>1. NextStep(d) \in OrderStates
    BY DEF NextStep, Order, Rank, OrderStates
  <1> QED
    BY <1>1 DEF StartsAt, OrderStates

\* What a local run reads is the calls it was run over.
LEMMA EvidentType ==
  ASSUME run \in Run
  PROVE  Evident \in Evidence /\ Evident.blind = run.draft.answers["blind"].call
  BY DEF Evident, Evidence, Run, Draft, Answer, Sites

LEMMA SettledType ==
  ASSUME NEW d \in Draft
  PROVE  /\ Settled(d) \in Draft
         /\ Settled(d).state = d.state
         /\ Settled(d).answers = d.answers
         /\ Settled(d).cases = d.answers["blind"].call
  BY DEF Settled, Draft, Answer, Sites

LEMMA SearchedType ==
  ASSUME NEW d \in Draft, d.state \in OrderStates, NEW case \in Evidence,
         NEW reason \in Reasons, run \in Run
  PROVE  /\ Searched(d, case, reason) \in Draft
         /\ Searched(d, case, reason).state = Later(d.state, "searched")
         /\ Searched(d, case, reason).state \in OrderStates
         /\ Searched(d, case, reason).answers = d.answers
         /\ Searched(d, case, reason).cases = d.cases
         /\ Searched(d, case, reason).separating = case
         /\ Searched(d, case, reason).loop = d.loop
  <1> DEFINE e == [d EXCEPT !.separating = case, !.unseparated = reason,
                            !.walked = run.bounds]
  <1>1. /\ e \in Draft /\ e.state = d.state /\ e.answers = d.answers
        /\ e.cases = d.cases /\ e.separating = case /\ e.loop = d.loop
    BY DEF Draft, Run
  <1>2. "searched" \in OrderStates
    BY DEF OrderStates
  <1> HIDE DEF e
  <1>3. /\ Advanced(e, "searched") \in Draft
        /\ Advanced(e, "searched").state = Later(e.state, "searched")
        /\ Advanced(e, "searched").state \in OrderStates
        /\ Advanced(e, "searched").answers = e.answers
        /\ Advanced(e, "searched").cases = e.cases
        /\ Advanced(e, "searched").separating = e.separating
        /\ Advanced(e, "searched").loop = e.loop
    BY <1>1, <1>2, AdvancedType
  <1> QED
    BY <1>1, <1>3 DEF Searched, e

LEMMA HardenedType ==
  ASSUME NEW d \in Draft, d.state \in OrderStates, NEW answer \in Answer,
         run \in Run
  PROVE  /\ Hardened(d, answer) \in Draft
         /\ Hardened(d, answer).state = Later(d.state, "hardened")
         /\ Hardened(d, answer).state \in OrderStates
         /\ Hardened(d, answer).answers["blind"] = d.answers["blind"]
         /\ Hardened(d, answer).cases = d.cases
         /\ Hardened(d, answer).separating = d.separating
         /\ Hardened(d, answer).loop = Evident
  <1> DEFINE e == [d EXCEPT !.loop = Evident,
                      !.answers = [@ EXCEPT !["discrimination"] = answer]]
  <1>1. /\ e \in Draft /\ e.state = d.state
        /\ e.answers["blind"] = d.answers["blind"]
        /\ e.cases = d.cases /\ e.separating = d.separating /\ e.loop = Evident
    BY EvidentType DEF Draft, Sites
  <1>2. "hardened" \in OrderStates
    BY DEF OrderStates
  <1> HIDE DEF e
  <1>3. /\ Advanced(e, "hardened") \in Draft
        /\ Advanced(e, "hardened").state = Later(e.state, "hardened")
        /\ Advanced(e, "hardened").state \in OrderStates
        /\ Advanced(e, "hardened").answers = e.answers
        /\ Advanced(e, "hardened").cases = e.cases
        /\ Advanced(e, "hardened").separating = e.separating
        /\ Advanced(e, "hardened").loop = e.loop
    BY <1>1, <1>2, AdvancedType
  <1> QED
    BY <1>1, <1>3 DEF Hardened, e

(***************************************************************************)
(* Type correctness.  The type invariant is not inductive: a write takes   *)
(* its state from the order, which the copy of a run at work is in, and an *)
(* answer takes its configuration from the bench the run was started at.   *)
(***************************************************************************)

TypeInv ==
  /\ TypeOK
  /\ run.step # "idle" => run.bench \in Benches /\ run.bounds \in Bounds

LEMMA TypeInit == Init => TypeInv
  <1> SUFFICES ASSUME Init PROVE TypeInv
    OBVIOUS
  <1>1. NoDraft \in Draft
    BY DEF NoDraft, Draft, NoAnswer, Answer, NoCase, Evidence, Reasons
  <1>2. Idle \in Run
    BY <1>1 DEF Idle, Run, OrderStates, NoBench
  <1>3. Idle.step = "idle" /\ <<>> \in Seq(Problem)
    BY DEF Idle
  <1> QED
    BY <1>1, <1>2, <1>3 DEF Init, TypeInv, TypeOK

\* The answers of a bench come from its configurations.
LEMMA BenchType ==
  ASSUME NEW bench \in Benches, NEW s \in Sites
  PROVE  bench[s] \in Configs
  BY BenchAssumption

\* A draft written by a run at work keeps the types and the order.
LEMMA WriteType ==
  ASSUME TypeInv, run.step # "idle", NEW d \in Draft, d.state \in OrderStates,
         NEW step \in Steps, Write(d, step), UNCHANGED <<corpus, runs>>,
         paid' \in Nat
  PROVE  TypeInv'
  BY DEF TypeInv, TypeOK, Write, Run, Steps

LEMMA RejectType ==
  ASSUME TypeInv, run.step # "idle", Reject, UNCHANGED <<corpus, runs>>
  PROVE  TypeInv'
  BY RejectedType DEF TypeInv, TypeOK, Reject, Run, Steps

LEMMA StopType ==
  ASSUME TypeInv, run.step # "idle", Stop, UNCHANGED <<corpus, runs>>
  PROVE  TypeInv'
  BY DEF TypeInv, TypeOK, Stop, Run, Steps

LEMMA GoType ==
  ASSUME TypeInv, run.step \notin {"idle", "finish"}, NEW step \in Steps,
         Go(step), UNCHANGED <<corpus, runs>>
  PROVE  TypeInv'
  BY DEF TypeInv, TypeOK, Go, Run, Steps

LEMMA IdleType ==
  ASSUME TypeInv, run' = Idle, stored' \in Draft, UNCHANGED <<corpus, paid, runs>>
  PROVE  TypeInv'
  <1>1. NoDraft \in Draft
    BY DEF NoDraft, Draft, NoAnswer, Answer, NoCase, Evidence, Reasons
  <1>2. Idle \in Run /\ Idle.step = "idle"
    BY <1>1 DEF Idle, Run, OrderStates, NoBench
  <1> QED
    BY <1>2 DEF TypeInv, TypeOK

LEMMA StartingType ==
  ASSUME NEW d \in Draft, d.state \in OrderStates, NEW start \in OrderStates,
         NEW bench \in Benches, NEW speedup \in BOOLEAN, NEW bounds \in Bounds
  PROVE  LET r == Starting(d, start, bench, speedup, bounds) IN
         /\ r \in Run
         /\ r.step = "check" /\ r.draft = d /\ r.start = start
         /\ r.bench = bench /\ r.speedup = speedup /\ r.bounds = bounds
         /\ ~ r.stopped
  <1>1. NoDraft \in Draft
    BY DEF NoDraft, Draft, NoAnswer, Answer, NoCase, Evidence, Reasons
  <1> QED
    BY <1>1 DEF Starting, Idle, Run, Steps

LEMMA TypeStep == TypeInv /\ [Next]_vars => TypeInv'
  <1> SUFFICES ASSUME TypeInv, [Next]_vars PROVE TypeInv'
    OBVIOUS
  <1> USE DEF TypeInv, TypeOK
  <1>1. ASSUME NEW bench \in Benches, NEW speedup \in BOOLEAN,
               NEW bounds \in Bounds, Begin(bench, speedup, bounds)
        PROVE  TypeInv'
    <2>1. stored' \in Draft /\ stored'.state = "drafted"
      BY <1>1 DEF Begin, NoDraft, Draft, States, OrderStates, NoAnswer, Answer,
                  NoCase, Evidence, Reasons
    <2>2. "checked" \in OrderStates /\ "drafted" \in OrderStates
      BY DEF OrderStates
    <2>3. /\ run' \in Run /\ run'.step = "check" /\ run'.draft = stored'
          /\ run'.bench = bench /\ run'.bounds = bounds
      <3>1. run' = Starting(stored', "checked", bench, speedup, bounds)
        BY <1>1 DEF Begin
      <3>2. stored' \in Draft /\ stored'.state \in OrderStates
        BY <2>1, <2>2
      <3> QED
        BY <1>1, <2>2, <3>1, <3>2, StartingType
    <2>4. corpus' \in Seq(Problem) /\ paid' \in Nat /\ runs' \in Nat
      BY <1>1 DEF Begin
    <2> QED
      BY <2>1, <2>2, <2>3, <2>4
  <1>2. ASSUME NEW bench \in Benches, NEW speedup \in BOOLEAN,
               NEW bounds \in Bounds, Resume(bench, speedup, bounds)
        PROVE  TypeInv'
    <2>1. stored.state \in OrderStates
      BY <1>2 DEF Resume, Draft, States
    <2>2. StartsAt(stored, bench, speedup, bounds) \in OrderStates
      BY <2>1, StartsAtType
    <2> QED
      BY <1>2, <2>1, <2>2, StartingType DEF Resume
  <1>3. CASE Check
    <2>1. CASE Reject
      BY <1>3, <2>1, RejectType DEF Check
    <2>2. CASE Write(Advanced(run.draft, "checked"), "reference") /\ UNCHANGED paid
      <3>1. run.draft \in Draft /\ run.draft.state \in OrderStates
        BY <1>3 DEF Check, Run
      <3>2. "checked" \in OrderStates /\ "reference" \in Steps
        BY DEF OrderStates, Steps
      <3> QED
        BY <1>3, <2>2, <3>1, <3>2, AdvancedType, WriteType DEF Check
    <2> QED
      BY <1>3, <2>1, <2>2 DEF Check
  <1>4. CASE Reference
    <2>1. CASE ReuseReference
      BY <1>4, <2>1, GoType DEF Reference, ReuseReference, Steps
    <2>2. CASE /\ Pay
               /\ Write(Advanced(Answered(run.draft, "blind", run.bench["blind"]),
                                 "referenced"), "agree")
      <3>1. run.draft \in Draft /\ run.draft.state \in OrderStates
        BY <1>4 DEF Reference, Run
      <3>2. "blind" \in Sites /\ run.bench["blind"] \in Configs
        BY <1>4, BenchType DEF Reference, Sites
      <3>3. "referenced" \in OrderStates /\ "agree" \in Steps /\ paid' \in Nat
        BY <2>2 DEF OrderStates, Steps, Pay
      <3> QED
        BY <1>4, <2>2, <3>1, <3>2, <3>3, AnsweredType, AdvancedType, WriteType
        DEF Reference
    <2>3. CASE run' = Idle /\ UNCHANGED <<stored, paid>>
      BY <1>4, <2>3, IdleType DEF Reference
    <2> QED
      BY <1>4, <2>1, <2>2, <2>3 DEF Reference, AskReference
  <1>5. CASE Agree
    <2>1. CASE Reject
      BY <1>5, <2>1, RejectType DEF Agree
    <2>2. CASE /\ Write(Advanced(Settled(run.draft), "agreed"), "build")
               /\ UNCHANGED paid
      <3>1. run.draft \in Draft /\ run.draft.state \in OrderStates
        BY <1>5 DEF Agree, Run
      <3>2. "agreed" \in OrderStates /\ "build" \in Steps
        BY DEF OrderStates, Steps
      <3> QED
        BY <1>5, <2>2, <3>1, <3>2, SettledType, AdvancedType, WriteType DEF Agree
    <2> QED
      BY <1>5, <2>1, <2>2 DEF Agree
  <1>6. CASE Build
    <2>1. run.draft \in Draft /\ run.draft.state \in OrderStates
      BY <1>6 DEF Build, Run
    <2>2. "inputs" \in Sites /\ run.bench["inputs"] \in Configs
      BY <1>6, BenchType DEF Build, Sites
    <2>3. "built" \in OrderStates /\ "pace" \in Steps
      BY DEF OrderStates, Steps
    <2>4. CASE ReuseGenerator
      BY <1>6, <2>1, <2>2, <2>3, <2>4 DEF Build, ReuseGenerator, Run, Draft, Answer
    <2>5. CASE /\ Pay
               /\ stored' = Advanced(Answered(run.draft, "inputs",
                                              run.bench["inputs"]), "built")
               /\ run' = [run EXCEPT !.step = "pace", !.draft = stored',
                                     !.generator = paid + 1]
      <3>1. /\ stored' \in Draft /\ stored'.state \in OrderStates
            /\ paid' \in Nat /\ paid + 1 \in Nat
        BY <2>1, <2>2, <2>3, <2>5, AnsweredType, AdvancedType DEF Pay
      <3> QED
        BY <1>6, <2>3, <2>5, <3>1 DEF Build, Run
    <2>6. CASE Go("pace")
      BY <1>6, <2>3, <2>6, GoType DEF Build
    <2> QED
      BY <1>6, <2>4, <2>5, <2>6 DEF Build, AskGenerator
  <1>7. CASE Pace
    <2>1. run.draft \in Draft /\ run.draft.state \in OrderStates
      BY <1>7 DEF Pace, Run
    <2>2. "naive" \in Sites /\ run.bench["naive"] \in Configs
      BY <1>7, BenchType DEF Pace, Sites
    <2>3. "paced" \in OrderStates /\ "search" \in Steps
      BY DEF OrderStates, Steps
    <2>4. CASE Go("search")
      BY <1>7, <2>3, <2>4, GoType DEF Pace
    <2>5. CASE Stop
      BY <1>7, <2>5, StopType DEF Pace
    <2>6. CASE /\ run' = [run EXCEPT !.step = "search",
                                     !.naive = run.draft.answers["naive"].call]
               /\ UNCHANGED <<stored, paid>>
      BY <1>7, <2>1, <2>2, <2>3, <2>6 DEF Pace, Run, Draft, Answer
    <2>7. CASE /\ Pay
               /\ stored' = Advanced(Answered(run.draft, "naive",
                                              run.bench["naive"]), "paced")
               /\ run' = [run EXCEPT !.step = "search", !.draft = stored',
                                     !.naive = paid + 1]
      <3>1. /\ stored' \in Draft /\ stored'.state \in OrderStates
            /\ paid' \in Nat /\ paid + 1 \in Nat
        BY <2>1, <2>2, <2>3, <2>7, AnsweredType, AdvancedType DEF Pay
      <3> QED
        BY <1>7, <2>3, <2>7, <3>1 DEF Pace, Run
    <2> QED
      BY <1>7, <2>4, <2>5, <2>6, <2>7 DEF Pace, ReuseNaive, AskNaive
  <1>8. CASE Search
    <2>1. run.draft \in Draft /\ run.draft.state \in OrderStates
      BY <1>8 DEF Search, Run
    <2>2. "harden" \in Steps /\ "finish" \in Steps
      BY DEF Steps
    <2>3. CASE Reject
      BY <1>8, <2>3, RejectType DEF Search
    <2>4. CASE Write(Searched(run.draft, Evident, "none"), "harden") /\ UNCHANGED paid
      <3>1. "none" \in Reasons
        BY DEF Reasons
      <3> QED
        BY <1>8, <2>1, <2>2, <2>4, <3>1, EvidentType, SearchedType, WriteType
        DEF Search
    <2>5. ASSUME NEW reason \in Reasons \ {"none"},
                 stored' = Searched(run.draft, NoCase, reason),
                 run' = [run EXCEPT !.draft = stored', !.step = "finish",
                                    !.stopped = TRUE],
                 UNCHANGED paid
          PROVE  TypeInv'
      <3>1. NoCase \in Evidence
        BY DEF NoCase, Evidence
      <3>2. stored' \in Draft /\ stored'.state \in OrderStates
        BY <2>1, <2>5, <3>1, SearchedType
      <3> QED
        BY <1>8, <2>2, <2>5, <3>2 DEF Search, Run
    <2>6. CASE Stop
      BY <1>8, <2>6, StopType DEF Search
    <2>7. CASE Go("harden")
      BY <1>8, <2>2, <2>7, GoType DEF Search
    <2> QED
      BY <1>8, <2>3, <2>4, <2>5, <2>6, <2>7 DEF Search, TakeSearch, PassSearch
  <1>9. CASE Harden
    <2>1. run.draft \in Draft /\ run.draft.state \in OrderStates
      BY <1>9 DEF Harden, Run
    <2>2. "finish" \in Steps /\ NoAnswer \in Answer
      BY DEF Steps, NoAnswer, Answer
    <2>3. CASE Reject
      BY <1>9, <2>3, RejectType DEF Harden
    <2>4. CASE Stop
      BY <1>9, <2>4, StopType DEF Harden
    <2>5. CASE Write(Hardened(run.draft, NoAnswer), "finish") /\ UNCHANGED paid
      BY <1>9, <2>1, <2>2, <2>5, HardenedType, WriteType DEF Harden
    <2>6. CASE /\ Pay
               /\ Write(Hardened(run.draft, [call |-> paid + 1,
                                             at |-> run.bench["discrimination"]]),
                        "finish")
      <3>1. "discrimination" \in Sites
        BY DEF Sites
      <3>2. [call |-> paid + 1, at |-> run.bench["discrimination"]] \in Answer
        BY <1>9, <3>1, BenchType DEF Harden, Answer
      <3>3. paid' \in Nat
        BY <2>6 DEF Pay
      <3> QED
        BY <1>9, <2>1, <2>2, <2>6, <3>2, <3>3, HardenedType, WriteType DEF Harden
    <2> QED
      BY <1>9, <2>3, <2>4, <2>5, <2>6 DEF Harden
  <1>10. CASE Finish
    <2>1. CASE Hold
      BY <1>10, <2>1, IdleType DEF Finish, Hold
    <2>2. CASE Land
      <3>1. Landing \in Problem
        BY DEF Landing, Problem, Run, Draft, Answer, Sites
      <3>2. corpus' \in Seq(Problem)
        BY <2>2, <3>1 DEF Land
      <3>3. "hardened" \in OrderStates /\ "name" \in Steps
        BY DEF OrderStates, Steps
      <3> QED
        BY <1>10, <2>2, <3>2, <3>3 DEF Finish, Land, Run
    <2> QED
      BY <1>10, <2>1, <2>2 DEF Finish
  <1>11. CASE Name
    <2>1. /\ [run.draft EXCEPT !.state = "landed"] \in Draft
          /\ [run.draft EXCEPT !.state = "landed"].state = "landed"
          /\ "landed" \in OrderStates /\ "clear" \in Steps
      BY DEF Run, Draft, States, OrderStates, Steps
    <2> QED
      BY <1>11, <2>1, WriteType DEF Name
  <1>12. CASE Clear
    <2>1. NoDraft \in Draft
      BY DEF NoDraft, Draft, NoAnswer, Answer, NoCase, Evidence, Reasons
    <2> QED
      BY <1>12, <2>1, IdleType DEF Clear
  <1>13. CASE Crash
    BY <1>13, IdleType DEF Crash
  <1>14. CASE Sweep
    <2>1. NoDraft \in Draft
      BY DEF NoDraft, Draft, NoAnswer, Answer, NoCase, Evidence, Reasons
    <2> QED
      BY <1>14, <2>1 DEF Sweep
  <1>15. CASE HandReject
    BY <1>15, RejectedType DEF HandReject
  <1>16. CASE UNCHANGED vars
    BY <1>16 DEF vars
  <1> QED
    BY <1>1, <1>2, <1>3, <1>4, <1>5, <1>6, <1>7, <1>8, <1>9, <1>10, <1>11,
       <1>12, <1>13, <1>14, <1>15, <1>16 DEF Next

\* Whatever the benches, the bounds and the limits, and wherever a process
\* dies, the stored draft, the passage and the landed problems are of the types
\* the code declares.
THEOREM TypeCorrect == Spec => []TypeOK
  <1>1. TypeInv => TypeOK
    BY DEF TypeInv
  <1> QED
    BY <1>1, TypeInit, TypeStep, PTL DEF Spec

(***************************************************************************)
(* The cases are the reference's.  What carries the property between the   *)
(* settling and the landing is that every step after the settling leaves   *)
(* the reference and the cases alone, and that a run taking up the draft   *)
(* comes back through the settling before it can land.                     *)
(***************************************************************************)

\* The cases of a draft are its own reference's answers.
CasesSettled(d) ==
  d.answers["blind"].call # 0 /\ d.cases = d.answers["blind"].call

CasesInv ==
  /\ run.step = "agree" => run.draft.answers["blind"].call # 0
  /\ run.step \in {"build", "pace", "search", "harden", "name"} =>
       CasesSettled(run.draft)
  /\ run.step = "finish" =>
       run.draft.state = "rejected" \/ CasesSettled(run.draft)
  /\ CasesAreTheReferences

LEMMA CasesInit == Init => CasesInv
  BY DEF Init, CasesInv, CasesAreTheReferences, Idle

\* A problem is landed with the cases of the draft it is landed from.
LEMMA LandingCases ==
  ASSUME CasesAreTheReferences, corpus \in Seq(Problem), Landing \in Problem,
         CasesSettled(run.draft), corpus' = Append(corpus, Landing)
  PROVE  CasesAreTheReferences'
  <1>1. \A i \in 1..Len(corpus) : corpus'[i] = corpus[i]
    OBVIOUS
  <1>2. Len(corpus') = Len(corpus) + 1 /\ corpus'[Len(corpus) + 1] = Landing
    OBVIOUS
  <1>3. Landing.cases = Landing.blind /\ Landing.blind # 0
    BY DEF Landing, CasesSettled
  <1> QED
    BY <1>1, <1>2, <1>3 DEF CasesAreTheReferences

\* A rejection ends the run with the problems as they were.
LEMMA RejectCases ==
  ASSUME TypeInv, CasesInv, Reject, UNCHANGED corpus
  PROVE  CasesInv'
  <1>1. run'.step = "finish" /\ run'.draft.state = "rejected"
    BY RejectedType DEF TypeInv, TypeOK, Reject, Run
  <1> QED
    BY <1>1 DEF CasesInv, CasesAreTheReferences

\* A stop, and a step that writes nothing, keep the copy's cases.
LEMMA PassCases ==
  ASSUME TypeInv, CasesInv, CasesSettled(run.draft), UNCHANGED corpus,
         NEW step \in Steps, Stop \/ Go(step)
  PROVE  CasesInv'
  <1>1. run'.draft = run.draft
    BY DEF TypeInv, TypeOK, Stop, Go, Run
  <1> QED
    BY <1>1 DEF CasesInv, CasesAreTheReferences, CasesSettled

\* So does a write of a draft whose cases are settled.
LEMMA WriteCases ==
  ASSUME TypeInv, CasesInv, UNCHANGED corpus, NEW d,
         CasesSettled(d), run'.draft = d
  PROVE  CasesInv'
  BY DEF CasesInv, CasesAreTheReferences, CasesSettled

\* A run at rest holds nothing to land.
LEMMA IdleCases ==
  ASSUME CasesInv, run'.step \in {"idle", "check"}, UNCHANGED corpus
  PROVE  CasesInv'
  BY DEF CasesInv, CasesAreTheReferences

LEMMA CasesStep == TypeInv /\ CasesInv /\ [Next]_vars => CasesInv'
  <1> SUFFICES ASSUME TypeInv, CasesInv, [Next]_vars PROVE CasesInv'
    OBVIOUS
  <1> USE DEF TypeInv, TypeOK
  <1>1. ASSUME NEW bench \in Benches, NEW speedup \in BOOLEAN,
               NEW bounds \in Bounds,
               Begin(bench, speedup, bounds) \/ Resume(bench, speedup, bounds)
        PROVE  CasesInv'
    <2>1. run'.step = "check"
      BY <1>1 DEF Begin, Resume, Starting, Idle
    <2> QED
      BY <1>1, <2>1, IdleCases DEF Begin, Resume
  <1>2. CASE Check
    <2>1. CASE Reject
      BY <1>2, <2>1, RejectCases DEF Check
    <2>2. CASE Write(Advanced(run.draft, "checked"), "reference")
      <3>1. run'.step = "reference"
        BY <2>2 DEF Write, Run
      <3> QED
        BY <1>2, <3>1 DEF Check, CasesInv, CasesAreTheReferences
    <2> QED
      BY <1>2, <2>1, <2>2 DEF Check
  <1>3. CASE Reference
    <2>1. CASE ReuseReference
      <3>1. run'.step = "agree" /\ run'.draft = run.draft
        BY <2>1 DEF ReuseReference, Go, Run
      <3>2. run.draft.answers["blind"].call # 0
        BY <2>1 DEF ReuseReference, ReAsks
      <3> QED
        BY <1>3, <3>1, <3>2 DEF Reference, CasesInv, CasesAreTheReferences
    <2>2. CASE Write(Advanced(Answered(run.draft, "blind", run.bench["blind"]),
                              "referenced"), "agree")
      <3> DEFINE d == Answered(run.draft, "blind", run.bench["blind"])
      <3>1. run.draft \in Draft /\ run.draft.state \in OrderStates
        BY <1>3 DEF Reference, Run
      <3>2. "blind" \in Sites /\ run.bench["blind"] \in Configs
        BY <1>3, BenchType DEF Reference, Sites
      <3>3. "referenced" \in OrderStates
        BY DEF OrderStates
      <3>4. /\ d \in Draft /\ d.state \in OrderStates
            /\ d.answers["blind"].call = paid + 1
        BY <3>1, <3>2, AnsweredType
      <3>5. Advanced(d, "referenced").answers = d.answers
        BY <3>3, <3>4, AdvancedType
      <3>6. run'.step = "agree" /\ run'.draft = Advanced(d, "referenced")
        BY <2>2 DEF Write, Run
      <3>7. run'.draft.answers["blind"].call # 0
        BY <3>4, <3>5, <3>6
      <3> QED
        BY <1>3, <3>6, <3>7 DEF Reference, CasesInv, CasesAreTheReferences
    <2>3. CASE run' = Idle
      <3>1. run'.step = "idle"
        BY <2>3 DEF Idle
      <3> QED
        BY <1>3, <3>1, IdleCases DEF Reference
    <2> QED
      BY <1>3, <2>1, <2>2, <2>3 DEF Reference, AskReference
  <1>4. CASE Agree
    <2>1. CASE Reject
      BY <1>4, <2>1, RejectCases DEF Agree
    <2>2. CASE Write(Advanced(Settled(run.draft), "agreed"), "build")
      <3>1. run.draft \in Draft /\ run.draft.state \in OrderStates
        BY <1>4 DEF Agree, Run
      <3>2. "agreed" \in OrderStates
        BY DEF OrderStates
      <3>3. CasesSettled(Advanced(Settled(run.draft), "agreed"))
        BY <1>4, <3>1, <3>2, SettledType, AdvancedType
        DEF Agree, CasesInv, CasesSettled
      <3>4. run'.draft = Advanced(Settled(run.draft), "agreed")
        BY <2>2 DEF Write, Run
      <3> QED
        BY <1>4, <3>3, <3>4, WriteCases DEF Agree
    <2> QED
      BY <1>4, <2>1, <2>2 DEF Agree
  <1>5. CASE Build
    <2>1. run.draft \in Draft /\ run.draft.state \in OrderStates
      BY <1>5 DEF Build, Run
    <2>2. CasesSettled(run.draft)
      BY <1>5 DEF Build, CasesInv
    <2>3. "inputs" \in Sites /\ run.bench["inputs"] \in Configs /\ "blind" \in Sites
      BY <1>5, BenchType DEF Build, Sites
    <2>4. CASE ReuseGenerator
      <3>1. run'.draft = run.draft
        BY <2>4 DEF ReuseGenerator, Run
      <3> QED
        BY <1>5, <2>2, <3>1, WriteCases DEF Build
    <2>5. ASSUME stored' = Advanced(Answered(run.draft, "inputs",
                                             run.bench["inputs"]), "built"),
                 run' = [run EXCEPT !.step = "pace", !.draft = stored',
                                    !.generator = paid + 1]
          PROVE  CasesInv'
      <3>1. "built" \in OrderStates
        BY DEF OrderStates
      <3>2. CasesSettled(stored')
        BY <2>1, <2>2, <2>3, <2>5, <3>1, AnsweredType, AdvancedType
        DEF CasesSettled
      <3>3. run'.draft = stored'
        BY <2>5 DEF Run
      <3> QED
        BY <1>5, <3>2, <3>3, WriteCases DEF Build
    <2>6. CASE Go("pace")
      BY <1>5, <2>2, <2>6, PassCases DEF Build, Steps
    <2> QED
      BY <1>5, <2>4, <2>5, <2>6 DEF Build, AskGenerator
  <1>6. CASE Pace
    <2>1. run.draft \in Draft /\ run.draft.state \in OrderStates
      BY <1>6 DEF Pace, Run
    <2>2. CasesSettled(run.draft)
      BY <1>6 DEF Pace, CasesInv
    <2>3. "naive" \in Sites /\ run.bench["naive"] \in Configs /\ "blind" \in Sites
      BY <1>6, BenchType DEF Pace, Sites
    <2>4. CASE Go("search") \/ Stop
      BY <1>6, <2>2, <2>4, PassCases DEF Pace, Steps
    <2>5. CASE run' = [run EXCEPT !.step = "search",
                                  !.naive = run.draft.answers["naive"].call]
      <3>1. run'.draft = run.draft
        BY <2>5 DEF Run
      <3> QED
        BY <1>6, <2>2, <3>1, WriteCases DEF Pace
    <2>6. ASSUME stored' = Advanced(Answered(run.draft, "naive",
                                             run.bench["naive"]), "paced"),
                 run' = [run EXCEPT !.step = "search", !.draft = stored',
                                    !.naive = paid + 1]
          PROVE  CasesInv'
      <3>1. "paced" \in OrderStates
        BY DEF OrderStates
      <3>2. CasesSettled(stored')
        BY <2>1, <2>2, <2>3, <2>6, <3>1, AnsweredType, AdvancedType
        DEF CasesSettled
      <3>3. run'.draft = stored'
        BY <2>6 DEF Run
      <3> QED
        BY <1>6, <3>2, <3>3, WriteCases DEF Pace
    <2> QED
      BY <1>6, <2>4, <2>5, <2>6 DEF Pace, ReuseNaive, AskNaive
  <1>7. CASE Search
    <2>1. run.draft \in Draft /\ run.draft.state \in OrderStates
      BY <1>7 DEF Search, Run
    <2>2. CasesSettled(run.draft)
      BY <1>7 DEF Search, CasesInv
    <2>3. CASE Reject
      BY <1>7, <2>3, RejectCases DEF Search
    <2>4. ASSUME NEW case \in Evidence, NEW reason \in Reasons,
                 run'.draft = Searched(run.draft, case, reason)
          PROVE  CasesInv'
      <3>1. CasesSettled(Searched(run.draft, case, reason))
        BY <2>1, <2>2, SearchedType DEF CasesSettled
      <3> QED
        BY <1>7, <2>4, <3>1, WriteCases DEF Search
    <2>5. CASE Write(Searched(run.draft, Evident, "none"), "harden")
      <3>1. run'.draft = Searched(run.draft, Evident, "none") /\ "none" \in Reasons
        BY <2>5 DEF Write, Run, Reasons
      <3> QED
        BY <2>4, <3>1, EvidentType
    <2>6. ASSUME NEW reason \in Reasons \ {"none"},
                 stored' = Searched(run.draft, NoCase, reason),
                 run' = [run EXCEPT !.draft = stored', !.step = "finish",
                                    !.stopped = TRUE]
          PROVE  CasesInv'
      <3>1. run'.draft = Searched(run.draft, NoCase, reason)
        BY <2>6 DEF Run
      <3>2. NoCase \in Evidence
        BY DEF NoCase, Evidence
      <3> QED
        BY <2>4, <3>1, <3>2
    <2>7. CASE Stop \/ Go("harden")
      BY <1>7, <2>2, <2>7, PassCases DEF Search, Steps
    <2> QED
      BY <1>7, <2>3, <2>5, <2>6, <2>7 DEF Search, TakeSearch, PassSearch
  <1>8. CASE Harden
    <2>1. run.draft \in Draft /\ run.draft.state \in OrderStates
      BY <1>8 DEF Harden, Run
    <2>2. CasesSettled(run.draft)
      BY <1>8 DEF Harden, CasesInv
    <2>3. CASE Reject
      BY <1>8, <2>3, RejectCases DEF Harden
    <2>4. CASE Stop
      BY <1>8, <2>2, <2>4, PassCases DEF Harden, Steps
    <2>5. ASSUME NEW answer \in Answer, Write(Hardened(run.draft, answer), "finish")
          PROVE  CasesInv'
      <3>1. run'.draft = Hardened(run.draft, answer)
        BY <2>5 DEF Write, Run
      <3>2. CasesSettled(Hardened(run.draft, answer))
        BY <2>1, <2>2, HardenedType DEF CasesSettled
      <3> QED
        BY <1>8, <3>1, <3>2, WriteCases DEF Harden
    <2>6. NoAnswer \in Answer
      BY DEF NoAnswer, Answer
    <2>7. [call |-> paid + 1, at |-> run.bench["discrimination"]] \in Answer
      <3>1. "discrimination" \in Sites
        BY DEF Sites
      <3> QED
        BY <1>8, <3>1, BenchType DEF Harden, Answer
    <2> QED
      BY <1>8, <2>3, <2>4, <2>5, <2>6, <2>7 DEF Harden
  <1>9. CASE Finish
    <2>1. CASE Hold
      <3>1. run'.step = "idle"
        BY <2>1 DEF Hold, Idle
      <3> QED
        BY <2>1, <3>1, IdleCases DEF Hold
    <2>2. CASE Land
      <3>1. CasesSettled(run.draft)
        BY <1>9, <2>2 DEF Finish, Land, CasesInv
      <3>2. Landing \in Problem
        BY DEF Landing, Problem, Run, Draft, Answer, Sites
      <3>3. CasesAreTheReferences'
        BY <2>2, <3>1, <3>2, LandingCases DEF Land, CasesInv
      <3>4. run'.step = "name" /\ run'.draft = run.draft
        BY <2>2 DEF Land, Run
      <3> QED
        BY <3>1, <3>3, <3>4 DEF CasesInv, CasesSettled
    <2> QED
      BY <1>9, <2>1, <2>2 DEF Finish
  <1>10. CASE Name
    <2>1. run'.step = "clear"
      BY <1>10 DEF Name, Write, Run
    <2> QED
      BY <1>10, <2>1 DEF Name, CasesInv, CasesAreTheReferences
  <1>11. CASE Clear \/ Crash
    <2>1. run'.step = "idle" /\ UNCHANGED corpus
      BY <1>11 DEF Clear, Crash, Idle
    <2> QED
      BY <2>1, IdleCases
  <1>12. CASE Sweep \/ HandReject \/ UNCHANGED vars
    <2>1. UNCHANGED <<run, corpus>>
      BY <1>12 DEF Sweep, HandReject, vars
    <2> QED
      BY <2>1 DEF CasesInv, CasesAreTheReferences
  <1> QED
    BY <1>1, <1>2, <1>3, <1>4, <1>5, <1>6, <1>7, <1>8, <1>9, <1>10, <1>11, <1>12
    DEF Next

\* Every problem in the corpus carries the answers of the reference landed
\* beside it, whichever runs settled the draft and asked for a reference again,
\* wherever they died and whoever rejected beside them.
THEOREM CasesAlwaysSettled == Spec => []CasesAreTheReferences
  <1>1. TypeInv /\ CasesInv => CasesAreTheReferences
    BY DEF CasesInv
  <1> QED
    BY <1>1, TypeInit, TypeStep, CasesInit, CasesStep, PTL DEF Spec

(***************************************************************************)
(* What lands went through a loop, whatever is disturbed.  A state past    *)
(* the loop is reached by the loop alone, and a run no step stopped takes  *)
(* the loop itself on its way to the end.                                  *)
(***************************************************************************)

EarlyStates == OrderStates \ {"hardened", "landed"}

WorkSteps == {"check", "reference", "agree", "build", "pace", "search", "harden"}

\* A draft past the loop holds what a loop read.
Looped(d) == d.state \in {"hardened", "landed"} => d.loop.blind # 0

LoopInv ==
  /\ Looped(stored) /\ Looped(run.draft)
  /\ run.step \in WorkSteps => ~ run.stopped
  /\ run.step = "finish" /\ ~ run.stopped =>
       run.draft.loop.blind = run.draft.answers["blind"].call
  /\ run.step = "name" => run.draft.loop.blind # 0
  /\ LandsWhatTheLoopRead

LEMMA LoopInit == Init => LoopInv
  BY DEF Init, LoopInv, LandsWhatTheLoopRead, Looped, Idle, NoDraft, WorkSteps

\* A write short of the loop takes no draft past it.
LEMMA AdvancedLoops ==
  ASSUME NEW d \in Draft, d.state \in OrderStates, Looped(d),
         NEW state \in EarlyStates
  PROVE  Looped(Advanced(d, state))
  <1>1. /\ state \in OrderStates
        /\ Later(d.state, state) \in {d.state, state}
    BY LaterType DEF EarlyStates
  <1> QED
    BY <1>1, AdvancedType DEF Looped, EarlyStates

\* A step of a run at work that goes on, or that stops it.
LEMMA LoopWorks ==
  ASSUME LoopInv, UNCHANGED corpus, Looped(stored'), Looped(run'.draft),
         \/ run'.step \in WorkSteps /\ ~ run'.stopped
         \/ run'.step = "finish" /\ run'.stopped
  PROVE  LoopInv'
  BY DEF LoopInv, LandsWhatTheLoopRead, Looped, WorkSteps

\* A run that ends, or dies.
LEMMA LoopIdles ==
  ASSUME LoopInv, UNCHANGED corpus, Looped(stored'), run' = Idle
  PROVE  LoopInv'
  <1>1. run'.step = "idle" /\ run'.draft.state = "absent"
    BY DEF Idle, NoDraft
  <1> QED
    BY <1>1 DEF LoopInv, LandsWhatTheLoopRead, Looped, WorkSteps

LEMMA LoopGoes ==
  ASSUME TypeInv, LoopInv, UNCHANGED corpus, run.step \in WorkSteps,
         NEW step \in WorkSteps, Go(step)
  PROVE  LoopInv'
  <1>1. /\ run'.draft = run.draft /\ run'.step = step /\ run'.stopped = run.stopped
        /\ UNCHANGED stored
    BY DEF TypeInv, TypeOK, Go, Run
  <1> QED
    BY <1>1, LoopWorks DEF LoopInv

LEMMA LoopStops ==
  ASSUME TypeInv, LoopInv, UNCHANGED corpus, Stop
  PROVE  LoopInv'
  <1>1. /\ run'.draft = run.draft /\ run'.step = "finish" /\ run'.stopped
        /\ UNCHANGED stored
    BY DEF TypeInv, TypeOK, Stop, Run
  <1> QED
    BY <1>1, LoopWorks DEF LoopInv

LEMMA LoopRejects ==
  ASSUME TypeInv, LoopInv, UNCHANGED corpus, Reject
  PROVE  LoopInv'
  <1>1. /\ run'.draft = stored' /\ run'.step = "finish" /\ run'.stopped
        /\ stored'.state = "rejected"
    BY RejectedType DEF TypeInv, TypeOK, Reject, Run
  <1> QED
    BY <1>1, LoopWorks DEF Looped

\* A revision of the copy, written on the copy and on the store.
LEMMA LoopRevises ==
  ASSUME TypeInv, LoopInv, UNCHANGED corpus, run.step \in WorkSteps,
         NEW d \in Draft, d.state = run.draft.state, d.loop = run.draft.loop,
         NEW state \in EarlyStates, stored' = Advanced(d, state),
         run'.draft = stored', run'.step \in WorkSteps, run'.stopped = run.stopped
  PROVE  LoopInv'
  <1>1. run.draft.state \in OrderStates /\ Looped(run.draft) /\ ~ run.stopped
    BY DEF TypeInv, TypeOK, LoopInv, WorkSteps
  <1>2. Looped(stored')
    BY <1>1, AdvancedLoops DEF Looped
  <1> QED
    BY <1>1, <1>2, LoopWorks

\* One more call, written the same way.
LEMMA LoopAsks ==
  ASSUME TypeInv, LoopInv, UNCHANGED corpus, run.step \in WorkSteps,
         NEW site \in Sites, NEW state \in EarlyStates,
         stored' = Advanced(Answered(run.draft, site, run.bench[site]), state),
         run'.draft = stored', run'.step \in WorkSteps, run'.stopped = run.stopped
  PROVE  LoopInv'
  <1>1. run.draft \in Draft /\ run.bench[site] \in Configs /\ paid \in Nat
    BY BenchType DEF TypeInv, TypeOK, Run, WorkSteps
  <1>2. LET d == Answered(run.draft, site, run.bench[site]) IN
        d \in Draft /\ d.state = run.draft.state /\ d.loop = run.draft.loop
    BY <1>1, AnsweredType
  <1> QED
    BY <1>2, LoopRevises

LEMMA LoopStep == TypeInv /\ CasesInv /\ LoopInv /\ [Next]_vars => LoopInv'
  <1> SUFFICES ASSUME TypeInv, CasesInv, LoopInv, [Next]_vars PROVE LoopInv'
    OBVIOUS
  <1> USE DEF TypeInv, TypeOK
  <1>0. {"drafted", "checked", "referenced", "agreed", "built", "paced", "searched"}
          \subseteq EarlyStates
    BY DEF EarlyStates, OrderStates
  <1>1. ASSUME NEW bench \in Benches, NEW speedup \in BOOLEAN,
               NEW bounds \in Bounds, Begin(bench, speedup, bounds)
        PROVE  LoopInv'
    <2>1. stored'.state = "drafted" /\ UNCHANGED corpus
      BY <1>1 DEF Begin, NoDraft
    <2>2. run'.step = "check" /\ run'.draft = stored' /\ ~ run'.stopped
      BY <1>1 DEF Begin, Starting, Idle
    <2> QED
      BY <2>1, <2>2, LoopWorks DEF Looped, WorkSteps
  <1>2. ASSUME NEW bench \in Benches, NEW speedup \in BOOLEAN,
               NEW bounds \in Bounds, Resume(bench, speedup, bounds)
        PROVE  LoopInv'
    <2>1. /\ run'.step = "check" /\ run'.draft = stored /\ ~ run'.stopped
          /\ UNCHANGED <<stored, corpus>>
      BY <1>2 DEF Resume, Starting, Idle
    <2> QED
      BY <2>1, LoopWorks DEF LoopInv, WorkSteps
  <1>3. CASE Check
    <2>1. CASE Reject
      BY <1>3, <2>1, LoopRejects DEF Check
    <2>2. CASE Write(Advanced(run.draft, "checked"), "reference")
      <3>1. /\ stored' = Advanced(run.draft, "checked") /\ run'.draft = stored'
            /\ run'.step = "reference" /\ run'.stopped = run.stopped
        BY <2>2 DEF Write, Run
      <3>2. run.draft \in Draft /\ run.step \in WorkSteps /\ UNCHANGED corpus
        BY <1>3 DEF Check, Run, WorkSteps
      <3> QED
        BY <1>0, <3>1, <3>2, LoopRevises DEF WorkSteps
    <2> QED
      BY <1>3, <2>1, <2>2 DEF Check
  <1>4. CASE Reference
    <2>1. run.step \in WorkSteps /\ UNCHANGED corpus
      BY <1>4 DEF Reference, WorkSteps
    <2>2. CASE ReuseReference
      BY <2>1, <2>2, LoopGoes DEF ReuseReference, WorkSteps
    <2>3. CASE run' = Idle /\ UNCHANGED stored
      BY <2>1, <2>3, LoopIdles DEF LoopInv
    <2>4. CASE Write(Advanced(Answered(run.draft, "blind", run.bench["blind"]),
                              "referenced"), "agree")
      <3>1. /\ stored' = Advanced(Answered(run.draft, "blind", run.bench["blind"]),
                                  "referenced")
            /\ run'.draft = stored' /\ run'.step = "agree"
            /\ run'.stopped = run.stopped
        BY <2>4 DEF Write, Run
      <3> QED
        BY <1>0, <2>1, <3>1, LoopAsks DEF WorkSteps, Sites
    <2> QED
      BY <1>4, <2>2, <2>3, <2>4 DEF Reference, AskReference
  <1>5. CASE Agree
    <2>1. CASE Reject
      BY <1>5, <2>1, LoopRejects DEF Agree
    <2>2. CASE Write(Advanced(Settled(run.draft), "agreed"), "build")
      <3>1. /\ stored' = Advanced(Settled(run.draft), "agreed") /\ run'.draft = stored'
            /\ run'.step = "build" /\ run'.stopped = run.stopped
        BY <2>2 DEF Write, Run
      <3>2. run.draft \in Draft /\ run.step \in WorkSteps /\ UNCHANGED corpus
        BY <1>5 DEF Agree, Run, WorkSteps
      <3>3. /\ Settled(run.draft) \in Draft
            /\ Settled(run.draft).state = run.draft.state
            /\ Settled(run.draft).loop = run.draft.loop
        BY <3>2, SettledType DEF Settled, Draft
      <3> QED
        BY <1>0, <3>1, <3>2, <3>3, LoopRevises DEF WorkSteps
    <2> QED
      BY <1>5, <2>1, <2>2 DEF Agree
  <1>6. CASE Build
    <2>1. run.step \in WorkSteps /\ UNCHANGED corpus /\ ~ run.stopped
      BY <1>6 DEF Build, WorkSteps, LoopInv
    <2>2. CASE ReuseGenerator
      <3>1. /\ run'.draft = run.draft /\ run'.step = "pace"
            /\ run'.stopped = run.stopped /\ UNCHANGED stored
        BY <2>2 DEF ReuseGenerator, Run
      <3> QED
        BY <2>1, <3>1, LoopWorks DEF LoopInv, WorkSteps
    <2>3. ASSUME stored' = Advanced(Answered(run.draft, "inputs",
                                             run.bench["inputs"]), "built"),
                 run' = [run EXCEPT !.step = "pace", !.draft = stored',
                                    !.generator = paid + 1]
          PROVE  LoopInv'
      <3>1. run'.draft = stored' /\ run'.step = "pace" /\ run'.stopped = run.stopped
        BY <2>3 DEF Run
      <3> QED
        BY <1>0, <2>1, <2>3, <3>1, LoopAsks DEF WorkSteps, Sites
    <2>4. CASE Go("pace")
      BY <2>1, <2>4, LoopGoes DEF WorkSteps
    <2> QED
      BY <1>6, <2>2, <2>3, <2>4 DEF Build, AskGenerator
  <1>7. CASE Pace
    <2>1. run.step \in WorkSteps /\ UNCHANGED corpus /\ ~ run.stopped
      BY <1>7 DEF Pace, WorkSteps, LoopInv
    <2>2. CASE Go("search")
      BY <2>1, <2>2, LoopGoes DEF WorkSteps
    <2>3. CASE Stop
      BY <2>1, <2>3, LoopStops
    <2>4. CASE /\ run' = [run EXCEPT !.step = "search",
                                     !.naive = run.draft.answers["naive"].call]
               /\ UNCHANGED <<stored, paid>>
      <3>1. /\ run'.draft = run.draft /\ run'.step = "search"
            /\ run'.stopped = run.stopped
        BY <2>4 DEF Run
      <3> QED
        BY <2>1, <2>4, <3>1, LoopWorks DEF LoopInv, WorkSteps
    <2>5. ASSUME stored' = Advanced(Answered(run.draft, "naive",
                                             run.bench["naive"]), "paced"),
                 run' = [run EXCEPT !.step = "search", !.draft = stored',
                                    !.naive = paid + 1]
          PROVE  LoopInv'
      <3>1. run'.draft = stored' /\ run'.step = "search" /\ run'.stopped = run.stopped
        BY <2>5 DEF Run
      <3> QED
        BY <1>0, <2>1, <2>5, <3>1, LoopAsks DEF WorkSteps, Sites
    <2> QED
      BY <1>7, <2>2, <2>3, <2>4, <2>5 DEF Pace, ReuseNaive, AskNaive
  <1>8. CASE Search
    <2>1. run.step \in WorkSteps /\ UNCHANGED corpus /\ ~ run.stopped
      BY <1>8 DEF Search, WorkSteps, LoopInv
    <2>2. CASE Reject
      BY <2>1, <2>2, LoopRejects
    <2>3. CASE Stop
      BY <2>1, <2>3, LoopStops
    <2>4. CASE Go("harden")
      BY <2>1, <2>4, LoopGoes DEF WorkSteps
    <2>5. ASSUME NEW case \in Evidence, NEW reason \in Reasons
          PROVE  Looped(Searched(run.draft, case, reason))
      <3>1. /\ run.draft \in Draft /\ run.draft.state \in OrderStates
            /\ Looped(run.draft)
        BY <1>8 DEF Search, Run, LoopInv
      <3>2. Later(run.draft.state, "searched") \in {run.draft.state, "searched"}
        BY <1>0, <3>1, LaterType DEF EarlyStates
      <3> QED
        BY <2>5, <3>1, <3>2, SearchedType DEF Looped
    <2>6. CASE Write(Searched(run.draft, Evident, "none"), "harden")
      <3>1. /\ stored' = Searched(run.draft, Evident, "none") /\ run'.draft = stored'
            /\ run'.step = "harden" /\ run'.stopped = run.stopped
        BY <2>6 DEF Write, Run
      <3>2. Looped(stored')
        BY <2>5, <3>1, EvidentType DEF Reasons
      <3> QED
        BY <2>1, <3>1, <3>2, LoopWorks DEF WorkSteps
    <2>7. ASSUME NEW reason \in Reasons \ {"none"},
                 stored' = Searched(run.draft, NoCase, reason),
                 run' = [run EXCEPT !.draft = stored', !.step = "finish",
                                    !.stopped = TRUE]
          PROVE  LoopInv'
      <3>1. run'.draft = stored' /\ run'.step = "finish" /\ run'.stopped
        BY <2>7 DEF Run
      <3>2. Looped(stored')
        BY <2>5, <2>7 DEF NoCase, Evidence
      <3> QED
        BY <2>1, <3>1, <3>2, LoopWorks
    <2> QED
      BY <1>8, <2>2, <2>3, <2>4, <2>6, <2>7 DEF Search, TakeSearch, PassSearch
  <1>9. CASE Harden
    <2>1. run.step \in WorkSteps /\ UNCHANGED corpus /\ ~ run.stopped
      BY <1>9 DEF Harden, WorkSteps, LoopInv
    <2>2. CASE Reject
      BY <2>1, <2>2, LoopRejects
    <2>3. CASE Stop
      BY <2>1, <2>3, LoopStops
    <2>4. ASSUME NEW answer \in Answer, Write(Hardened(run.draft, answer), "finish")
          PROVE  LoopInv'
      <3>1. /\ stored' = Hardened(run.draft, answer) /\ run'.draft = stored'
            /\ run'.step = "finish"
        BY <2>4 DEF Write, Run
      <3>2. /\ stored'.loop = Evident
            /\ stored'.answers["blind"] = run.draft.answers["blind"]
        BY <1>9, <3>1, HardenedType DEF Harden, Run
      <3>3. run.draft.answers["blind"].call # 0
        BY <1>9 DEF Harden, CasesInv, CasesSettled
      <3>4. stored'.loop.blind = stored'.answers["blind"].call /\ stored'.loop.blind # 0
        BY <3>2, <3>3, EvidentType
      <3> QED
        BY <2>1, <3>1, <3>4 DEF LoopInv, LandsWhatTheLoopRead, Looped, WorkSteps
    <2>5. NoAnswer \in Answer
      BY DEF NoAnswer, Answer
    <2>6. [call |-> paid + 1, at |-> run.bench["discrimination"]] \in Answer
      <3>1. "discrimination" \in Sites
        BY DEF Sites
      <3> QED
        BY <1>9, <3>1, BenchType DEF Harden, Answer
    <2> QED
      BY <1>9, <2>2, <2>3, <2>4, <2>5, <2>6 DEF Harden
  <1>10. CASE Finish
    <2>1. CASE Hold
      BY <1>10, <2>1, LoopIdles DEF Finish, Hold, LoopInv
    <2>2. CASE Land
      <3>1. /\ run'.step = "name" /\ run'.draft = run.draft
            /\ UNCHANGED stored /\ corpus' = Append(corpus, Landing)
        BY <1>10, <2>2 DEF Finish, Land, Run
      <3>2. Landing \in Problem /\ corpus \in Seq(Problem)
        BY DEF Landing, Problem, Run, Draft, Answer, Sites
      <3>3. run.draft.loop.blind # 0
        BY <2>2 DEF Land, LoopInv, Looped
      <3>4. /\ Landing.loop.blind # 0
            /\ ~ Landing.stopped => Landing.loop.blind = Landing.blind
        BY <1>10, <3>3 DEF Landing, Finish, LoopInv
      <3>5. /\ \A i \in 1..Len(corpus) : corpus'[i] = corpus[i]
            /\ Len(corpus') = Len(corpus) + 1 /\ corpus'[Len(corpus) + 1] = Landing
        BY <3>1, <3>2
      <3>6. LandsWhatTheLoopRead'
        BY <3>4, <3>5 DEF LoopInv, LandsWhatTheLoopRead
      <3> QED
        BY <3>1, <3>3, <3>6 DEF LoopInv, WorkSteps
    <2> QED
      BY <1>10, <2>1, <2>2 DEF Finish
  <1>11. CASE Name
    <2>1. /\ stored'.loop = run.draft.loop /\ run'.draft = stored'
          /\ run'.step = "clear" /\ UNCHANGED corpus
      BY <1>11 DEF Name, Write, Run, Draft
    <2> QED
      BY <1>11, <2>1 DEF Name, LoopInv, LandsWhatTheLoopRead, Looped, WorkSteps
  <1>12. CASE Clear \/ Crash
    <2>1. run' = Idle /\ UNCHANGED corpus /\ Looped(stored')
      BY <1>12 DEF Clear, Crash, LoopInv, Looped, NoDraft
    <2> QED
      BY <2>1, LoopIdles
  <1>13. CASE Sweep \/ HandReject
    <2>1. UNCHANGED <<run, corpus>> /\ Looped(stored')
      BY <1>13, RejectedType DEF Sweep, HandReject, Looped, NoDraft
    <2> QED
      BY <2>1 DEF LoopInv, LandsWhatTheLoopRead, Looped
  <1>14. CASE UNCHANGED vars
    BY <1>14 DEF vars, LoopInv, LandsWhatTheLoopRead, Looped
  <1> QED
    BY <1>1, <1>2, <1>3, <1>4, <1>5, <1>6, <1>7, <1>8, <1>9, <1>10, <1>11, <1>12,
       <1>13, <1>14 DEF Next

\* Wherever a process dies and whoever rejects beside a run, no problem lands
\* that no loop went over, and a run no step stopped lands what its own loop
\* read, whichever reference an earlier run had the draft looped with.
THEOREM WhatLandsWasLooped == Spec => []LandsWhatTheLoopRead
  <1>1. LoopInv => LandsWhatTheLoopRead
    BY DEF LoopInv
  <1>2. TypeInv /\ CasesInv /\ LoopInv /\ [Next]_vars =>
          (TypeInv /\ CasesInv /\ LoopInv)'
    BY TypeStep, CasesStep, LoopStep
  <1> QED
    BY <1>1, <1>2, TypeInit, CasesInit, LoopInit, PTL DEF Spec

(***************************************************************************)
(* What a rejection can be lost to.                                        *)
(***************************************************************************)

\* A draft is in the store only once a run was started.
FreshInv == runs = 0 => run.step = "idle" /\ stored.state = "absent"

LEMMA FreshStep == TypeInv /\ FreshInv /\ [Next]_vars => FreshInv'
  <1> SUFFICES ASSUME TypeInv, FreshInv, Next PROVE FreshInv'
    BY DEF FreshInv, vars
  <1>1. CASE \E bench \in Benches, speedup \in BOOLEAN, bounds \in Bounds :
               Begin(bench, speedup, bounds) \/ Resume(bench, speedup, bounds)
    <2>1. runs' # 0
      BY <1>1 DEF Begin, Resume, TypeInv, TypeOK
    <2> QED
      BY <2>1 DEF FreshInv
  <1>2. CASE Sweep \/ HandReject
    BY <1>2 DEF Sweep, HandReject, FreshInv
  <1>3. CASE Check \/ Reference \/ Agree \/ Build \/ Pace \/ Search \/ Harden
    BY <1>3 DEF Check, Reference, Agree, Build, Pace, Search, Harden, FreshInv
  <1>4. CASE Finish \/ Name \/ Clear \/ Crash
    <2>1. run.step # "idle" /\ UNCHANGED runs
      BY <1>4, OperatorAssumption DEF Finish, Name, Clear, Crash, Steps
    <2> QED
      BY <2>1 DEF FreshInv
  <1> QED
    BY <1>1, <1>2, <1>3, <1>4 DEF Next

\* A verdict is written over by no command but a run that holds a copy taken
\* before it: none takes a rejected draft up, none removes it, and a run whose
\* own gate rejected writes nothing more.
THEOREM OnlyACopyLosesARejection == Spec => RejectionIsLostToACopyAlone
  <1>1. TypeInv /\ FreshInv /\ [Next]_vars =>
          [stored.state = "rejected" /\ stored' # stored =>
             run.step # "idle" /\ run.draft.state \in OrderStates]_vars
    <2> SUFFICES ASSUME TypeInv, FreshInv, stored.state = "rejected",
                        stored' # stored, Next
                 PROVE  run.step # "idle" /\ run.draft.state \in OrderStates
      BY DEF vars
    <2>1. run.step \notin {"idle", "finish"}
      BY DEF Next, Begin, Resume, Check, Reference, Agree, Build, Pace, Search,
             Harden, Finish, Name, Clear, Crash, Sweep, HandReject, FreshInv
    <2> QED
      BY <2>1 DEF TypeInv, TypeOK
  <1>2. Init => FreshInv
    BY DEF Init, FreshInv, Idle, NoDraft
  <1> QED
    BY <1>1, <1>2, TypeInit, TypeStep, FreshStep, PTL
    DEF Spec, RejectionIsLostToACopyAlone

(***************************************************************************)
(* The writing ends once, where the draft that lands names its problem.    *)
(* A run at work has no problem beside it, a problem has a draft at rest   *)
(* that no run takes up, and only the run that landed it is between the    *)
(* two.  A process may die before any other step and a reader may reject   *)
(* beside any run.                                                         *)
(***************************************************************************)

\* No process dies between the landing and the draft naming its problem.
NamesWhatItLands == "name" \notin CrashAt

\* What the search owes a draft whose template claims a speedup.
Demonstrates(d) == run.speedup => d.separating # NoCase

\* The states of a draft that no problem names.
Unlanded == States \ {"landed"}

OnceInv ==
  /\ run.step \in WorkSteps \cup {"finish"} =>
       corpus = <<>> /\ stored.state \in Unlanded /\ run.draft.state \in Unlanded
  /\ run.step = "harden" => Demonstrates(run.draft)
  /\ run.step = "finish" /\ ~ run.stopped => Demonstrates(run.draft)
  /\ run.step = "name" => stored.state \in Unlanded /\ Len(corpus) = 1
  /\ run.step = "clear" =>
       stored.state \in {"absent", "landed"} /\ Len(corpus) = 1
  /\ run.step = "idle" =>
       \/ corpus = <<>> /\ stored.state \in Unlanded \cup {"absent"}
       \/ Len(corpus) = 1 /\ stored.state \in {"absent", "landed"}
  /\ runs = 0 => run.step = "idle" /\ corpus = <<>> /\ stored.state = "absent"

LandedInv ==
  \A i \in 1..Len(corpus) :
    corpus[i].claimed /\ ~ corpus[i].stopped => corpus[i].separating # NoCase

(***************************************************************************)
(* Where a step leaves the store and the copy.                             *)
(***************************************************************************)

LEMMA UnlandedAdvanced ==
  ASSUME NEW d \in Draft, d.state \in OrderStates \ {"landed"},
         NEW state \in OrderStates \ {"landed"}
  PROVE  Advanced(d, state).state \in OrderStates \ {"landed"}
  BY AdvancedType, LaterType

\* A run at work is a run that was started, over a copy in the order.
LEMMA WorkingCopy ==
  ASSUME TypeInv, OnceInv, run.step \in WorkSteps
  PROVE  /\ runs # 0 /\ corpus = <<>>
         /\ stored \in Draft /\ stored.state \in Unlanded
         /\ run.draft \in Draft /\ run.draft.state \in OrderStates \ {"landed"}
  BY DEF TypeInv, TypeOK, Run, OnceInv, WorkSteps, Unlanded

\* A step that leaves the run at work.
LEMMA WorkGoesOn ==
  ASSUME OnceInv, run.step \in WorkSteps, UNCHANGED <<corpus, runs>>,
         run'.step \in WorkSteps, stored'.state \in Unlanded, run'.draft.state \in Unlanded,
         run'.step = "harden" => Demonstrates(run.draft)'
  PROVE  OnceInv'
  <1>1. runs' # 0 /\ corpus' = <<>>
    BY DEF OnceInv, WorkSteps
  <1> QED
    BY <1>1 DEF OnceInv, WorkSteps

\* A step that revises the draft and goes on short of the loop.
LEMMA WorkRevises ==
  ASSUME OnceInv, run.step \in WorkSteps, UNCHANGED <<corpus, runs>>,
         run'.step \in WorkSteps \ {"harden"}, run'.draft = stored',
         stored'.state \in OrderStates \ {"landed"}
  PROVE  OnceInv'
  BY WorkGoesOn DEF Unlanded, States

\* A step that goes on with the draft as it stands.
LEMMA WorkPasses ==
  ASSUME OnceInv, run.step \in WorkSteps, UNCHANGED <<corpus, runs, stored>>,
         run'.draft = run.draft, run'.step \in WorkSteps \ {"harden"}
  PROVE  OnceInv'
  <1>1. stored'.state \in Unlanded /\ run'.draft.state \in Unlanded
    BY DEF OnceInv
  <1> QED
    BY <1>1, WorkGoesOn

\* A step that ends the run's work.
LEMMA WorkEnds ==
  ASSUME OnceInv, run.step \in WorkSteps, UNCHANGED <<corpus, runs>>,
         run'.step = "finish", stored'.state \in Unlanded, run'.draft.state \in Unlanded,
         run'.stopped \/ Demonstrates(run.draft)'
  PROVE  OnceInv'
  <1>1. runs' # 0 /\ corpus' = <<>>
    BY DEF OnceInv, WorkSteps
  <1> QED
    BY <1>1 DEF OnceInv, WorkSteps

LEMMA WorkRejects ==
  ASSUME TypeInv, OnceInv, run.step \in WorkSteps, UNCHANGED <<corpus, runs>>, Reject
  PROVE  OnceInv'
  <1>1. /\ run'.step = "finish" /\ stored' = run'.draft /\ run'.stopped
        /\ stored'.state = "rejected"
    BY RejectedType DEF Reject, TypeInv, TypeOK, Run
  <1> QED
    BY <1>1, WorkEnds DEF Unlanded, States, OrderStates

LEMMA WorkStops ==
  ASSUME TypeInv, OnceInv, run.step \in WorkSteps, UNCHANGED <<corpus, runs>>, Stop
  PROVE  OnceInv'
  <1>1. /\ run'.step = "finish" /\ run'.draft = run.draft /\ UNCHANGED stored
        /\ run'.stopped
    BY DEF Stop, TypeInv, TypeOK, Run
  <1>2. stored'.state \in Unlanded /\ run'.draft.state \in Unlanded
    BY <1>1 DEF OnceInv
  <1> QED
    BY <1>1, <1>2, WorkEnds

\* A run that ends, or dies, before it lands leaves no problem.
LEMMA WorkIdles ==
  ASSUME OnceInv, run.step \in WorkSteps \cup {"finish"},
         UNCHANGED <<stored, corpus, runs>>, run' = Idle
  PROVE  OnceInv'
  <1>1. run'.step = "idle"
    BY DEF Idle
  <1>2. corpus = <<>> /\ stored.state \in Unlanded /\ runs # 0
    BY DEF OnceInv, WorkSteps
  <1> QED
    BY <1>1, <1>2 DEF OnceInv, WorkSteps

LEMMA OnceInit == Init => OnceInv
  BY DEF Init, OnceInv, Idle, NoDraft, WorkSteps

LEMMA OnceStep ==
  ASSUME NamesWhatItLands, TypeInv, CasesInv, OnceInv, [Next]_vars
  PROVE  OnceInv'
  <1> USE DEF TypeInv, TypeOK
  <1>0. /\ {"checked", "referenced", "agreed", "built", "paced", "searched", "drafted",
            "hardened"} \subseteq OrderStates \ {"landed"}
        /\ OrderStates \ {"landed"} \subseteq Unlanded /\ "rejected" \in Unlanded
    BY DEF OrderStates, Unlanded, States
  <1>1. ASSUME NEW bench \in Benches, NEW speedup \in BOOLEAN,
               NEW bounds \in Bounds, Begin(bench, speedup, bounds)
        PROVE  OnceInv'
    <2>1. stored' \in Draft /\ stored'.state = "drafted"
      BY <1>1 DEF Begin, NoDraft, Draft, States, OrderStates, NoAnswer, Answer,
                  NoCase, Evidence, Reasons
    <2>2. run' = Starting(stored', "checked", bench, speedup, bounds)
      BY <1>1 DEF Begin
    <2>3. run'.step = "check" /\ run'.draft = stored'
      BY <1>0, <2>1, <2>2, StartingType
    <2>4. corpus' = <<>> /\ runs' = 1
      BY <1>1 DEF Begin, OnceInv
    <2> QED
      BY <1>0, <2>1, <2>3, <2>4 DEF OnceInv
  <1>2. ASSUME NEW bench \in Benches, NEW speedup \in BOOLEAN,
               NEW bounds \in Bounds, Resume(bench, speedup, bounds)
        PROVE  OnceInv'
    <2>1. /\ stored.state \in Unlanded /\ stored.state \in OrderStates
          /\ corpus = <<>> /\ stored \in Draft
      BY <1>2 DEF Resume, OnceInv, Unlanded, States
    <2>2. StartsAt(stored, bench, speedup, bounds) \in OrderStates
      BY <2>1, StartsAtType
    <2>3. run'.step = "check" /\ run'.draft = stored
      BY <1>2, <2>1, <2>2, StartingType DEF Resume
    <2>4. stored' = stored /\ corpus' = corpus /\ runs' # 0
      BY <1>2 DEF Resume
    <2> QED
      BY <2>1, <2>3, <2>4 DEF OnceInv
  <1>3. CASE Check
    <2>1. run.step \in WorkSteps /\ UNCHANGED <<corpus, runs>>
      BY <1>3 DEF Check, WorkSteps
    <2>2. CASE Reject
      BY <2>1, <2>2, WorkRejects
    <2>3. CASE Write(Advanced(run.draft, "checked"), "reference")
      <3>1. /\ stored' = Advanced(run.draft, "checked") /\ run'.draft = stored'
            /\ run'.step = "reference"
        BY <2>3 DEF Write, Run
      <3>2. stored'.state \in OrderStates \ {"landed"}
        BY <1>0, <2>1, <3>1, WorkingCopy, UnlandedAdvanced
      <3> QED
        BY <2>1, <3>1, <3>2, WorkRevises DEF WorkSteps
    <2> QED
      BY <1>3, <2>2, <2>3 DEF Check
  <1>4. CASE Reference
    <2>1. run.step \in WorkSteps /\ UNCHANGED <<corpus, runs>>
      BY <1>4 DEF Reference, WorkSteps
    <2>2. CASE ReuseReference
      <3>1. /\ run'.draft = run.draft
            /\ run'.step = "agree" /\ UNCHANGED stored
        BY <2>2 DEF ReuseReference, Go, Run
      <3> QED
        BY <2>1, <3>1, WorkPasses DEF WorkSteps
    <2>3. CASE Write(Advanced(Answered(run.draft, "blind", run.bench["blind"]),
                              "referenced"), "agree")
      <3> DEFINE d == Answered(run.draft, "blind", run.bench["blind"])
      <3>1. "blind" \in Sites /\ run.bench["blind"] \in Configs
        BY <2>1, BenchType DEF Sites, WorkSteps
      <3>2. d \in Draft /\ d.state \in OrderStates \ {"landed"}
        BY <2>1, <3>1, WorkingCopy, AnsweredType
      <3>3. /\ stored' = Advanced(d, "referenced") /\ run'.draft = stored'
            /\ run'.step = "agree"
        BY <2>3 DEF Write, Run
      <3>4. stored'.state \in OrderStates \ {"landed"}
        BY <1>0, <3>2, <3>3, UnlandedAdvanced
      <3> QED
        BY <2>1, <3>3, <3>4, WorkRevises DEF WorkSteps
    <2>4. CASE run' = Idle /\ UNCHANGED stored
      BY <2>1, <2>4, WorkIdles
    <2> QED
      BY <1>4, <2>2, <2>3, <2>4 DEF Reference, AskReference
  <1>5. CASE Agree
    <2>1. run.step \in WorkSteps /\ UNCHANGED <<corpus, runs>>
      BY <1>5 DEF Agree, WorkSteps
    <2>2. CASE Reject
      BY <2>1, <2>2, WorkRejects
    <2>3. CASE Write(Advanced(Settled(run.draft), "agreed"), "build")
      <3>1. /\ stored' = Advanced(Settled(run.draft), "agreed")
            /\ run'.draft = stored'
            /\ run'.step = "build"
        BY <2>3 DEF Write, Run
      <3>2. stored'.state \in OrderStates \ {"landed"}
        BY <1>0, <2>1, <3>1, WorkingCopy, SettledType, UnlandedAdvanced
      <3> QED
        BY <2>1, <3>1, <3>2, WorkRevises DEF WorkSteps
    <2> QED
      BY <1>5, <2>2, <2>3 DEF Agree
  <1>6. CASE Build
    <2>1. run.step \in WorkSteps /\ UNCHANGED <<corpus, runs>>
      BY <1>6 DEF Build, WorkSteps
    <2>2. CASE ReuseGenerator \/ Go("pace")
      <3>1. /\ run'.draft = run.draft
            /\ run'.step = "pace" /\ UNCHANGED stored
        BY <2>2 DEF ReuseGenerator, Go, Run
      <3> QED
        BY <2>1, <3>1, WorkPasses DEF WorkSteps
    <2>3. ASSUME stored' = Advanced(Answered(run.draft, "inputs",
                                             run.bench["inputs"]), "built"),
                 run' = [run EXCEPT !.step = "pace", !.draft = stored',
                                    !.generator = paid + 1]
          PROVE  OnceInv'
      <3> DEFINE d == Answered(run.draft, "inputs", run.bench["inputs"])
      <3>1. "inputs" \in Sites /\ run.bench["inputs"] \in Configs
        BY <2>1, BenchType DEF Sites, WorkSteps
      <3>2. d \in Draft /\ d.state \in OrderStates \ {"landed"}
        BY <2>1, <3>1, WorkingCopy, AnsweredType
      <3>3. run'.draft = stored' /\ run'.step = "pace"
        BY <2>3 DEF Run
      <3>4. stored'.state \in OrderStates \ {"landed"}
        BY <1>0, <2>3, <3>2, UnlandedAdvanced
      <3> QED
        BY <2>1, <3>3, <3>4, WorkRevises DEF WorkSteps
    <2> QED
      BY <1>6, <2>2, <2>3 DEF Build, AskGenerator
  <1>7. CASE Pace
    <2>1. run.step \in WorkSteps /\ UNCHANGED <<corpus, runs>>
      BY <1>7 DEF Pace, WorkSteps
    <2>2. CASE \/ Go("search")
               \/ /\ run' = [run EXCEPT !.step = "search",
                                        !.naive = run.draft.answers["naive"].call]
                  /\ UNCHANGED <<stored, paid>>
      <3>1. /\ run'.draft = run.draft
            /\ run'.step = "search" /\ UNCHANGED stored
        BY <2>2 DEF Go, Run
      <3> QED
        BY <2>1, <3>1, WorkPasses DEF WorkSteps
    <2>3. ASSUME stored' = Advanced(Answered(run.draft, "naive",
                                             run.bench["naive"]), "paced"),
                 run' = [run EXCEPT !.step = "search", !.draft = stored',
                                    !.naive = paid + 1]
          PROVE  OnceInv'
      <3> DEFINE d == Answered(run.draft, "naive", run.bench["naive"])
      <3>1. "naive" \in Sites /\ run.bench["naive"] \in Configs
        BY <2>1, BenchType DEF Sites, WorkSteps
      <3>2. d \in Draft /\ d.state \in OrderStates \ {"landed"}
        BY <2>1, <3>1, WorkingCopy, AnsweredType
      <3>3. run'.draft = stored' /\ run'.step = "search"
        BY <2>3 DEF Run
      <3>4. stored'.state \in OrderStates \ {"landed"}
        BY <1>0, <2>3, <3>2, UnlandedAdvanced
      <3> QED
        BY <2>1, <3>3, <3>4, WorkRevises DEF WorkSteps
    <2>4. CASE Stop
      BY <2>1, <2>4, WorkStops
    <2> QED
      BY <1>7, <2>2, <2>3, <2>4 DEF Pace, ReuseNaive, AskNaive
  <1>8. CASE Search
    <2>1. run.step \in WorkSteps /\ UNCHANGED <<corpus, runs>>
      BY <1>8 DEF Search, WorkSteps
    <2>2. CASE Reject
      BY <2>1, <2>2, WorkRejects
    <2>3. CASE Stop
      BY <2>1, <2>3, WorkStops
    <2>4. CASE Write(Searched(run.draft, Evident, "none"), "harden")
      <3>1. "none" \in Reasons
        BY DEF Reasons
      <3>2. /\ stored' = Searched(run.draft, Evident, "none")
            /\ run'.draft = stored'
            /\ run'.step = "harden"
        BY <2>4 DEF Write, Run
      <3>3. /\ stored'.state = Later(run.draft.state, "searched")
            /\ stored'.separating = Evident
        BY <2>1, <3>1, <3>2, WorkingCopy, EvidentType, SearchedType
      <3>4. stored'.state \in Unlanded
        BY <1>0, <2>1, <3>3, WorkingCopy, LaterType
      <3>5. Evident # NoCase
        <4>1. Evident.blind # 0
          BY <1>8, EvidentType DEF Search, CasesInv, CasesSettled
        <4> QED
          BY <4>1 DEF NoCase
      <3>6. run'.draft.separating # NoCase
        BY <3>2, <3>3, <3>5
      <3> QED
        BY <2>1, <3>2, <3>4, <3>6, WorkGoesOn DEF WorkSteps, Demonstrates
    <2>5. ASSUME NEW reason \in Reasons \ {"none"},
                 stored' = Searched(run.draft, NoCase, reason),
                 run' = [run EXCEPT !.draft = stored', !.step = "finish",
                                    !.stopped = TRUE]
          PROVE  OnceInv'
      <3>1. NoCase \in Evidence
        BY DEF NoCase, Evidence
      <3>2. run'.draft = stored' /\ run'.step = "finish" /\ run'.stopped
        BY <2>5 DEF Run
      <3>3. stored'.state = Later(run.draft.state, "searched")
        BY <2>1, <2>5, <3>1, WorkingCopy, SearchedType
      <3>4. stored'.state \in Unlanded
        BY <1>0, <2>1, <3>3, WorkingCopy, LaterType
      <3> QED
        BY <2>1, <3>2, <3>4, WorkEnds
    <2>6. CASE Go("harden") /\ Demonstrates(run.draft)
      <3>1. /\ run'.draft = run.draft
            /\ run'.speedup = run.speedup
            /\ run'.step = "harden" /\ UNCHANGED stored
        BY <2>6 DEF Go, Run
      <3>2. stored'.state \in Unlanded /\ run'.draft.state \in Unlanded
        BY <2>1, <3>1 DEF OnceInv
      <3>3. run'.speedup => run'.draft.separating # NoCase
        BY <2>6, <3>1 DEF Demonstrates
      <3> QED
        BY <2>1, <3>1, <3>2, <3>3, WorkGoesOn DEF WorkSteps, Demonstrates
    <2>7. CASE TakeSearch
      <3>1. ~ Undemonstrated(NoCase) => Demonstrates(run.draft)
        BY DEF Undemonstrated, Demonstrates
      <3> QED
        BY <2>2, <2>3, <2>4, <2>5, <2>6, <2>7, <3>1 DEF TakeSearch
    <2>8. CASE PassSearch
      <3>1. ~ Undemonstrated(run.draft.separating) => Demonstrates(run.draft)
        BY DEF Undemonstrated, Demonstrates
      <3> QED
        BY <2>3, <2>6, <2>8, <3>1 DEF PassSearch
    <2> QED
      BY <1>8, <2>7, <2>8 DEF Search
  <1>9. CASE Harden
    <2>1. run.step \in WorkSteps /\ UNCHANGED <<corpus, runs>>
      BY <1>9 DEF Harden, WorkSteps
    <2>2. CASE Reject
      BY <2>1, <2>2, WorkRejects
    <2>3. CASE Stop
      BY <2>1, <2>3, WorkStops
    <2>4. ASSUME NEW answer \in Answer, Write(Hardened(run.draft, answer), "finish")
          PROVE  OnceInv'
      <3>1. /\ stored' = Hardened(run.draft, answer) /\ run'.draft = stored'
            /\ run'.step = "finish"
            /\ run'.speedup = run.speedup
        BY <2>4 DEF Write, Run
      <3>2. run.draft \in Draft /\ run.draft.state \in OrderStates \ {"landed"}
        BY <2>1, WorkingCopy
      <3>3. /\ stored'.state = Later(run.draft.state, "hardened")
            /\ stored'.separating = run.draft.separating
        BY <3>1, <3>2, HardenedType
      <3>4. stored'.state \in Unlanded
        BY <1>0, <3>2, <3>3, LaterType
      <3>5. Demonstrates(run.draft)
        BY <1>9 DEF Harden, OnceInv
      <3>6. Demonstrates(run.draft)'
        BY <3>1, <3>3, <3>5 DEF Demonstrates
      <3> QED
        BY <2>1, <3>1, <3>4, <3>6, WorkEnds
    <2>5. NoAnswer \in Answer
      BY DEF NoAnswer, Answer
    <2>6. [call |-> paid + 1, at |-> run.bench["discrimination"]] \in Answer
      <3>1. "discrimination" \in Sites
        BY DEF Sites
      <3> QED
        BY <1>9, <3>1, BenchType DEF Harden, Answer
    <2> QED
      BY <1>9, <2>2, <2>3, <2>4, <2>5, <2>6 DEF Harden
  <1>10. CASE Finish
    <2>1. CASE Hold
      BY <1>10, <2>1, WorkIdles DEF Finish, Hold
    <2>2. CASE Land
      <3>1. run'.step = "name" /\ UNCHANGED <<stored, runs>>
        BY <1>10, <2>2 DEF Finish, Land, Run
      <3>2. stored.state \in Unlanded /\ corpus = <<>> /\ runs # 0
        BY <1>10 DEF Finish, OnceInv
      <3>3. Len(corpus') = 1
        BY <2>2, <3>2 DEF Land
      <3> QED
        BY <3>1, <3>2, <3>3 DEF OnceInv, WorkSteps
    <2> QED
      BY <1>10, <2>1, <2>2 DEF Finish
  <1>11. CASE Name
    <2>1. run'.step = "clear" /\ stored'.state = "landed"
      BY <1>11 DEF Name, Write, Run, Draft
    <2>2. Len(corpus') = 1 /\ runs' # 0
      BY <1>11 DEF Name, OnceInv
    <2> QED
      BY <2>1, <2>2 DEF OnceInv, WorkSteps
  <1>12. CASE Clear
    <2>1. run'.step = "idle" /\ stored'.state = "absent"
      BY <1>12 DEF Clear, Idle, NoDraft
    <2>2. Len(corpus') = 1 /\ runs' # 0
      BY <1>12 DEF Clear, OnceInv
    <2> QED
      BY <2>1, <2>2 DEF OnceInv, WorkSteps
  <1>13. CASE Crash
    <2>1. run.step \in WorkSteps \cup {"finish"} \/ run.step = "clear"
      BY <1>13, OperatorAssumption DEF Crash, NamesWhatItLands, Steps, WorkSteps
    <2>2. CASE run.step \in WorkSteps \cup {"finish"}
      BY <1>13, <2>2, WorkIdles DEF Crash
    <2>3. CASE run.step = "clear"
      <3>1. run'.step = "idle" /\ stored'.state \in {"absent", "landed"}
        BY <1>13, <2>3 DEF Crash, Idle, OnceInv
      <3>2. Len(corpus') = 1 /\ runs' # 0
        BY <1>13, <2>3 DEF Crash, OnceInv
      <3> QED
        BY <3>1, <3>2 DEF OnceInv, WorkSteps
    <2> QED
      BY <2>1, <2>2, <2>3
  <1>14. CASE Sweep
    <2>1. stored.state = "landed" /\ stored'.state = "absent"
      BY <1>14 DEF Sweep, NoDraft
    <2>2. run.step \in {"clear", "idle"} /\ Len(corpus) = 1 /\ runs # 0
      <3>1. run.step \in WorkSteps \cup {"finish", "name", "clear", "idle"}
        BY DEF Run, Steps, WorkSteps
      <3> QED
        BY <2>1, <3>1 DEF OnceInv, Unlanded
    <2> QED
      BY <1>14, <2>1, <2>2 DEF Sweep, OnceInv, WorkSteps
  <1>15. CASE HandReject
    <2>1. stored.state \notin {"absent", "landed"} /\ UNCHANGED <<run, corpus, runs>>
      BY <1>15 DEF HandReject
    <2>2. stored'.state = "rejected"
      BY <1>15, RejectedType DEF HandReject
    <2> QED
      BY <1>0, <2>1, <2>2 DEF OnceInv, WorkSteps, Demonstrates
  <1>16. CASE UNCHANGED vars
    BY <1>16 DEF vars, OnceInv, WorkSteps, Demonstrates
  <1> QED
    BY <1>1, <1>2, <1>3, <1>4, <1>5, <1>6, <1>7, <1>8, <1>9, <1>10, <1>11,
       <1>12, <1>13, <1>14, <1>15, <1>16 DEF Next

(***************************************************************************)
(* What every landed problem holds.                                        *)
(***************************************************************************)

LEMMA LandedInit == Init => LandedInv
  BY DEF Init, LandedInv

\* Only landing adds a problem, and it adds the draft the loop finished.
LEMMA LandedStep ==
  ASSUME TypeInv, OnceInv, LandedInv, [Next]_vars
  PROVE  LandedInv'
  <1>1. CASE UNCHANGED corpus
    BY <1>1 DEF LandedInv
  <1>2. CASE Finish /\ Land
    <2>1. Landing \in Problem
      BY DEF Landing, Problem, Run, Draft, Answer, Sites, TypeInv, TypeOK
    <2>2. corpus = <<>>
      BY <1>2 DEF Finish, OnceInv
    <2>3. run.stopped \/ Demonstrates(run.draft)
      BY <1>2 DEF Finish, OnceInv
    <2>4. corpus' = Append(corpus, Landing)
      BY <1>2 DEF Land
    <2>5. Len(corpus') = 1 /\ corpus'[1] = Landing
      BY <2>1, <2>2, <2>4
    <2>6. Landing.claimed /\ ~ Landing.stopped => Landing.separating # NoCase
      BY <2>3 DEF Landing, Demonstrates
    <2> QED
      BY <2>5, <2>6 DEF LandedInv
  <1> QED
    BY <1>1, <1>2 DEF Next, vars, Begin, Resume, Check, Reference, Agree, Build,
       Pace, Search, Harden, Finish, Hold, Name, Clear, Crash, Sweep, HandReject

LEMMA NamedOnce ==
  ASSUME NamesWhatItLands
  PROVE  Spec => [](TypeInv /\ CasesInv /\ OnceInv /\ LandedInv)
  <1>1. TypeInv /\ CasesInv /\ OnceInv /\ LandedInv /\ [Next]_vars =>
          (TypeInv /\ CasesInv /\ OnceInv /\ LandedInv)'
    BY TypeStep, CasesStep, OnceStep, LandedStep
  <1> QED
    BY <1>1, TypeInit, CasesInit, OnceInit, LandedInit, PTL DEF Spec

\* However many runs carry a draft, wherever else they die and whoever rejects
\* beside them, it lands at most once: the draft that lands names its problem
\* before another run can take it up.
THEOREM LandsAtMostOnce == ASSUME NamesWhatItLands PROVE Spec => []LandsOnce
  <1>1. TypeInv /\ OnceInv => LandsOnce
    <2> SUFFICES ASSUME TypeInv, OnceInv PROVE LandsOnce
      OBVIOUS
    <2>1. run.step \in WorkSteps \cup {"finish", "name", "clear", "idle"}
      BY DEF TypeInv, TypeOK, Run, Steps, WorkSteps
    <2>2. corpus = <<>> \/ Len(corpus) = 1
      BY <2>1 DEF OnceInv
    <2>3. CASE corpus = <<>>
      BY <2>3 DEF LandsOnce
    <2>4. CASE Len(corpus) = 1
      BY <2>4 DEF LandsOnce
    <2> QED
      BY <2>2, <2>3, <2>4
  <1> QED
    BY <1>1, NamedOnce, PTL

\* A problem whose template claims a speedup lands with the case that
\* demonstrates it where no step stopped its run, though a resume may be started
\* with another flag, past the search (passage.py `to_searched`).
THEOREM ClaimsAreDemonstrated == ASSUME NamesWhatItLands PROVE Spec => []ClaimIsDemonstrated
  <1>1. LandedInv => ClaimIsDemonstrated
    BY DEF LandedInv, ClaimIsDemonstrated
  <1> QED
    BY <1>1, NamedOnce, PTL

(***************************************************************************)
(* The writing keeps its promise.  The fate a reader finds is open from    *)
(* the draft's first write until the transaction that lands the problem or *)
(* the write that rejects the draft, and nothing moves it after either.    *)
(***************************************************************************)

\* What a reader of the store and of the corpus finds of the writing.
Fate == IF Len(corpus) > 0 THEN "landed"
        ELSE IF stored.state = "absent" THEN "unwritten"
        ELSE IF /\ stored.state = "rejected"
                /\ run.step = "idle" \/ run.draft.state = "rejected"
             THEN "rejected"
        ELSE "open"

\* A run at work holds a writing that is open, whatever verdict its row bears,
\* and leaves it open or rejected.
LEMMA OpenStep ==
  ASSUME TypeInv, OnceInv, OnceInv', run.step \in WorkSteps,
         run'.step \in WorkSteps \cup {"finish", "idle"}, UNCHANGED corpus,
         run'.step = "idle" => UNCHANGED stored
  PROVE  Fate = "open" /\ Fate' \in {"open", "rejected"} /\ UNCHANGED Len(corpus)
  <1>1. /\ corpus = <<>> /\ stored.state \in Unlanded
        /\ run.step # "idle" /\ run.draft.state # "rejected"
    BY DEF OnceInv, TypeInv, TypeOK, WorkSteps, OrderStates
  <1>2. stored'.state \in Unlanded
    BY <1>1 DEF OnceInv
  <1>3. "absent" \notin Unlanded
    BY DEF Unlanded, States, OrderStates
  <1> QED
    BY <1>1, <1>2, <1>3 DEF Fate

\* A step maps to one of the promise's, or to none.
LEMMA PromiseStep ==
  ASSUME NamesWhatItLands, TypeInv, CasesInv, OnceInv, [Next]_vars
  PROVE  \/ Fate = "unwritten" /\ Fate' = "open" /\ UNCHANGED Len(corpus)
         \/ Fate = "open" /\ Fate' = "rejected" /\ UNCHANGED Len(corpus)
         \/ Fate = "open" /\ Fate' = "landed" /\ Len(corpus') = Len(corpus) + 1
         \/ UNCHANGED <<Fate, Len(corpus)>>
  <1>0. OnceInv'
    BY OnceStep
  <1>a. "absent" \notin Unlanded
    BY DEF Unlanded, States, OrderStates
  <1>1. ASSUME NEW bench \in Benches, NEW speedup \in BOOLEAN,
               NEW bounds \in Bounds, Begin(bench, speedup, bounds)
        PROVE  Fate = "unwritten" /\ Fate' = "open" /\ UNCHANGED Len(corpus)
    <2>1. corpus = <<>> /\ corpus' = <<>> /\ stored.state = "absent"
      BY <1>1 DEF Begin, OnceInv
    <2>2. stored'.state = "drafted"
      BY <1>1 DEF Begin, NoDraft
    <2> QED
      BY <2>1, <2>2 DEF Fate
  <1>2. ASSUME NEW bench, NEW speedup, NEW bounds, Resume(bench, speedup, bounds)
        PROVE  UNCHANGED <<Fate, Len(corpus)>>
    <2>1. stored.state # "rejected" /\ UNCHANGED <<stored, corpus>>
      BY <1>2 DEF Resume
    <2> QED
      BY <2>1 DEF Fate
  <1>3. CASE \/ Check \/ Reference \/ Agree \/ Build \/ Pace \/ Search \/ Harden
    <2>1. run.step \in WorkSteps /\ UNCHANGED corpus
      BY <1>3 DEF Check, Reference, Agree, Build, Pace, Search, Harden, WorkSteps
    <2>2. /\ run'.step \in WorkSteps \cup {"finish", "idle"}
          /\ run'.step = "idle" => UNCHANGED stored
      <3>1. CASE Reference
        <4>1. CASE ReuseReference
          BY <4>1 DEF TypeInv, TypeOK, Run, ReuseReference, Go, WorkSteps
        <4>2. CASE Write(Advanced(Answered(run.draft, "blind", run.bench["blind"]),
                                  "referenced"), "agree")
          BY <4>2 DEF TypeInv, TypeOK, Run, Write, WorkSteps
        <4>3. CASE run' = Idle /\ UNCHANGED stored
          BY <4>3 DEF Idle
        <4> QED
          BY <3>1, <4>1, <4>2, <4>3 DEF Reference, AskReference
      <3>2. CASE Check \/ Agree \/ Harden
        BY <3>2 DEF TypeInv, TypeOK, Run, Check, Agree, Harden, Reject, Stop, Write, WorkSteps
      <3>3. CASE Build \/ Pace
        BY <3>3 DEF TypeInv, TypeOK, Run, Build, ReuseGenerator, AskGenerator, Pace,
           ReuseNaive, AskNaive, Stop, Go, WorkSteps
      <3>4. CASE Search
        BY <3>4 DEF TypeInv, TypeOK, Run, Search, TakeSearch, PassSearch, Reject, Stop, Go,
           Write, WorkSteps
      <3> QED
        BY <1>3, <3>1, <3>2, <3>3, <3>4
    <2> QED
      BY <1>0, <2>1, <2>2, OpenStep
  <1>4. CASE Finish /\ Land
    <2>1. /\ corpus = <<>> /\ stored.state \in Unlanded
          /\ run.step # "idle" /\ run.draft.state = "hardened"
      BY <1>4 DEF Finish, Land, OnceInv
    <2>2. Len(corpus') = 1
      BY <2>1, <1>4 DEF Land
    <2> QED
      BY <1>a, <2>1, <2>2 DEF Fate
  <1>5. CASE (Finish /\ Hold) \/ Crash
    <2>1. run' = Idle /\ UNCHANGED <<stored, corpus>>
      BY <1>5 DEF Finish, Hold, Crash
    <2> QED
      BY <2>1 DEF Fate, Idle
  <1>6. CASE Name \/ Clear \/ Sweep
    <2>1. CASE Name \/ Clear
      BY <2>1 DEF Name, Clear, OnceInv, Fate
    <2>2. CASE Sweep
      <3>1. run.step \in WorkSteps \cup {"finish", "name", "clear", "idle"}
        BY DEF TypeInv, TypeOK, Run, Steps, WorkSteps
      <3>2. Len(corpus) = 1 /\ UNCHANGED corpus
        BY <2>2, <3>1 DEF Sweep, OnceInv, Unlanded
      <3> QED
        BY <3>2 DEF Fate
    <2> QED
      BY <1>6, <2>1, <2>2
  <1>7. CASE HandReject
    <2>1. /\ UNCHANGED <<run, corpus>>
          /\ stored.state \notin {"absent", "landed", "rejected"}
      BY <1>7 DEF HandReject
    <2>2. stored'.state = "rejected"
      BY <1>7, RejectedType DEF HandReject, TypeInv, TypeOK
    <2> QED
      BY <2>1, <2>2 DEF Fate
  <1>8. CASE UNCHANGED vars
    BY <1>8 DEF vars, Fate
  <1>9. Finish => (Finish /\ Hold) \/ (Finish /\ Land)
    BY DEF Finish
  <1> QED
    BY <1>1, <1>2, <1>3, <1>4, <1>5, <1>6, <1>7, <1>8, <1>9 DEF Next

\* Any number of runs, resumed with any bench, flag and bound, dying before any
\* step but the naming and rejected beside by anyone, ends the writing once: as
\* a rejection that no run is left to write over, or as one problem.
THEOREM KeepsThePromise == ASSUME NamesWhatItLands PROVE Spec => KeepsPromise
  <1>1. Init => Promise!Init
    BY DEF Init, Promise!Init, NoDraft
  <1>2. TypeInv /\ CasesInv /\ OnceInv /\ [Next]_vars =>
          [Promise!Next]_(Promise!vars)
    BY PromiseStep
    DEF Fate, Promise!Next, Promise!Open, Promise!Reject, Promise!Land,
        Promise!vars
  <1> QED
    BY <1>1, <1>2, NamedOnce, PTL DEF Spec, KeepsPromise, Promise!Spec

(***************************************************************************)
(* No answer is paid for twice, whoever rejects beside a run and wherever  *)
(* it dies.  The copy of a run at work may differ from the store in its    *)
(* state, and in nothing a site wrote.                                     *)
(***************************************************************************)

SameAnswers(d, e) == d.answers = e.answers /\ d.unseparated = e.unseparated

CopyInv ==
  run.step \notin {"idle", "clear"} =>
    /\ SameAnswers(stored, run.draft)
    /\ stored.state # "landed" /\ run.draft.state # "landed"

LEMMA AdvancedCopies ==
  ASSUME NEW d \in Draft, d.state \in OrderStates, d.state # "landed",
         NEW state \in OrderStates \ {"landed"}
  PROVE  /\ Advanced(d, state).state # "landed"
         /\ SameAnswers(Advanced(d, state), d)
  BY LaterType, AdvancedType DEF Advanced, SameAnswers, Draft

LEMMA RejectedCopies ==
  ASSUME NEW d \in Draft
  PROVE  Rejected(d).state # "landed" /\ SameAnswers(Rejected(d), d)
  BY DEF Rejected, SameAnswers, Draft

\* What a step writes it writes on the copy as well.
LEMMA WriteCopies ==
  ASSUME stored' = run'.draft, stored'.state # "landed"
  PROVE  CopyInv'
  BY DEF CopyInv, SameAnswers

\* A step that writes nothing leaves the two as they were.
LEMMA PassCopies ==
  ASSUME CopyInv, run.step \notin {"idle", "clear"}, UNCHANGED stored,
         run'.draft = run.draft
  PROVE  CopyInv'
  BY DEF CopyInv, SameAnswers

LEMMA RejectCopies ==
  ASSUME TypeInv, Reject
  PROVE  CopyInv'
  <1>1. run.draft \in Draft /\ stored' = Rejected(run.draft) /\ run'.draft = stored'
    BY DEF TypeInv, TypeOK, Run, Reject
  <1> QED
    BY <1>1, RejectedCopies, WriteCopies

LEMMA StopCopies ==
  ASSUME TypeInv, CopyInv, run.step \notin {"idle", "clear"},
         NEW step, Stop \/ Go(step)
  PROVE  CopyInv'
  <1>1. run'.draft = run.draft /\ UNCHANGED stored
    BY DEF TypeInv, TypeOK, Run, Stop, Go
  <1> QED
    BY <1>1, PassCopies

LEMMA IdleCopies ==
  ASSUME run' = Idle
  PROVE  CopyInv'
  BY DEF CopyInv, Idle

LEMMA CopyInit == Init => CopyInv
  BY DEF Init, CopyInv, Idle
\* The body of AnswersAreKept.
Kept ==
  \A s \in {"blind", "inputs", "naive"} :
    LET held == stored.answers[s]  new == stored'.answers[s] IN
    held.call # 0 /\ new.call \notin {0, held.call} =>
      \/ new.at # held.at
      \/ s = "naive" /\ stored.unseparated \in {"naive_finished", "canonical_too_slow"}

\* A step that asks no site pays for nothing a second time.
LEMMA SameIsKept ==
  ASSUME \A s \in {"blind", "inputs", "naive"} : stored'.answers[s] = stored.answers[s]
  PROVE  Kept
  BY DEF Kept

\* Nor does one that asks a site with no answer, or a site that moved.
LEMMA AskedIsKept ==
  ASSUME NEW site \in {"blind", "inputs", "naive"},
         \A s \in {"blind", "inputs", "naive"} \ {site} :
           stored'.answers[s] = stored.answers[s],
         \/ stored.answers[site].call = 0
         \/ stored'.answers[site].at # stored.answers[site].at
         \/ site = "naive" /\ stored.unseparated \in {"naive_finished", "canonical_too_slow"}
  PROVE  Kept
  BY DEF Kept

\* One more call, written on the copy and on the store.
LEMMA AnswerCopies ==
  ASSUME TypeInv, CopyInv, run.step \notin {"idle", "clear", "finish"},
         NEW site \in {"blind", "inputs", "naive"}, NEW state \in OrderStates \ {"landed"},
         stored' = Advanced(Answered(run.draft, site, run.bench[site]), state),
         run'.draft = stored',
         \/ ReAsks(run.draft, site, run.bench)
         \/ site = "naive" /\ DrawsAgain(run.draft, run.speedup)
  PROVE  CopyInv' /\ Kept
  <1> DEFINE d == Answered(run.draft, site, run.bench[site])
  <1>1. /\ run.draft \in Draft /\ run.draft.state \in OrderStates /\ run.draft.state # "landed"
        /\ run.bench \in Benches /\ paid \in Nat /\ SameAnswers(stored, run.draft)
    BY DEF TypeInv, TypeOK, Run, CopyInv
  <1>2. site \in Sites /\ run.bench[site] \in Configs
    BY <1>1, BenchType DEF Sites
  <1>3. /\ d \in Draft /\ d.state = run.draft.state
        /\ \A s \in Sites \ {site} : d.answers[s] = run.draft.answers[s]
    BY <1>1, <1>2, AnsweredType
  <1>4. d.answers[site].at = run.bench[site]
    BY <1>1, <1>2 DEF Answered, Draft
  <1> HIDE DEF d
  <1>5. Advanced(d, state).state # "landed" /\ SameAnswers(Advanced(d, state), d)
    BY <1>1, <1>3, AdvancedCopies
  <1>6. stored' = Advanced(d, state)
    BY DEF d
  <1>7. stored'.answers = d.answers
    BY <1>5, <1>6 DEF SameAnswers
  <1>8. \A s \in {"blind", "inputs", "naive"} \ {site} : stored'.answers[s] = stored.answers[s]
    BY <1>1, <1>3, <1>7 DEF SameAnswers, Sites
  <1>9. \/ stored.answers[site].call = 0
        \/ stored'.answers[site].at # stored.answers[site].at
        \/ site = "naive" /\ stored.unseparated \in {"naive_finished", "canonical_too_slow"}
    BY <1>1, <1>4, <1>7 DEF ReAsks, DrawsAgain, SameAnswers
  <1>10. Kept
    BY <1>8, <1>9, AskedIsKept
  <1>11. CopyInv'
    BY <1>5, <1>6, WriteCopies
  <1> QED
    BY <1>10, <1>11

\* A revision of the copy that asks no site.
LEMMA RevisionCopies ==
  ASSUME TypeInv, CopyInv, run.step \notin {"idle", "clear", "finish"},
         NEW d \in Draft, d.state = run.draft.state,
         \A s \in {"blind", "inputs", "naive"} : d.answers[s] = run.draft.answers[s],
         NEW state \in OrderStates \ {"landed"},
         stored' = Advanced(d, state), run'.draft = stored'
  PROVE  CopyInv' /\ Kept
  <1>1. /\ run.draft.state \in OrderStates /\ run.draft.state # "landed"
        /\ SameAnswers(stored, run.draft)
    BY DEF TypeInv, TypeOK, Run, CopyInv
  <1>2. Advanced(d, state).state # "landed" /\ SameAnswers(Advanced(d, state), d)
    BY <1>1, AdvancedCopies
  <1>3. \A s \in {"blind", "inputs", "naive"} : stored'.answers[s] = stored.answers[s]
    BY <1>1, <1>2 DEF SameAnswers
  <1> QED
    BY <1>2, <1>3, SameIsKept, WriteCopies

\* A rejection of the copy.
LEMMA RejectionCopies ==
  ASSUME TypeInv, CopyInv, run.step \notin {"idle", "clear"}, Reject
  PROVE  CopyInv' /\ Kept
  <1>1. run.draft \in Draft /\ stored' = Rejected(run.draft) /\ SameAnswers(stored, run.draft)
    BY DEF TypeInv, TypeOK, Run, Reject, CopyInv
  <1>2. stored'.answers = stored.answers
    BY <1>1, RejectedCopies DEF SameAnswers
  <1> QED
    BY <1>2, RejectCopies, SameIsKept
LEMMA CopyStep ==
  ASSUME TypeInv, CopyInv, Next
  PROVE  CopyInv' /\ Kept
  <1> USE DEF TypeInv, TypeOK
  <1>0. /\ run \in Run /\ stored \in Draft
        /\ {"checked", "referenced", "agreed", "built", "paced", "searched", "hardened"}
             \subseteq OrderStates \ {"landed"}
    BY DEF OrderStates
  <1>1. ASSUME NEW step, Stop \/ Go(step), run.step \notin {"idle", "clear"}
        PROVE  CopyInv' /\ Kept
    <2>1. UNCHANGED stored
      BY <1>1 DEF Stop, Go
    <2> QED
      BY <1>1, <2>1, StopCopies, SameIsKept
  <1>2. ASSUME UNCHANGED stored, run' = Idle
        PROVE  CopyInv' /\ Kept
    BY <1>2, IdleCopies, SameIsKept
  <1>3. ASSUME NEW bench \in Benches, NEW speedup \in BOOLEAN,
               NEW bounds \in Bounds, Begin(bench, speedup, bounds)
        PROVE  CopyInv' /\ Kept
    <2>1. /\ stored' \in Draft /\ stored'.state = "drafted"
          /\ \A s \in Sites : stored'.answers[s].call = 0
      BY <1>3 DEF Begin, NoDraft, Draft, States, OrderStates, NoAnswer, Answer,
                  NoCase, Evidence, Reasons
    <2>2. run' = Starting(stored', "checked", bench, speedup, bounds)
      BY <1>3 DEF Begin
    <2>3. run'.draft = stored'
      <3>1. "drafted" \in OrderStates /\ "checked" \in OrderStates
        BY DEF OrderStates
      <3> QED
        BY <2>1, <2>2, <3>1, StartingType
    <2>4. CopyInv'
      BY <2>1, <2>3, WriteCopies
    <2>5. Kept
      BY <2>1 DEF Kept, Sites
    <2> QED
      BY <2>4, <2>5
  <1>4. ASSUME NEW bench \in Benches, NEW speedup \in BOOLEAN,
               NEW bounds \in Bounds, Resume(bench, speedup, bounds)
        PROVE  CopyInv' /\ Kept
    <2>1. stored.state \in OrderStates /\ stored.state # "landed" /\ stored' = stored
      BY <1>4 DEF Resume, Draft, States
    <2>2. StartsAt(stored, bench, speedup, bounds) \in OrderStates
      BY <2>1, StartsAtType
    <2>3. run'.draft = stored
      BY <1>4, <2>1, <2>2, StartingType DEF Resume
    <2>4. CopyInv'
      BY <2>1, <2>3, WriteCopies
    <2> QED
      BY <2>1, <2>4, SameIsKept
  <1>5. CASE Check
    <2>1. CASE Reject
      BY <1>5, <2>1, RejectionCopies DEF Check
    <2>2. CASE Write(Advanced(run.draft, "checked"), "reference")
      <3>1. stored' = Advanced(run.draft, "checked") /\ run'.draft = stored'
        BY <2>2 DEF Write, Run
      <3>2. run.draft \in Draft /\ run.step \notin {"idle", "clear", "finish"}
        BY <1>5 DEF Check, Run
      <3> QED
        BY <1>0, <3>1, <3>2, RevisionCopies
    <2> QED
      BY <1>5, <2>1, <2>2 DEF Check
  <1>6. CASE Reference
    <2>1. run.step \notin {"idle", "clear", "finish"}
      BY <1>6 DEF Reference
    <2>2. CASE ReuseReference
      BY <1>1, <2>1, <2>2 DEF ReuseReference
    <2>3. CASE run' = Idle /\ UNCHANGED stored
      BY <1>2, <2>3
    <2>4. ASSUME ReAsks(run.draft, "blind", run.bench),
                 Write(Advanced(Answered(run.draft, "blind", run.bench["blind"]),
                                "referenced"), "agree")
          PROVE  CopyInv' /\ Kept
      <3>1. /\ stored' = Advanced(Answered(run.draft, "blind", run.bench["blind"]),
                                  "referenced")
            /\ run'.draft = stored'
        BY <2>4 DEF Write, Run
      <3> QED
        BY <1>0, <2>1, <2>4, <3>1, AnswerCopies
    <2> QED
      BY <1>6, <2>2, <2>3, <2>4 DEF Reference, AskReference
  <1>7. CASE Agree
    <2>1. CASE Reject
      BY <1>7, <2>1, RejectionCopies DEF Agree
    <2>2. CASE Write(Advanced(Settled(run.draft), "agreed"), "build")
      <3>1. stored' = Advanced(Settled(run.draft), "agreed") /\ run'.draft = stored'
        BY <2>2 DEF Write, Run
      <3>2. run.draft \in Draft /\ run.step \notin {"idle", "clear", "finish"}
        BY <1>7 DEF Agree, Run
      <3>3. /\ Settled(run.draft) \in Draft /\ Settled(run.draft).state = run.draft.state
            /\ Settled(run.draft).answers = run.draft.answers
        BY <3>2, SettledType
      <3> QED
        BY <1>0, <3>1, <3>2, <3>3, RevisionCopies
    <2> QED
      BY <1>7, <2>1, <2>2 DEF Agree
  <1>8. CASE Build
    <2>1. run.step \notin {"idle", "clear", "finish"}
      BY <1>8 DEF Build
    <2>2. CASE ReuseGenerator
      <3>1. UNCHANGED stored /\ run'.draft = run.draft
        BY <2>2 DEF ReuseGenerator, Run
      <3> QED
        BY <2>1, <3>1, PassCopies, SameIsKept
    <2>3. ASSUME ReAsks(run.draft, "inputs", run.bench),
                 stored' = Advanced(Answered(run.draft, "inputs",
                                             run.bench["inputs"]), "built"),
                 run' = [run EXCEPT !.step = "pace", !.draft = stored',
                                    !.generator = paid + 1]
          PROVE  CopyInv' /\ Kept
      <3>1. run'.draft = stored'
        BY <2>3 DEF Run
      <3> QED
        BY <1>0, <2>1, <2>3, <3>1, AnswerCopies
    <2>4. CASE Go("pace")
      BY <1>1, <2>1, <2>4
    <2> QED
      BY <1>8, <2>2, <2>3, <2>4 DEF Build, AskGenerator
  <1>9. CASE Pace
    <2>1. run.step \notin {"idle", "clear", "finish"}
      BY <1>9 DEF Pace
    <2>2. CASE Go("search") \/ Stop
      BY <1>1, <2>1, <2>2
    <2>3. CASE /\ run' = [run EXCEPT !.step = "search",
                                     !.naive = run.draft.answers["naive"].call]
               /\ UNCHANGED <<stored, paid>>
      <3>1. UNCHANGED stored /\ run'.draft = run.draft
        BY <2>3 DEF Run
      <3> QED
        BY <2>1, <3>1, PassCopies, SameIsKept
    <2>4. ASSUME ~ ReusesNaive,
                 stored' = Advanced(Answered(run.draft, "naive",
                                             run.bench["naive"]), "paced"),
                 run' = [run EXCEPT !.step = "search", !.draft = stored',
                                    !.naive = paid + 1]
          PROVE  CopyInv' /\ Kept
      <3>1. run'.draft = stored'
        BY <2>4 DEF Run
      <3>2. \/ ReAsks(run.draft, "naive", run.bench)
            \/ DrawsAgain(run.draft, run.speedup)
        BY <2>4 DEF ReusesNaive
      <3> QED
        BY <1>0, <2>1, <2>4, <3>1, <3>2, AnswerCopies
    <2> QED
      BY <1>9, <2>2, <2>3, <2>4 DEF Pace, ReuseNaive, AskNaive
  <1>10. CASE Search
    <2>1. run.step \notin {"idle", "clear", "finish"}
      BY <1>10 DEF Search
    <2>2. CASE Reject
      BY <2>1, <2>2, RejectionCopies
    <2>3. CASE Stop \/ Go("harden")
      BY <1>1, <2>1, <2>3
    <2>4. ASSUME NEW case \in Evidence, NEW reason \in Reasons,
                 stored' = Searched(run.draft, case, reason), run'.draft = stored'
          PROVE  CopyInv' /\ Kept
      <3>1. /\ run.draft \in Draft /\ run.draft.state \in OrderStates
            /\ run.draft.state # "landed" /\ SameAnswers(stored, run.draft)
        BY <2>1 DEF Run, CopyInv
      <3>2. /\ stored'.state = Later(run.draft.state, "searched")
            /\ stored'.answers = run.draft.answers
        BY <2>4, <3>1, SearchedType
      <3>3. stored'.state # "landed"
        BY <1>0, <3>1, <3>2, LaterType
      <3>4. stored'.answers = stored.answers
        BY <3>1, <3>2 DEF SameAnswers
      <3> QED
        BY <2>4, <3>3, <3>4, WriteCopies, SameIsKept
    <2>5. CASE Write(Searched(run.draft, Evident, "none"), "harden")
      <3>1. /\ stored' = Searched(run.draft, Evident, "none") /\ run'.draft = stored'
            /\ "none" \in Reasons
        BY <2>5 DEF Write, Run, Reasons
      <3> QED
        BY <2>4, <3>1, EvidentType
    <2>6. ASSUME NEW reason \in Reasons \ {"none"},
                 stored' = Searched(run.draft, NoCase, reason),
                 run' = [run EXCEPT !.draft = stored', !.step = "finish",
                                    !.stopped = TRUE]
          PROVE  CopyInv' /\ Kept
      <3>1. NoCase \in Evidence /\ run'.draft = stored'
        BY <2>6 DEF NoCase, Evidence, Run
      <3> QED
        BY <2>4, <2>6, <3>1
    <2> QED
      BY <1>10, <2>2, <2>3, <2>5, <2>6 DEF Search, TakeSearch, PassSearch
  <1>11. CASE Harden
    <2>1. run.step \notin {"idle", "clear", "finish"}
      BY <1>11 DEF Harden
    <2>2. CASE Reject
      BY <2>1, <2>2, RejectionCopies
    <2>3. CASE Stop
      BY <1>1, <2>1, <2>3
    <2>4. ASSUME NEW answer \in Answer, Write(Hardened(run.draft, answer), "finish")
          PROVE  CopyInv' /\ Kept
      <3>1. stored' = Hardened(run.draft, answer) /\ run'.draft = stored'
        BY <2>4 DEF Write, Run
      <3> DEFINE e == [run.draft EXCEPT !.loop = Evident,
                         !.answers = [@ EXCEPT !["discrimination"] = answer]]
      <3>2. /\ e \in Draft /\ e.state = run.draft.state
            /\ \A s \in {"blind", "inputs", "naive"} : e.answers[s] = run.draft.answers[s]
        BY EvidentType DEF Draft, Sites, Run
      <3>3. stored' = Advanced(e, "hardened")
        BY <3>1 DEF Hardened
      <3> HIDE DEF e
      <3> QED
        BY <1>0, <2>1, <3>1, <3>2, <3>3, RevisionCopies
    <2>5. NoAnswer \in Answer
      BY DEF NoAnswer, Answer
    <2>6. [call |-> paid + 1, at |-> run.bench["discrimination"]] \in Answer
      <3>1. "discrimination" \in Sites
        BY DEF Sites
      <3> QED
        BY <1>11, <3>1, BenchType DEF Harden, Answer
    <2> QED
      BY <1>11, <2>2, <2>3, <2>4, <2>5, <2>6 DEF Harden
  <1>12. CASE Finish
    <2>1. CASE Hold
      BY <1>2, <1>12, <2>1 DEF Finish, Hold
    <2>2. CASE Land
      <3>1. UNCHANGED stored /\ run'.draft = run.draft /\ run.step \notin {"idle", "clear"}
        BY <1>12, <2>2 DEF Finish, Land, Run
      <3> QED
        BY <3>1, PassCopies, SameIsKept
    <2> QED
      BY <1>12, <2>1, <2>2 DEF Finish
  <1>13. CASE Name
    <2>1. /\ stored' = [run.draft EXCEPT !.state = "landed"] /\ run'.step = "clear"
          /\ run.draft \in Draft /\ SameAnswers(stored, run.draft)
      BY <1>13 DEF Name, Write, Run, CopyInv
    <2>2. stored'.answers = stored.answers
      BY <2>1 DEF Draft, SameAnswers
    <2>3. CopyInv'
      BY <2>1 DEF CopyInv
    <2> QED
      BY <2>2, <2>3, SameIsKept
  <1>14. CASE Clear
    <2>1. stored' = NoDraft /\ run' = Idle
      BY <1>14 DEF Clear
    <2>2. Kept
      BY <2>1 DEF Kept, NoDraft, NoAnswer, Sites
    <2> QED
      BY <2>1, <2>2, IdleCopies
  <1>15. CASE Crash
    BY <1>2, <1>15 DEF Crash
  <1>16. CASE Sweep
    <2>1. stored' = NoDraft /\ run' = run /\ run.step \in {"idle", "clear"}
      BY <1>16 DEF Sweep, CopyInv
    <2>2. Kept
      BY <2>1 DEF Kept, NoDraft, NoAnswer, Sites
    <2>3. CopyInv'
      BY <2>1 DEF CopyInv
    <2> QED
      BY <2>2, <2>3
  <1>17. CASE HandReject
    <2>1. /\ SameAnswers(stored', stored) /\ stored'.state # "landed" /\ run' = run
      BY <1>17, RejectedCopies DEF HandReject
    <2>2. Kept
      BY <2>1, SameIsKept DEF SameAnswers
    <2>3. CopyInv'
      BY <2>1 DEF CopyInv, SameAnswers
    <2> QED
      BY <2>2, <2>3
  <1> QED
    BY <1>3, <1>4, <1>5, <1>6, <1>7, <1>8, <1>9, <1>10, <1>11,
       <1>12, <1>13, <1>14, <1>15, <1>16, <1>17 DEF Next

\* However many runs carry a draft, wherever each dies and whoever rejects
\* beside it, an answer the draft holds is paid for again only where its site
\* moved, or where a search asked for another naive solution.
THEOREM NoAnswerIsPaidForTwice == Spec => AnswersAreKept
  <1>1. TypeInv /\ CopyInv /\ [Next]_vars => (TypeInv /\ CopyInv)'
    <2>1. TypeInv /\ CopyInv /\ UNCHANGED vars => CopyInv'
      BY DEF CopyInv, SameAnswers, vars
    <2> QED
      BY <2>1, TypeStep, CopyStep
  <1>2. TypeInv /\ CopyInv /\ [Next]_vars =>
          [\A s \in {"blind", "inputs", "naive"} :
             LET held == stored.answers[s]  new == stored'.answers[s] IN
             held.call # 0 /\ new.call \notin {0, held.call} =>
               \/ new.at # held.at
               \/ s = "naive" /\ stored.unseparated \in {"naive_finished",
                                                         "canonical_too_slow"}]_vars
    BY CopyStep DEF Kept
  <1> QED
    BY <1>1, <1>2, TypeInit, CopyInit, PTL DEF Spec, AnswersAreKept
=============================================================================
