------------------------------- MODULE Writing -------------------------------
(***************************************************************************)
(* One writing of the generation pipeline: the draft a call wrote, the     *)
(* runs that carry it through its steps, and the problem it lands as       *)
(* (generation/passage.py, drafting.py, resuming.py, run.py, landing.py).  *)
(*                                                                         *)
(* A run is a process of the command line: `generate` writes the draft and *)
(* `generate --resume` carries a held one.  It works on a copy of the      *)
(* draft and writes the copy back after every step that moved it, so a     *)
(* process that dies leaves the draft where it stopped.  Between two runs  *)
(* the operator may have moved the bench, edited the template's `speedup`  *)
(* or raised a bound of the search, so each run chooses these three anew.  *)
(*                                                                         *)
(* What a call wrote is the number of the call.  What a local run found is *)
(* the calls whose answers it was run over, which is all that the          *)
(* properties tell apart.  The drafts of a store share nothing but the     *)
(* store, so the module follows one.                                       *)
(***************************************************************************)
EXTENDS Naturals, Sequences

CONSTANTS
  Configs,         \* a configuration together with the prompt hash it sends
  Nowhere,         \* the configuration of a site that never answered
  Benches,         \* the benches a run may be started at
  Bounds,          \* the values of the search's bounds and its revision
  Unwalked,        \* the bounds of a draft no search walked
  CrashAt,         \* the steps before which the process may die
  RejectDuringRun, \* whether `--reject` may be run beside a sweep
  MaxCalls,        \* bound: the answers a draft is given
  MaxRuns          \* bound: the runs that are started

\* The sites a step asks, after the statement's own call.
Sites == {"blind", "inputs", "naive", "discrimination"}

\* The steps of a run that ends by itself, in the order it takes them.
Steps == {"check", "reference", "agree", "build", "pace", "search", "harden",
          "finish", "name", "clear"}

ASSUME BenchAssumption ==
  /\ Benches \subseteq [Sites -> Configs]
  /\ Nowhere \notin Configs
  /\ Unwalked \notin Bounds

ASSUME OperatorAssumption ==
  /\ CrashAt \subseteq Steps
  /\ RejectDuringRun \in BOOLEAN

ASSUME LimitAssumption == MaxCalls \in Nat /\ MaxRuns \in Nat

VARIABLES
  stored,  \* the draft as its store holds it
  run,     \* the passage of the run at work, and the step it takes next
  corpus,  \* the problems landed from this draft, in order
  paid,    \* how many answers a draft was given
  runs     \* how many runs were started

vars == <<stored, run, corpus, paid, runs>>

-----------------------------------------------------------------------------
(***************************************************************************)
(* The draft.                                                              *)
(***************************************************************************)

\* `WritingState` in the order the steps reach it; `rejected` is terminal
\* rather than a point of the order.
Rank == [drafted |-> 0, checked |-> 1, referenced |-> 2, agreed |-> 3,
         built |-> 4, paced |-> 5, searched |-> 6, hardened |-> 7, landed |-> 8]

Order == <<"drafted", "checked", "referenced", "agreed", "built", "paced",
           "searched", "hardened", "landed">>

OrderStates == {"drafted", "checked", "referenced", "agreed", "built",
                "paced", "searched", "hardened", "landed"}

States == OrderStates \cup {"rejected"}

\* Why a search stored no case: the reasons a second draw answers, the ones a
\* raised bound answers (`canonical_too_slow` is both), and the rest.
Reasons == {"none", "naive_finished", "canonical_too_slow", "bounded", "other"}

Answer == [call : Nat, at : Configs \cup {Nowhere}]
NoAnswer == [call |-> 0, at |-> Nowhere]

\* The answers a search or a loop was run over; all zero where none was.
Evidence == [blind : Nat, inputs : Nat, naive : Nat]
NoCase == [blind |-> 0, inputs |-> 0, naive |-> 0]

Draft == [state : States \cup {"absent"}, answers : [Sites -> Answer],
          cases : Nat, separating : Evidence, unseparated : Reasons,
          walked : Bounds \cup {Unwalked}, loop : Evidence]

NoDraft == [state |-> "absent", answers |-> [s \in Sites |-> NoAnswer],
            cases |-> 0, separating |-> NoCase, unseparated |-> "none",
            walked |-> Unwalked, loop |-> NoCase]

Later(one, other) == IF Rank[other] > Rank[one] THEN other ELSE one

\* Forward only: a resume takes again the local steps before its start.
Advanced(d, state) == [d EXCEPT !.state = Later(d.state, state)]

Rejected(d) == [d EXCEPT !.state = "rejected"]

Answered(d, site, config) ==
  [d EXCEPT !.answers = [@ EXCEPT ![site] = [call |-> paid + 1, at |-> config]]]

-----------------------------------------------------------------------------
(***************************************************************************)
(* Where a resume starts and what it pays for.                             *)
(***************************************************************************)

Reaches(start, step) == Rank[step] >= Rank[start]

NextStep(d) == IF d.state = "landed" THEN "landed" ELSE Order[Rank[d.state] + 2]

\* MUTANT: one moved site asks every site again.
ReAsksAll(d, site, bench) ==
  d.answers[site].call = 0 \/ \E s \in Sites : d.answers[s].at # bench[s]

ReAsks(d, site, bench) ==
  d.answers[site].call = 0 \/ d.answers[site].at # bench[site]

DrawsAgain(d, speedup) ==
  /\ d.state = "searched"
  /\ speedup
  /\ d.unseparated \in {"naive_finished", "canonical_too_slow"}

ReWalks(d, speedup, bounds) ==
  /\ d.state = "searched"
  /\ speedup
  /\ d.separating = NoCase
  /\ d.unseparated \in {"bounded", "canonical_too_slow"}
  /\ d.walked # bounds

\* A site that answered, and would be asked another question now.
Moved(d, site, bench) == d.answers[site].call # 0 /\ ReAsks(d, site, bench)

\* The first step whose site moved, and otherwise the one a corrected flag, a
\* raised bound or a second draw releases the draft to.
StartsAt(d, bench, speedup, bounds) ==
  IF Moved(d, "blind", bench)                   THEN "referenced"
  ELSE IF Moved(d, "inputs", bench)             THEN "built"
  ELSE IF Moved(d, "naive", bench)              THEN "paced"
  ELSE IF Moved(d, "discrimination", bench)     THEN "hardened"
  ELSE IF d.state = "searched" /\ ~ speedup     THEN "hardened"
  ELSE IF ReWalks(d, speedup, bounds)           THEN "searched"
  ELSE IF DrawsAgain(d, speedup)                THEN "paced"
  ELSE NextStep(d)

\* Whether a resume would carry the draft past the state it stopped at.
Advances(d, bench, speedup, bounds) ==
  speedup /\ d.separating = NoCase =>
    Reaches(StartsAt(d, bench, speedup, bounds), "searched")

-----------------------------------------------------------------------------
(***************************************************************************)
(* The run.                                                                *)
(***************************************************************************)

NoBench == [s \in Sites |-> Nowhere]

\* `Passage`: the copy of the draft, where the run started, what the operator
\* started it with, the input generator and the naive solution in hand (zero
\* where the run has none), and whether a step stopped it short.
Run == [step : Steps \cup {"idle"}, draft : Draft, start : OrderStates,
        bench : Benches \cup {NoBench}, speedup : BOOLEAN,
        bounds : Bounds \cup {Unwalked}, generator : Nat, naive : Nat,
        stopped : BOOLEAN]

Idle == [step |-> "idle", draft |-> NoDraft, start |-> "drafted",
         bench |-> NoBench, speedup |-> FALSE, bounds |-> Unwalked,
         generator |-> 0, naive |-> 0, stopped |-> FALSE]

Starting(d, start, bench, speedup, bounds) ==
  [Idle EXCEPT !.step = "check", !.draft = d, !.start = start,
               !.bench = bench, !.speedup = speedup, !.bounds = bounds]

\* `write_one` up to its first write: the statement's call answered.  Its id is
\* minted with it, so a draft is begun once.
Begin(bench, speedup, bounds) ==
  /\ runs = 0 /\ MaxRuns > 0
  /\ stored' = [NoDraft EXCEPT !.state = "drafted"]
  /\ run' = Starting(stored', "checked", bench, speedup, bounds)
  /\ runs' = 1
  /\ UNCHANGED <<corpus, paid>>

\* `generate --resume`: a landed draft was swept before the store was read, and
\* a rejected one or one no step would advance is left where it is.
Resume(bench, speedup, bounds) ==
  /\ run.step = "idle" /\ runs < MaxRuns
  /\ stored.state \notin {"absent", "landed", "rejected"}
  /\ Advances(stored, bench, speedup, bounds)
  /\ run' = Starting(stored, StartsAt(stored, bench, speedup, bounds),
                     bench, speedup, bounds)
  /\ runs' = runs + 1
  /\ UNCHANGED <<stored, corpus, paid>>

\* The next step over the copy as it stands, nothing written.
Go(step) ==
  /\ run' = [run EXCEPT !.step = step]
  /\ UNCHANGED <<stored, paid>>

\* A step that stops the run short of the ones after it.
Stop ==
  /\ run' = [run EXCEPT !.step = "finish", !.stopped = TRUE]
  /\ UNCHANGED <<stored, paid>>

\* `held`: the revised draft is written whole over whatever the store holds.
Write(d, step) ==
  /\ stored' = d
  /\ run' = [run EXCEPT !.draft = d, !.step = step]

\* MUTANT: the step that rejects lets the run go on to the next one.
RejectAndGoOn ==
  /\ stored' = Rejected(run.draft)
  /\ run' = [run EXCEPT !.draft = stored',
                        !.step = [check |-> "reference", agree |-> "build",
                                  search |-> "harden", harden |-> "finish"][@]]
  /\ UNCHANGED paid

\* `rejected`: a gate reached, which also stops the run.
Reject ==
  /\ stored' = Rejected(run.draft)
  /\ run' = [run EXCEPT !.draft = stored', !.step = "finish", !.stopped = TRUE]
  /\ UNCHANGED paid

\* One more call whose answer the draft keeps.
Pay == paid < MaxCalls /\ paid' = paid + 1

\* The canonical against what its own call declared.
Check ==
  /\ run.step = "check"
  /\ \/ Reject
     \/ Write(Advanced(run.draft, "checked"), "reference") /\ UNCHANGED paid
  /\ UNCHANGED <<corpus, runs>>

\* The reference, asked for where its site moved.  A call that fails raises,
\* which ends the run with the draft as the store holds it.
ReuseReference ==
  /\ ~ ReAsks(run.draft, "blind", run.bench)
  /\ Go("agree")

AskReference ==
  /\ ReAsks(run.draft, "blind", run.bench)
  /\ \/ /\ Pay
        /\ Write(Advanced(Answered(run.draft, "blind", run.bench["blind"]),
                          "referenced"), "agree")
     \/ run' = Idle /\ UNCHANGED <<stored, paid>>

Reference ==
  /\ run.step = "reference"
  /\ ReuseReference \/ AskReference
  /\ UNCHANGED <<corpus, runs>>

\* MUTANT: a settled set is kept by the runs after the one that settled it.
SettledOnce(d) ==
  IF d.cases # 0 THEN d ELSE [d EXCEPT !.cases = d.answers["blind"].call]

\* The reference against the canonical: what both answer is the case set.
Settled(d) == [d EXCEPT !.cases = d.answers["blind"].call]

Agree ==
  /\ run.step = "agree"
  /\ \/ Reject
     \/ /\ Write(Advanced(Settled(run.draft), "agreed"), "build")
        /\ UNCHANGED paid
  /\ UNCHANGED <<corpus, runs>>

\* The input generator.  A call that fails leaves the run without one, whatever
\* the draft holds from an earlier run, and stops nothing here.
ReuseGenerator ==
  /\ ~ ReAsks(run.draft, "inputs", run.bench)
  /\ run' = [run EXCEPT !.step = "pace",
                        !.generator = run.draft.answers["inputs"].call]
  /\ UNCHANGED <<stored, paid>>

AskGenerator ==
  /\ ReAsks(run.draft, "inputs", run.bench)
  /\ \/ /\ Pay
        /\ stored' = Advanced(Answered(run.draft, "inputs", run.bench["inputs"]),
                              "built")
        /\ run' = [run EXCEPT !.step = "pace", !.draft = stored',
                              !.generator = paid + 1]
     \/ Go("pace")

Build ==
  /\ run.step = "build"
  /\ ReuseGenerator \/ AskGenerator
  /\ UNCHANGED <<corpus, runs>>

\* A speedup is claimed and there is a generator to make inputs with.
Measurable == run.speedup /\ run.generator # 0

ReusesNaive ==
  /\ ~ ReAsks(run.draft, "naive", run.bench)
  /\ ~ DrawsAgain(run.draft, run.speedup)

\* The naive solution, run against the settled cases whether it is new or
\* stored.  A call that fails, or a solution wrong on a case, stops the run.
ReuseNaive ==
  /\ ReusesNaive
  /\ \/ /\ run' = [run EXCEPT !.step = "search",
                              !.naive = run.draft.answers["naive"].call]
        /\ UNCHANGED <<stored, paid>>
     \/ Stop

AskNaive ==
  /\ ~ ReusesNaive
  /\ \/ /\ Pay
        /\ stored' = Advanced(Answered(run.draft, "naive", run.bench["naive"]),
                              "paced")
        /\ run' = [run EXCEPT !.step = "search", !.draft = stored',
                              !.naive = paid + 1]
     \/ Stop

Pace ==
  /\ run.step = "pace"
  /\ \/ ~ Measurable /\ Go("search")
     \/ Measurable /\ (ReuseNaive \/ AskNaive)
  /\ UNCHANGED <<corpus, runs>>

\* The answers a local run reads: the reference of the draft, and the generator
\* and the naive solution the run has in hand.
Evident == [blind |-> run.draft.answers["blind"].call,
            inputs |-> run.generator, naive |-> run.naive]

\* MUTANT: the claim of a template is not read.
NeverUndemonstrated(case) == FALSE

Undemonstrated(case) == run.speedup /\ case = NoCase

\* What a search leaves on the draft: the case, or why there is none, and the
\* bounds it ran under.
Searched(d, case, reason) ==
  Advanced([d EXCEPT !.separating = case, !.unseparated = reason,
                     !.walked = run.bounds], "searched")

\* The search between the canonical and the naive solution, taken where the run
\* starts no later than it.  A run that starts past it carries the stored case.
TakeSearch ==
  /\ Reaches(run.start, "searched")
  /\ \/ Measurable /\ Reject
     \/ /\ Measurable
        /\ Write(Searched(run.draft, Evident, "none"), "harden")
        /\ UNCHANGED paid
     \/ /\ Measurable
        /\ \E reason \in Reasons \ {"none"} :
             /\ stored' = Searched(run.draft, NoCase, reason)
             /\ run' = [run EXCEPT !.draft = stored', !.step = "finish",
                                   !.stopped = TRUE]
        /\ UNCHANGED paid
     \/ ~ Measurable /\ IF Undemonstrated(NoCase) THEN Stop ELSE Go("harden")

PassSearch ==
  /\ ~ Reaches(run.start, "searched")
  /\ IF Undemonstrated(run.draft.separating) THEN Stop ELSE Go("harden")

Search ==
  /\ run.step = "search"
  /\ TakeSearch \/ PassSearch
  /\ UNCHANGED <<corpus, runs>>

\* The mutation loop over the settled cases: a disagreement rejects, a round
\* whose call failed stops the run, and a loop that left no mutant standing
\* before its first round made no call.
Hardened(d, answer) ==
  Advanced([d EXCEPT !.loop = Evident,
                     !.answers = [@ EXCEPT !["discrimination"] = answer]],
           "hardened")

\* MUTANT: a draft a loop has finished is not taken through it again.
HardenOnce ==
  /\ run.step = "harden"
  /\ \/ run.draft.state = "hardened" /\ Go("finish")
     \/ /\ run.draft.state # "hardened"
        /\ Write(Hardened(run.draft, NoAnswer), "finish")
        /\ UNCHANGED paid
  /\ UNCHANGED <<corpus, runs>>

Harden ==
  /\ run.step = "harden"
  /\ \/ Reject
     \/ Stop
     \/ Write(Hardened(run.draft, NoAnswer), "finish") /\ UNCHANGED paid
     \/ /\ Pay
        /\ Write(Hardened(run.draft, [call |-> paid + 1,
                                      at |-> run.bench["discrimination"]]),
                 "finish")
  /\ UNCHANGED <<corpus, runs>>

-----------------------------------------------------------------------------
(***************************************************************************)
(* What a run ends as.                                                     *)
(***************************************************************************)

\* The problem a draft lands as, with the claim its template made when the run
\* read it and whether a step had stopped that run.
Landing == [claimed |-> run.speedup, stopped |-> run.stopped,
            blind |-> run.draft.answers["blind"].call,
            inputs |-> run.draft.answers["inputs"].call,
            naive |-> run.draft.answers["naive"].call,
            cases |-> run.draft.cases, separating |-> run.draft.separating,
            loop |-> run.draft.loop]

\* `finished`: held or rejected short of the loop, and otherwise the problem
\* with every part of it in one transaction.
Hold ==
  /\ run.draft.state # "hardened"
  /\ run' = Idle
  /\ UNCHANGED corpus

Land ==
  /\ run.draft.state = "hardened"
  /\ corpus' = Append(corpus, Landing)
  /\ run' = [run EXCEPT !.step = "name"]

Finish ==
  /\ run.step = "finish"
  /\ Hold \/ Land
  /\ UNCHANGED <<stored, paid, runs>>

\* MUTANT: the draft is cleared without naming its problem first.
NameNothing ==
  /\ run.step = "name"
  /\ Write(run.draft, "clear")
  /\ UNCHANGED <<corpus, paid, runs>>

\* The draft names its problem in a second transaction, and is removed in a
\* third.
Name ==
  /\ run.step = "name"
  /\ Write([run.draft EXCEPT !.state = "landed"], "clear")
  /\ UNCHANGED <<corpus, paid, runs>>

Clear ==
  /\ run.step = "clear"
  /\ stored' = NoDraft
  /\ run' = Idle
  /\ UNCHANGED <<corpus, paid, runs>>

\* The process dies before the step it would take next.
Crash ==
  /\ run.step \in CrashAt
  /\ run' = Idle
  /\ UNCHANGED <<stored, corpus, paid, runs>>

\* MUTANT: every draft that is done with is swept.
SweepRejectedToo ==
  /\ stored.state \in {"landed", "rejected"}
  /\ stored' = NoDraft
  /\ UNCHANGED <<run, corpus, paid, runs>>

\* `swept`, at the head of any other run of the command.
Sweep ==
  /\ stored.state = "landed"
  /\ stored' = NoDraft
  /\ UNCHANGED <<run, corpus, paid, runs>>

\* `generate --reject`: a reader's verdict over a held draft.
HandReject ==
  /\ stored.state \notin {"absent", "landed", "rejected"}
  /\ run.step = "idle" \/ RejectDuringRun
  /\ stored' = Rejected(stored)
  /\ UNCHANGED <<run, corpus, paid, runs>>

Init ==
  /\ stored = NoDraft
  /\ run = Idle
  /\ corpus = <<>>
  /\ paid = 0
  /\ runs = 0

Next ==
  \/ \E bench \in Benches, speedup \in BOOLEAN, bounds \in Bounds :
       Begin(bench, speedup, bounds) \/ Resume(bench, speedup, bounds)
  \/ Check \/ Reference \/ Agree \/ Build \/ Pace \/ Search \/ Harden
  \/ Finish \/ Name \/ Clear
  \/ Crash \/ Sweep \/ HandReject

Spec == Init /\ [][Next]_vars

-----------------------------------------------------------------------------
(***************************************************************************)
(* Properties.                                                             *)
(***************************************************************************)

Problem == [claimed : BOOLEAN, stopped : BOOLEAN, blind : Nat, inputs : Nat,
            naive : Nat, cases : Nat, separating : Evidence, loop : Evidence]

\* The draft, the passage and the problems are what the code's types admit, and
\* a copy that a gate rejected goes no further than the end of its run.
TypeOK ==
  /\ stored \in Draft
  /\ run \in Run
  /\ run.step \notin {"idle", "finish"} => run.draft.state \in OrderStates
  /\ corpus \in Seq(Problem)
  /\ paid \in Nat
  /\ runs \in Nat

\* A draft is landed at most once, however many runs carry it: a crash after
\* landing leaves a draft that is cleared rather than written a second time.
LandsOnce == Len(corpus) <= 1

\* Every landed case carries the answer of the reference landed beside it,
\* though a resume may have asked for another reference since the draft was
\* first settled.
CasesAreTheReferences ==
  \A i \in 1..Len(corpus) : corpus[i].cases = corpus[i].blind /\ corpus[i].blind # 0

\* Whatever crashes and rejections fall between, no problem lands that no loop
\* went over, and a run that no step stopped lands what its own loop read: a
\* reference asked for again takes the loop again.
LandsWhatTheLoopRead ==
  \A i \in 1..Len(corpus) :
    /\ corpus[i].loop.blind # 0
    /\ ~ corpus[i].stopped => corpus[i].loop.blind = corpus[i].blind

\* A problem whose template claims a speedup lands with the case that
\* demonstrates the claim, unless a step had stopped the run that landed it: a
\* run lands by the state of the draft alone, which an earlier run's loop may
\* have left where a process died before it was landed.
ClaimIsDemonstrated ==
  \A i \in 1..Len(corpus) :
    corpus[i].claimed /\ ~ corpus[i].stopped => corpus[i].separating # NoCase

\* A rejection is lost to one thing alone: a run that took its copy before the
\* verdict and writes it back.  A verdict no run is beside stands for good, and
\* one a run's own gate reached is never written over by that run.
RejectionIsLostToACopyAlone ==
  [][stored.state = "rejected" /\ stored' # stored =>
       run.step # "idle" /\ run.draft.state \in OrderStates]_vars

\* An answer a draft holds is paid for again only by a site that moved: the one
\* exception is the naive solution, drawn again where a search asked for it.
AnswersAreKept ==
  [][\A s \in {"blind", "inputs", "naive"} :
       LET held == stored.answers[s]  new == stored'.answers[s] IN
       held.call # 0 /\ new.call \notin {0, held.call} =>
         \/ new.at # held.at
         \/ s = "naive" /\ stored.unseparated \in {"naive_finished",
                                                   "canonical_too_slow"}]_vars

\* The writing keeps what WritingPromise promises of it, read off the store and
\* the corpus: it ends once, as one problem or as none.  A rejection is one only
\* once no run holds a copy that it may write over the verdict.
Promise == INSTANCE WritingPromise WITH
  problems <- Len(corpus),
  fate <- IF Len(corpus) > 0 THEN "landed"
          ELSE IF stored.state = "absent" THEN "unwritten"
          ELSE IF /\ stored.state = "rejected"
                  /\ run.step = "idle" \/ run.draft.state = "rejected"
               THEN "rejected"
          ELSE "open"

KeepsPromise == Promise!Spec
=============================================================================
