# Verification of algo-coach

TLA+ modules of the engine in `src/src/algo_coach`, the TLC configurations that
check them on small instances, and TLAPS proofs of the most important results.
Every definition is translated from the source; `PROJECT.json` maps each one to
the lines it stands for. Paths below are relative to `src/src/algo_coach` unless
they start with `src/`.

## 1. The system

algo-coach is a practice tool for algorithm problems. A *generation pipeline*,
run from a terminal, has models write problems and lands the ones that pass
every gate. An *API* serves problems to users, times their practice in
*sittings*, runs what they submit in a *broker*'s containers and logs it. One
Postgres database holds everything.

| Part | State it keeps | Operations | Hard because | What makes it correct |
|---|---|---|---|---|
| Writing pipeline: `generation/passage.py`, `resuming.py`, `drafting.py`, `run.py`, `landing.py` | the draft of a writing; a run's copy of it | `write_one`, `resume`, the steps of `carried`, `finished`, `land`, `swept`, `reject` | a run dies anywhere; a resume starts at a step chosen from what moved, and takes the earlier local steps again; a sweep works for minutes on copies | a writing ends once, as one problem or as none; what lands is consistent with the answers beside it; no answer is paid for twice |
| Generation sites: `blind.py`, `generator.py`, `naive.py`, `discrimination.py` | none | one model call each | a call fails | the draft keeps the answer it paid for |
| Speedup search: `speedup.py`, `timing.py` | none | doubling, repeats, bisection over measured times | bounds, zero, ceilings | a case separates, or the reason it does not is right |
| Mutation loop: `hardening.py`, `fuzzing.py`, `shrinking.py`, `mutation/` | none beside the draft | rounds of a call and local kills | a round fails in the middle | kept cases kill what they were kept for |
| Storage handle: `storage.py` | the connection of a held transaction | `transaction`, `begin`, `connect` | one handle shared by request threads; failures in the middle | a transaction commits together or not at all |
| Sitting loop: `sitting.py`, `schema/sitting.py`, `log/sittings.py` | a sitting with its pauses, attempts, verifications | `serve`, `get`, `submit`, `start_clock`, `pause`, `resume`, `end` | read, decide and write back whole with nothing locked; a submission runs code in between; restarts; an idle bound nobody enforces in the background | an ended sitting stays ended; an attempt's time is what its clock ran; no sequence of calls is refused by its own record |
| Broker: `broker/app.py`, `broker/container.py`, `runner/remote.py`, `runner/child.py` | the admission lock, the daemon's containers | `run`, `docker`, `kill`, `remove_leftovers` | a container outlives its client; five timers; the broker dies over a run | one run at a time; every run answered; a verdict is of a whole run |
| Runner: `runner/execution.py`, `runner/child.py` | a child process per case, its alarm | `run`, `execute`, `forked` | two timers per case, code that catches, hangs, forks or dies | an outcome is what the solution did |
| Cards, ladder, card runs, recall | card runs and their probes, recalls | `start`, `offer`, `recall` | check and append with no constraint between them | one open run per card |
| Run driver and the runs over it: `runs.py`, `matches/run.py`, `attempt_claims/run.py`, `solution_claims/run.py` | answers in flight | a bounded pool, stopped after three failures in a row | answers complete out of order; plans share a deployment's budget | nothing is paid for past the bound or asked twice; nothing asked is dropped; no plan waits for another |
| Accounts and the user's log: `api/signin.py`, `log/sessions.py`, `log/users.py`, `log/owned.py` | users, identities, sessions; every row a user wrote | sign-in, expiry, erasure, export | two first sign-ins at once; an erasure beside a submission | one user per account; an erasure is complete |
| Board, matches, classifier, techniques, outcomes, replay, CLI reports | append-only records | pure reads and single appends | - | - |

Interaction: the pipeline and every log write through the storage handle. A
submission holds a sitting it read while the runner asks the broker to run its
code, and the broker admits one run at a time for all API workers. The page and
the terminal are the sources of calls, in any order.

## 2. The modules

| Module | Models | Checked with |
|---|---|---|
| `Writing` | one draft through the runs that carry it | `MCWriting` |
| `WritingPromise` | what a writing promises: it ends once | refined by `Writing` (`KeepsPromise`) |
| `WritingProofs` | theorems about `Writing` | TLAPS |
| `Speedup` | the search of one problem for a case that separates its two solutions | `MCSpeedup` |
| `SpeedupProofs` | theorems about `Speedup` | TLAPS |
| `Hardening` | the mutation loop over one settled problem | `MCHardening` |
| `HardeningProofs` | theorems about `Hardening` and about `Runner` | TLAPS |
| `Driver` | the runs that ask models what the logs do not answer yet | `MCDriver` |
| `Sitting` | the sittings of one user on one problem under concurrent requests | `MCSitting` |
| `SittingProofs` | theorems about `Sitting` | TLAPS |
| `Accounts` | signing in, starting cards and recalling under concurrent requests | `MCAccounts` |
| `AccountsProofs` | theorems about `Accounts` | TLAPS |
| `UserLog` | one user's log beside its erasure and its export | `MCUserLog` |
| `UserLogProofs` | theorems about `UserLog` and about `Driver` | TLAPS |
| `Storage` | database handles, connections and threads | `MCStorage` |
| `StorageProofs` | theorems about `Storage` | TLAPS |
| `StoragePromise` | what a store's caller is promised: all or nothing, in one step | refined by `Storage` (`KeepsPromise`) |
| `Broker` | the broker, the engine's side of a run, and the containers | `MCBroker` |
| `BrokerProofs` | theorems about `Broker` | TLAPS |
| `Runner` | one run over its cases, a child process a case, by either backend | `MCRunner` |

The modules meet at named places. `Writing` takes the search and the loop as one
step each, with the ends `Speedup` and `Hardening` show they have. `Sitting` and
`Driver` take a run of code and a model's call as a choice; `Runner` says which
outcomes a case may have and `Broker` what becomes of a run of cases. `Storage`
says when the writes of one operation commit together, which the others assume.
`UserLog` composes the writes of `Sitting`, `Driver` and `Accounts` that belong
to one user, each as the transactions it makes, with the two commands that read
or delete them all. `Driver` and `Runner` name what a specification usually calls
`Init`, `Next`, `Spec` and `TypeOK` after themselves: `UserLogProofs` extends
`UserLog` and `Driver`, which writes such a log, and `HardeningProofs` extends
`Hardening` and `Runner`, whose verdicts the loop kills by.

### Writing

`stored` is the row of `DraftStore`, `run` is the `Passage` with the step it
takes next, `corpus` the problems landed from this draft. Steps follow
`STEPS` of `passage.py`: `Check`, `Reference` and `Agree` are `to_agreed`
(three writes, so three places to die between), `Build` is `to_built`, `Pace`
is `to_paced`, `Search` is `to_searched`, `Harden` is `to_hardened`. `Finish`
is `finished`: hold, or land in one transaction; `Name` and `Clear` are the two
transactions after it. `StartsAt`, `ReAsks`, `DrawsAgain`, `ReWalks` and
`Advances` are the functions of `resuming.py`.

What a call wrote is abstracted to the number of the call, and what a local run
found to the numbers of the answers it was run over: the properties ask which
answers a result was computed from. A local run's verdict is a free choice, so
the naive solution may be found wrong on a rerun that passed before; this only
adds behaviours. Before each run the operator may have moved any site of the
bench, edited the template's `speedup` or changed the search's bounds.

`CrashAt` names the steps before which a process may die and
`RejectDuringRun` whether `--reject` may run beside a sweep. Two paying runs
over one draft at once are not modelled: `generate` is one operator's command.

### Sitting

A request takes its moment (`now or _clock()`), reads the row and then the pauses
(two queries), decides, and writes the whole record. Each of these is a step, so
requests interleave anywhere. A submission goes on: count against the cap,
touch, judge, append the attempt, append its verification, close a solved
sitting. `Storable` is the record's own rules with the tables' checks and the
unique running sitting of a user and problem; a record that fails them fails
the request. Four variables are histories: how long each clock really ran by
the presses, whether requests overlapped, whether the process was restarted and
whether a request failed. Nothing the code does reads them. `Put` is one
transaction here: that it is depends on the storage handle, which `Storage`
looks at on its own.

### Storage

A thread runs operations: single statements and transactions of `Places`
writes, each of which may fail. `HandleOf` says which `Database` a thread's
stores hold. The test of `_held` and the read that yields it are two steps.
`Open`, `Release` and `Settle` are the three moments of `transaction`: the
handle is let go of before the connection commits.

### Broker

A request waits for the lock (`Refuse` past `Wait`), is admitted (`Admit`), and
ends by its container (`Exited`), its output (`Overflowed`) or its deadline
(`Expire`, then `Stop`). Containers report a line per case, flood, end or hang.
The engine leaves when its own timeout fires (`GiveUp`), which cancels nothing.
`Crash` and `Restart` are the broker's process. Time is discrete, and a timer
fires in the tick it is due: `Tick` waits for it. A case that crashed is to the
broker what a timed-out one is, so `Outcomes` has two values.

### Speedup

`problem` is what the search cannot change: what the naive solution costs at a
size and which sizes the ceiling lets a case carry. `pc` is the function at
work: `_doubled`, `_storable`, the halving of `search`, `_repeated` with
`_counted`, `_settled`; `Return` is `timed` of `timing.py`, which writes what
was found on the draft's inputs. A child's clock has a resolution, so a cheap
call measures nothing (`Clock`). Builds that fail and runs that crash are choices
of the step that makes them.

### Hardening

A case is the set of mutants it kills, so two inputs that kill the same are one.
`Declared` is the first pass, over the draft's own cases; `Kill` and `EndPass`
are `fuzz`; `Split`, `Try` and what follows are `_ddmin` over one argument after
another, with the tries it may make; a round is a call that may fail, its
proposals, and `won` what landed. The mutants are symmetric. What an input of the
pass had killed as it was built is its `for`, and what it kills once shrunk its
`kills`: the code judges the inputs after it by the first and stores the second.

### Driver

A run reads the log once (`BeginRun`), draws from the stream of each deployment
(`Draw`, round robin over its plans), keeps `Concurrency` calls in flight,
wakes with all that have finished, and folds them in one at a time: a failure
counted, an answer stored part by part (`StorePart`), each part a commit of its
own. `which` is the log: matches with a record per template, claims with one
standing on each attempt, outcomes of a replay. The text of a question may be
edited and attempts claimed by hand at any step; the run keeps what it read.

A replay of the mutation loop (`Looped`) may take more than one call for one
question and records the last one's hash (`OfARound`), while it looks for the
first one's: a record has `later` where the two differ, and `Recorded` finds
those without it. A loop is one call of the pool all the same. What it pays for
inside, and a first round lost to a second that fails, are not told apart.

### Accounts

A browser has one request in flight; each looks something up and acts on it in a
later transaction (`Look` and `Link`, `LookStarted` and `Start`, `CountRecalls`
and `Recall`). The fields `raced`, `disputed` and `overran` are histories.

### UserLog

A writer is an attempt's submission, a press on the clock, a claim by hand, the
classifier, a card's start or a recall; `step` is where it is. `gone` holds what
the erasure deleted and has not committed: whoever names such a row waits. The
erasure is a statement per table (`Order`), each over what is committed when it
runs, the export a query per table (`Reads`). `Accepted` is the foreign keys of
the migrations.

### Runner

`plan` is what the solution does on one case: how long its process takes to
start, its module to load, each call to return, how the last ends, whether it
catches `Exception`, and what it leaves running. `child` is the process with its
alarm, `parent` who waits for it: the engine, by a file once the child has
exited, or the entry process of a container, by a line on a pipe. The steps of
the two interleave; a tick passes only where nothing is due.

## 3. The runs

| Run | Expect | States | Shows |
|---|---|---|---|
| `writing` | pass | 1,278,109 | With a crash before any step but `name` (the one after the landing) and a rejection by hand at any moment: a writing ends once, as `WritingPromise` says; it lands with cases of its own reference and as a loop left it; a run no step stopped lands its claim's case; no answer is paid for twice; a rejection is lost to a run's older copy alone |
| `writing_lands_twice` | violation | | `LandsOnce` with a crash before `name` as well |
| `speedup` | pass | 311,617 | the search ends; a stored case separates and is the smallest that does; a reason for none is true |
| `hardening` | pass | 52,970 | the counters account for every mutant once; the set kills what it is counted as killing, each case something nothing before it had when it was taken; a shrink gets on at every step |
| `driver` | pass | 482,176 | nothing asked is dropped, no call repeats a record at the text's own hash, plans share a deployment evenly and within its budget |
| `sitting` | pass | 1,111,156 | what fails or moves an ended sitting is a race alone; an attempt carries the time its clock ran; the cap holds but for requests in flight |
| `accounts` | pass | 508,871 | two users of one email, a card started twice and a minute over its cap are of overlapping requests alone |
| `userlog` | pass | 422,679 | an erasure leaves nothing it found; an export is closed under what a claim names; the keys hold throughout |
| `storage` | pass | 87,118 | on handles of one thread each, operations are atomic and answers true, and `StoragePromise` is implemented |
| `storage_shared` | violation | | on one handle of two threads a transaction commits in parts |
| `broker` | pass | 240,602 | every run answered, verdicts whole, containers alone unless one outlived its run |
| `runner` | pass | 207,943 | an outcome is what the solution did, whichever timer fired; no case meets another's leftovers; a run ends |

The findings of `PROJECT.json` quote the line each violated property comes
from. Where the code falls short of its documents elsewhere, the passing run
states what does hold and section 7 says what does not.

Deadlock is not checked: the operator, the user and the engine may all stop, and
every bound ends the behaviours that reach it.

### Bounds, and why they are enough

- `writing`: two configurations and one moved site per bench (`MCBenches`), two
  search bounds, three runs (`MaxRuns`), seven paid answers (`MaxCalls`). Every
  fault found needs two or three runs: one to leave the draft in the middle, one
  to move a site, one to land. A crash before `name` is the one disturbance left
  out, and `writing_lands_twice` shows what it does.
- `speedup`: statements of up to six sizes (`MaxSize`), so that the walk doubles
  twice and is clamped, and the halving takes two steps; costs under the clock's
  resolution, under the cap, at it and over it (`MCCosts`). Only a naive
  solution that slows down with the size is tried above `MaxUneven` sizes.
- `hardening`: four mutants, three built inputs of the shapes in `MCShapes` (the
  longest reaches the granularity where complements are tried, one has two
  arguments and one an argument that is no list), eight tries, two rounds of two
  proposals. The mutants are symmetric, and no property names one.
- `driver`: three questions, one with nothing to ask for a replay (`Unasked`)
  and one that a replay answers by a loop (`Looped`), two calls in flight, two
  failures in a row, two runs of the ten requests in `MCRequests`, one edit. A
  third configuration is on another deployment. Two runs are what a replay that
  meets the records of another takes.
- `sitting`: two requests in flight (`Slots`), two sittings (`Ids`), four
  moments (`MaxNow`), an idle bound and a window of one moment and a cap of
  one, so that every bound can be met and passed. Five requests in a sequence
  (`MaxRequests`) cover start, pause, resume, pause and an ending; of
  interleaved ones there are four (`MaxRaced`). The two slots are symmetric, and
  the passing run uses that; its one action property does not name a slot
  outside a quantifier.
- `accounts`: two browsers, two accounts, two emails, two users, one card, a cap
  of one and two rows appended (`MaxRuns`): every check can be raced by one
  other request. All but the card are symmetric.
- `userlog`: one attempt, one call, one sitting, and any four of the seven
  writers (`MaxWriters`): a writer of every table, and two that contend for the
  sitting and its pause.
- `storage`: two threads, two operations each (`MaxOps`), transactions of two
  writes (`Places`).
- `broker`: two runs of two cases, either with `stop_early` or without
  (`MCShapes`). `Start`, `Case`, `Wait`, `Docker` and `Margin` keep the order of
  the code's constants, with the margin below a docker command's bound. `Requests`
  are sent once each.
- `runner`: two cases after the warm-up, a cap of two ticks and one of slack;
  processes that start at once, near the deadline or past it, modules that load
  at once, in the cap or past the deadline, one call or two on either side of
  the cap (`MCPlans`).

### Fairness

Three modules have liveness. `Broker` assumes that the clock runs (`WF(Tick)`),
that asyncio and its threads take what a run is due (`WF(Takes(r))`, one per
run, since the event loop is first in first out), and that the engine's timer
fires (`WF(GiveUp(r))`); nothing is assumed of a container, of the daemon's
answer to a kill, or of whoever restarts the broker. `Speedup` assumes that the
search, a sequential function, takes its next step (`WF(Search)`). `Runner`
assumes that the operating system runs the two processes and its clock
(`WF(Next)`); nothing is assumed of the solution, which may hang for ever.

## 4. The proofs

Of `Writing`, for every bench, bound and limit:

- `TypeCorrect`: `Spec => []TypeOK`. The invariant `TypeInv` adds that the copy
  a run works on stays in the order of the states except at its end, which
  `Advanced` needs.
- `CasesAlwaysSettled`: `Spec => []CasesAreTheReferences`, with no condition.
  `CasesInv` follows the copy past `agree`: from there its cases were settled by
  the reference it holds, whichever run asked for it, so landing cannot see
  others. Neither a crash nor a rejection beside a run disturbs it.
- `NoAnswerIsPaidForTwice`: `Spec => AnswersAreKept`, with no condition either.
  `CopyInv` says what lets a resume trust the store: a run's copy may differ from
  it in its state, never in what a site wrote.
- `WhatLandsWasLooped`: `Spec => []LandsWhatTheLoopRead`, with no condition.
  `LoopInv` follows what the loop read through the copy, the store and the
  problems: a draft past the loop holds it, and a run that reaches `finish`
  unstopped has taken the loop over the reference its copy holds.
- `OnlyACopyLosesARejection`: `Spec => RejectionIsLostToACopyAlone`, with no
  condition. No command takes a rejected draft up or removes it, and a run whose
  own gate rejected goes no further (`TypeOK`); `FreshInv` is that a draft is in
  the store only once a run was started.
- `LandsAtMostOnce`, `ClaimsAreDemonstrated` and `KeepsThePromise` hold under
  `NamesWhatItLands`: no process dies between the landing and the draft naming
  its problem. The condition is necessary (`writing_lands_twice`) and the only
  one: a process may die before any other step, and a reader may reject beside
  any run. The inductive invariant is `OnceInv`: a run at work has no problem
  beside it, a problem has a draft that no run can take up, and what a run that
  no step stopped brings to `finish` demonstrates its claim. `KeepsThePromise` is
  the refinement: every step is a step of `WritingPromise` or a stutter. A
  rejection is one to the promise once no run holds a copy it may write over it;
  until then the writing is open, whatever its row says.

Of `Storage`, for every number of threads, handles, operations and writes:

- `StorageTypeCorrect`: `Spec => []TypeOK`, whoever shares a handle. `TypeInv`
  adds where a thread at work is: inside an operation, at one of its writes, on
  a connection where its step needs one.
- `AnswersAlwaysStored`, `AlwaysCommitsTogether` and `HandleKeepsPromise` hold
  under `Apart`: no two threads share a handle. `storage_shared` violates
  `CommitsTogether` without it. The inductive invariant `IInv` says, for each
  step of a thread, which writes its connection has yet to commit (`HasFirst`:
  those of its operation, up to the one it is at), that no two threads are on
  one connection (`ApartInv`) and that an operation is answered only as it ends
  (`PendingInv`). `Leaves` is what a step of one thread keeps for the others, and
  `Outcome` what it answers and stores: the refinement is read off `Outcome`.

Of `Accounts`, for every number of browsers, accounts, emails and users, every
cap and every number of runs:

- `FailsOnlyInARaceAlways`: `Spec => []FailsOnlyInARace`. The inductive
  invariant `IInv` says that a check nobody raced still stands: the users of its
  email are the one it found (`LookedStands`), its card is not started
  (`StartStands`), its minute has room (`RecallStands`). `Quiet` and `Still` are
  the steps that write nothing these read; `Relink`, `Link`, `Start` and
  `Recall` have a lemma each. That an id the engine mints is not `None` is the
  one assumption beside the types. TLC has two accounts, the theorem any number:
  with three, two accounts may take one email from a third, which is why an
  email an account moves to counts as disputed.

Of `Sitting`, for every number of requests in flight, sittings, moments, idle
bound, window and cap, from `SittingAssumption` (slots are finitely many, ids are
positive, the cap is, and the bounds are numbers):

- `SittingTypeCorrect`, `RequestsFailOnlyInARace`, `TimeIsTrue`, `SolvesEnd`,
  `CapHolds` and `EndedIsWrittenOverOnlyInARace` are the properties of the run
  and one it leaves to the proof, that a solved attempt ends its sitting. The inductive invariant `IInv` has three parts. `Base` holds whatever
  overlaps: the types, which of a record's own rules every stored one keeps, and
  what each step of a request has read. `Alone` holds until two requests
  overlap: what a request at work read is what is stored, so its write replaces
  nothing it did not see, and `Live` ties a record's pauses to the history of
  its clock at every moment, so that the difference `submit` takes is the time
  the clock ran. `Capped` holds whatever overlaps: in any window, the attempts
  appended and the submissions that have counted and not yet appended are no more than
  the cap and the other requests in flight allow.
- The time of an attempt is a sum over a list of pauses. `TotalIsASum`,
  `TotalOfOneMore` and the lemmas after them are what such sums do when a pause
  is opened, closed or left open; they rest on the least-number principle
  (`FirstFailure`), since induction over the list is out of reach.

Of `Broker`, for every number of requests, shape of run and length of the
timers, from `BrokerAssumption` (every timer is a positive number, a run asks for
at least one case, requests and shapes are finitely many):

- `BrokerTypeCorrect`, `OneContainerAtATime`, `VerdictsAreWhole` and
  `EngineOutwaitsTheBroker`. `IInv` says of each run where it is placed by its
  step (`Placed`: the lock is held exactly by a run at work), that the engine's
  timer has the rest of the wait, the run and the margin left (`Outwaited`), that
  a container at work is of the run that holds the lock or outlived its own
  (`Accounted`), and that its report is of the cases asked for (`OutOf`). The
  queue holds each waiting run once (`QueueInv`). `EngineOutwaitsTheBroker` is
  the action property: the engine gives up beside a live broker only while a kill
  is being waited for.

Of `Speedup`, for every problem of any size and timings, every cap, clock, margin
and bound, from `SpeedupAssumption` (they are positive numbers, and costs are
numbers):

- `SizesAreLegal`, `StoredCaseSeparates` and `ReasonIsTrue`, of one invariant,
  `SearchKnowsItsBounds`. `IInv` has a conjunct for each function of the search:
  what `_doubled` finished at (`Walked`), what `_storable` (`Bounded`) and the
  halving (`Halved`) have between their bounds, why one call is not enough where
  several are counted (`OneCallIsFew`), and that half of a count that was doubled
  was too few (`LeastCount`). `Separated` is what a case has when `_settled`
  takes it, and the two properties are read off it. `SmallerFinishes` is the one
  place that the cost grows with the size, and only what is said of sizes nobody
  ran needs it. `EndsMissing` and `EndsMeasured` are the two ways to end; the
  rest is what a quotient, a middle and a double are.

Of `Hardening`, for every number of mutants, inputs, shapes and proposals and
every budget of tries and rounds, from `HardeningAssumption` (the mutants are
finitely many, the bounds are numbers, and a shape is lengths):

- `ShrinksAreSmaller`, `CountersAddUp`, `EveryCaseKillsAnother` and
  `ShrinksGetOn` rest on one invariant, `LoopKeepsItsBooks`. Neither the
  counters nor the set a hardened draft lands with can be told from the ends
  alone, so `IInv` keeps the books at every step. `SharedOut` says that the
  mutants no longer standing are divided between the declared cases and those
  taken so far, each to the first that killed it, and `Placed` that an input
  being shrunk has a target and kills only what still stands. `AddedUp` is the
  sum of the counters once the pass is over, and `Smaller` what a shrink has of
  the shape it started from.
- `KillersShare` is the step of a round: the proposals some mutant names, each
  listed once (`ListedOnce`), divide what the round killed.
  `EveryCaseKillsAnother` speaks of what a proposal kills and not only of what
  it is listed for, which `WonInv` adds: a proposal is taken for mutants that
  none landed before it kills (`KillersAreNew`), and what the rounds landed
  kills nothing that stands. Of an input of the pass it says what the code
  keeps: it had killed, as it was built, something no input before it had. Of
  what the stored input kills, shrunk, it would be false (section 7).
  `SubsetsAreSmaller` bounds the chunks and the complements a shrink tries, by
  what a quotient rounded up is (`SplitParts`). `ShrinksGetOn` is the action
  property; it rests on `SplitIsProper` and `SubsetsAreProper`, that what is
  tried in the place of a list is shorter than it and not empty, wherever the
  granularity is at most its length. That the set stays divided when a list of
  cases is appended to it is `MoreIsShared`, and a sum over one more count is
  `TotalOfOneMore`.

Of `UserLog`, for every number of submissions, calls and writers, from
`UserLogAssumption` (`None` is no id and the names of the writers differ):

- `LogStaysWhole`, `PrintIsClosed` and `ErasingIsWhole`. `RowsInv` is the foreign
  keys, over what is stored and over what is visible beside an uncommitted
  erasure. `ErasingInv` follows the erasure through its statements: what it
  found is stored until its table is passed, and no row written since names a
  call it found. `PrintingInv` follows the export: a row a passed query missed is
  named only by rows written since. `StepInv` says that a call that answered is
  named by no row yet, which is what makes the erasure's read of the names
  enough for the calls it found.

Of `Runner`, for every cap, slack, number of cases and plan of a solution, from
`RunnerAssumption` (the three are positive numbers, and a plan is durations, an
end and what it leaves behind), by either backend:

- `RunnerTypeCorrect` and `VerdictsAreTrue`, of one invariant, `RunnerInv`
  (`RunsGoByTheirPlans`). A verdict is read by the parent from what is left of a
  child, so the invariant explains both by the plan. `ChildPlaced` is what a
  child holds at each place of its code, and `ChildTells` what its answer, or its
  death with nothing written, says of the plan. The two timers have a conjunct
  each: `AlarmRuns`, the alarm has left what the cap leaves of the work behind
  the child; and `ClockRuns`, the parent's clock has what the child did. `Slow`
  is every reason a parent may have to give a case up, and `Tells` what a verdict
  then says; both properties are read off it.
- What the calls take together is a sum over the plan. `SumTo` and its lemmas
  say how it grows by one call, again on `FirstFailure`.

Of `Driver`, for every set of configurations, deployment of them, number of
questions and parts, budget, bound on failures and request, from
`DriverAssumption` (the bounds are numbers, the budget and the bound on failures
are not zero, configurations are finitely many, `Nothing` is no record and no
answer, and a run that does not score asks one configuration):

- `DriverTypeCorrect`, `NoQuestionIsDropped`, `PlansShareEvenly` and
  `CallsAreAlwaysDue`, of one invariant, `DriverInv` (`RunsKeepTheirQuestions`).
  The type invariant has the bound on what is paid for at once. `TurnInv` says
  that a stream turns through plans of its own deployment, each once, and
  through every one still alive. `RoundInv` follows the round: those sooner in
  turn have drawn no more than those after them, and no two are more than one
  apart; `NoneWaits` is read off it.
- `NothingIsDropped` speaks of a run that has ended, and needs what holds before
  it does. A question is settled by the records of an answer to the text the run
  read, for a replayed loop those of whichever round was its last. `CoverInv`
  says that, where no limit cuts them short, every question of a plan that goes
  on is settled, failed, or on its way. `BusyInv` says that a plan with
  something to draw is owed a draw or has an answer to come, so that when
  nothing is in flight nothing is left to ask. `OnceInv` keeps a question to one
  place: waiting, called or being stored. `StoringInv` is the answer being
  stored, one part a transaction.
- `CallsAreDue` is the action property, and `DueInv` what it needs of the state:
  what waits is unsettled, or is a replay's loop that no record of the first
  call's hash answers (`Unfindable`): the code pays for that one again, which
  section 7 says more of. An edit of the corpus and the user's own claims come at
  any moment, so this holds because a run is held to the text and the claims it
  read.
- The lemmas below these are about lists: what the order of a finite set lists
  (`OrderListsAll`), that a list with its head taken off or moved to its end
  lists the same or one less (`Lists`, `Once`), and what each kind of run selects
  (`SelectionIsDue`).

Every invariant and action property that a passing run checks is a theorem, those
of `Writing` named above under their condition. Liveness is out of this prover's
reach and stays with TLC: that a run is answered (`Broker`), that the search ends
(`Speedup`), that a run of cases ends (`Runner`). So does what a recursive
definition computes for every input: where a proof needs a sum, it is proved from
the least-number principle what one more term adds.

## 5. What is not modelled

`PROJECT.json` lists every part with the reason. In short: the text of prompts
and answers, what a solution computes, reports, boards and the ladder's order
(pure reads), the web page, the schema's history. Retries inside one HTTP call
are the client's. Two API processes are outside the deployment the repository
describes. Diagnoses are read and erased, and no code appends one. A run whose
entry process faults part-way leaves the lines it wrote; the broker's reading of
them is `Broker`'s.

## 6. The plan

`Submission`, which would compose `Sitting` and `Broker` through the engine's
wait, is the one module left. Liveness would need a prover of `ENABLED`.

## 7. What the models show besides

Where a document or a comment says more than the code does, and no run is kept
for it. Each was found while modelling, by a property TLC refutes or by reading;
what does hold is a property of the passing runs.

- A run asks a moved site again and dies before the search it owes: the next
  starts past the search (`generation/resuming.py:68`, `passage.py:264`), and the
  problem lands with a case measured over answers it no longer holds
  (`src/docs/architecture/flows.md:277`).
- `finished` decides by the draft's state alone (`generation/run.py:292`): a
  draft the loop finished and a crash kept from landing is resumed, a step stops
  short, and it lands all the same (`src/docs/architecture/flows.md:37`), with a
  claim the resume was given and the earlier run was not, or with a loop over an
  earlier reference. `LandsWhatTheLoopRead` and `ClaimIsDemonstrated` except such
  a run where they must.
- A sweep writes its copy over a rejection by hand (`cli/generate.py:135`, against
  `flows.md:311`). `RejectionIsLostToACopyAlone` is what holds.
- A call that read a sitting running writes it back whole after another ended
  it, which reopens it (`sitting.py:201`): `EndedMovesOnlyInARace` is what holds.
- `start_clock`, `pause`, `resume` and `end` read no idle bound, and the first
  three touch a sitting left for hours (`sitting.py:352`, against
  `src/docs/architecture/log.md:99`).
- A container whose output passed the limit is left running, and the next run is
  admitted beside it (`broker/app.py:134`, against `broker/container.py:156`):
  `AloneUnlessLeftBehind` is what holds.
- The `standing` of a fuzz pass is what its input left before it was shrunk
  (`generation/fuzzing.py:138`), and a shrunk input may kill more: a survivor may
  be killed by a kept case, though `hardening.py:30` says none is. A later input
  may then be kept for that mutant alone, and its case decides nothing new
  (against `src/docs/architecture/corpus.md:325`).
- A replay of the mutation loop records the call its last round paid for
  (`generation/hardening.py:157`, `replay.py:195`, `324`), whose prompt holds what
  the first round left standing, and looks for the first round's hash
  (`replay.py:280-299`). After a loop of two rounds no record answers, and the
  next replay at the same text pays for the site again (against `replay.py:1-3`
  and `flows.md:400-401`; the tests replay one round). `CallsAreDue` excepts such
  a site, and no other.
- One question of a replay pays for as many calls as its loop has rounds
  (`generation/replay.py:310`), and where the second round's call fails the first
  round is paid for and recorded nowhere a replay looks.
- `runs.py:30` says a broken key costs up to `concurrency` failures; the code
  records exactly `ABORT_AFTER` and has paid for up to `concurrency` calls more.
- Erasing: a call that failed, or whose claim was never appended, is named by no
  claim and survives (`log/owned.py:73` deletes those a claim names), and so does
  the call of a claim that lands between the read of the names and the claims'
  delete; a put after the erasure recreates the sitting; a press that pauses can
  deadlock with it. The export holds no card runs and no recalls, which the
  erasure deletes, and its queries are no one snapshot.
- The alarm of a case is an `Exception` (`runner/child.py:47`), whose comment
  says a solution catching `Exception` cannot swallow it; it is set once, so one
  that does is returned over its cap. `VerdictIsTrue` names that case.
- `child.py:59` says the cap times the `solve` calls alone; the module is loaded
  again before each under the alarm (`child.py:76`).
- An alarm that comes while a result is described or before it is disarmed, and a
  return nested too deeply for the encoder, end the child with nothing written: a
  `RunnerError`, not a verdict. So does a solution that calls `os._exit`.
- The engine kills the group of its child, which has none until it calls
  `setsid` (`execution.py:195`): a child slower to start than the deadline is
  then waited for with nothing to end it. The entry process kills both.
- The backends differ on what a solution leaves: a thread makes the engine time
  out where the container returns, and a process that holds the pipe makes the
  container time out where the engine crashes.
