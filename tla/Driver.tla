------------------------------- MODULE Driver -------------------------------
(***************************************************************************)
(* The loop every model-backed run shares (runs.py) and the runs that      *)
(* drive it: the matcher and the solution reader, which ask one            *)
(* configuration what the log does not yet answer; the classifier's        *)
(* backlog, which claims what nothing claimed and, asked to, what an older *)
(* configuration claimed; the replay, which looks as it goes whether a     *)
(* site was asked; and the scored run, which asks several configurations   *)
(* at once, each with its own plan, sharing the budget of the deployment   *)
(* that answers them.  Calls are made by a pool and folded in by one       *)
(* consumer; a run may die at any step and be started again.               *)
(*                                                                         *)
(* A question is an item: a solution against a card, an attempt, or a site *)
(* over a stored problem.  Its text may change between two runs or under   *)
(* one, which is its version (the prompt hash).  An answer is stored as    *)
(* one record a part: the matcher commits a record for each template, the  *)
(* others have one part.  An answer may take more than one call: the       *)
(* mutation loop a replay runs keeps the last round's call alone, and its  *)
(* hash is not the one the site is looked up by.                           *)
(***************************************************************************)
EXTENDS Integers, Sequences, FiniteSets

CONSTANTS
    Configs,      \* the configurations that may be asked
    Deployment,   \* the deployment each is answered by
    NItems,       \* the questions 1..NItems, newest first
    Parts,        \* the records of one answer, where the log is the matcher's
    Unasked,      \* the sites of a replay with nothing to ask about
    Looped,       \* those answered by a loop of rounds, one call each (discrimination)
    Concurrency,  \* calls in flight on one deployment
    AbortAfter,   \* failures in a row that end a plan (ABORT_AFTER)
    Editable,     \* bound: the questions whose text is edited
    Edits,        \* bound: the edits to them
    Passes,       \* bound: the sets of attempts the user may claim by hand
    MaxRuns,      \* bound: the runs started
    Requests,     \* the runs that may be asked for: command, configurations, options
    Nothing       \* no record, run or answer

Items == 1..NItems

LogOf(kind) == CASE kind = "match" -> "matches"
                 [] kind = "replay" -> "outcomes"
                 [] OTHER -> "claims"

Deployments == {Deployment[c] : c \in Configs}
Logs == {"matches", "claims", "outcomes"}
Kinds == {"match", "classify", "score", "replay"}
Records ==
    {r \in [config : Configs, item : Items, part : Parts, version : 1..Edits + 1, later : BOOLEAN] :
        r.later => r.item \in Looped}
Questions == [config : Configs, item : Items]

\* A run asks one configuration, or is a scored one; only the backlog can
\* re-derive, and there asking afresh says which of what it re-derives.
RunsOf(kinds) ==
    [kind : kinds, configs : (SUBSET Configs) \ {{}}, fresh : BOOLEAN, redo : BOOLEAN, limit : Nat]

ASSUME DriverAssumption ==
    /\ NItems \in Nat /\ Edits \in Nat /\ MaxRuns \in Nat
    /\ Concurrency \in Nat \ {0} /\ AbortAfter \in Nat \ {0}
    /\ Editable \subseteq Items /\ Unasked \subseteq Items /\ Looped \subseteq Items
    /\ Passes \subseteq SUBSET Items
    /\ IsFiniteSet(Configs) /\ DOMAIN Deployment = Configs /\ Parts # {}
    /\ Nothing \notin Configs \X (1..Edits + 1)
    /\ Nothing \notin [config : Configs, item : Items, parts : SUBSET Parts]
    /\ \A r \in Requests :
         /\ r \in RunsOf(Kinds)
         /\ r.kind # "score" => Cardinality(r.configs) = 1
         /\ r.redo => r.kind = "classify"

VARIABLES
    which,        \* the log these runs read and write
    log,          \* its machine records
    latest,       \* the machine record that stands on each item, of claims
    hand,         \* the items the user has claimed
    version,      \* the text each item would be sent now
    run,          \* the run's own parameters, and what it read before asking
    phase,        \* "none", "running", "done", "aborted" or "stopped"
    runs,         \* how many have been started
    asking,       \* what each plan was to ask
    left,         \* what each plan still has to draw
    turn,         \* the plans of each deployment, in the order they draw
    owed,         \* draws each deployment's stream is asked for now
    calls,        \* the calls in flight
    batch,        \* the finished ones the consumer is working through
    raised,       \* those of them that raised
    storing,      \* the answer being stored, and its parts not stored yet
    consecutive,  \* failures since each plan's last answer
    aborted,      \* the plans that gave up
    failed        \* the questions whose call failed in this run

stored == <<log, latest>>
plans == <<asking, left, turn, owed>>
folded == <<consecutive, aborted, failed>>
pool == <<calls, batch, raised>>
driverVars == <<which, stored, hand, version, run, phase, runs, plans, pool, storing, folded>>

-----------------------------------------------------------------------------
(* What each run asks.  *)

PartsOf == IF which = "matches" THEN Parts ELSE {CHOOSE p \in Parts : TRUE}

\* A record carries the hash of one call: the first's, which is that of the question's text, or
\* a later round's, which is that of what stood after the rounds before it.
Record(c, i, p, v, later) ==
    [config |-> c, item |-> i, part |-> p, version |-> v, later |-> later]

\* The parts a configuration has answered at a text (at_configuration).
Recorded(c, i, v) == {p \in PartsOf : Record(c, i, p, v, FALSE) \in log}

\* MUTANT: a question any of whose parts is recorded is taken for answered.
Untouched(c) == {i \in Items : Recorded(c, i, version[i]) = {}}

\* A question stands while any of its parts carries no record at that text.
Outstanding(c) == {i \in Items : \E p \in PartsOf : p \notin Recorded(c, i, version[i])}

\* Attempts nothing has claimed, and the machine's claims an older
\* configuration or another text left standing; the user's are neither.
Unclaimed == {i \in Items : i \notin hand /\ latest[i] = Nothing}
Stale(c) == {i \in Items : /\ i \notin hand /\ latest[i] # Nothing
                           /\ latest[i] # <<c, version[i]>>}

\* The eval set a plan still has to pay for.
Unread(c) == {i \in hand : Recorded(c, i, version[i]) = {}}

\* The numbers of a set from the least to the greatest.
InOrder(S) == [k \in 1..Cardinality(S) |-> CHOOSE i \in S : Cardinality({j \in S : j <= i}) = k]

Capped(s, n) == SubSeq(s, 1, IF n < Len(s) THEN n ELSE Len(s))

\* What a run of this kind asks the configuration: `fresh` asks again where a
\* record answers, and `redo` re-derives.  The backlog's unclaimed come first.
Asked(r, c) ==
    Capped(CASE r.kind = "match" -> InOrder(IF r.fresh THEN Items ELSE Outstanding(c))
             [] r.kind = "replay" -> InOrder(Items)
             [] r.kind = "score" -> InOrder(IF r.fresh THEN hand ELSE Unread(c))
             [] r.kind = "classify" ->
                  InOrder(Unclaimed) \o
                  IF ~r.redo THEN <<>>
                  ELSE InOrder(IF r.fresh
                               THEN {i \in Items \ hand : latest[i] # Nothing}
                               ELSE Stale(c)),
           r.limit)

-----------------------------------------------------------------------------
Idle ==
    /\ calls = {} /\ batch = {} /\ raised = {} /\ storing = Nothing

Empty == [c \in Configs |-> <<>>]

DriverInit ==
    /\ which \in Logs /\ log = {} /\ latest = [i \in Items |-> Nothing]
    /\ hand = {} /\ version = [i \in Items |-> 1]
    /\ run = Nothing /\ phase = "none" /\ runs = 0
    /\ asking = Empty /\ left = Empty
    /\ turn = [d \in Deployments |-> <<>>] /\ owed = [d \in Deployments |-> 0]
    /\ Idle
    /\ consecutive = [c \in Configs |-> 0] /\ aborted = {} /\ failed = {}

Newest == CHOOSE v \in {version[i] : i \in Items} : \A i \in Items : version[i] <= v

\* The question's text changes: a template, a statement or a candidate edited.
Edit(i) ==
    /\ Newest <= Edits
    /\ version' = [version EXCEPT ![i] = Newest + 1]
    /\ UNCHANGED <<which, stored, hand, run, phase, runs, plans, pool, storing, folded>>

\* The user claims attempts by hand, in one pass.
Claim(S) ==
    /\ which = "claims" /\ hand = {}
    /\ hand' = S
    /\ UNCHANGED <<which, stored, version, run, phase, runs, plans, pool, storing, folded>>

\* The order the plans of one deployment first draw in.
Enlisted(S) == CHOOSE s \in [1..Cardinality(S) -> S] : \A j, k \in DOMAIN s : s[j] = s[k] => j = k

\* MUTANT: the budget is counted a plan at a time.
PlanBudgets(configs) ==
    [d \in Deployments |-> Concurrency * Cardinality({c \in configs : Deployment[c] = d})]

\* The budget is the deployment's, however many plans share it.
Budgets(configs) == [d \in Deployments |-> Concurrency]

\* A replay asks one site at a time: each reads what the one before it stored.
Owing(r) == IF r.kind = "replay" THEN [d \in Deployments |-> 1] ELSE Budgets(r.configs)

\* A run reads the log once, selects, and asks each deployment's stream for as
\* many questions as it may have in flight.
BeginRun(r) ==
    /\ phase # "running" /\ runs < MaxRuns
    /\ LogOf(r.kind) = which
    /\ run' = [kind |-> r.kind, configs |-> r.configs, fresh |-> r.fresh, redo |-> r.redo,
               limit |-> r.limit, asked |-> version, hand |-> hand]
    /\ phase' = "running" /\ runs' = runs + 1
    /\ asking' = [c \in Configs |-> IF c \in r.configs THEN Asked(r, c) ELSE <<>>]
    /\ left' = asking'
    /\ turn' = [d \in Deployments |-> Enlisted({c \in r.configs : Deployment[c] = d})]
    /\ owed' = Owing(r)
    /\ consecutive' = [c \in Configs |-> 0] /\ aborted' = {} /\ failed' = {}
    /\ UNCHANGED <<which, stored, hand, version, pool, storing>>

-----------------------------------------------------------------------------
(* The streams and the pool.  *)

\* MUTANT: a plan that gave up goes on drawing.
HasMore(c) == left[c] # <<>>

\* A plan a stream draws from: not given up, and with something left.
Live(c) == c \notin aborted /\ left[c] # <<>>

\* Those of a stream's plans that it may draw from, in their turn.
LivingOf(plansInTurn) ==
    LET at == InOrder({j \in DOMAIN plansInTurn : Live(plansInTurn[j])})
    IN [k \in DOMAIN at |-> plansInTurn[at[k]]]

\* MUTANT: the plan that drew keeps its place.
InPlace(live) == live

\* Round robin: the plan that drew goes to the back.
Rotated(live) == Tail(live) \o <<Head(live)>>

\* A site this configuration answered at this text, in the records read by now.  It is looked
\* for at the hash of the first call, so one a second round answered is not found.
AskedAlready(c, i) == ~run.fresh /\ Recorded(c, i, run.asked[i]) # {}

\* A replay looks as it reaches a site: one with no speedup to search, no naive
\* solution or no mutant standing has nothing to ask.
PassedOver(c, i) == run.kind = "replay" /\ (i \in Unasked \/ AskedAlready(c, i))

\* One passed over is an answer like any other, and ends a row of failures.
PassOver(c) == consecutive' = [consecutive EXCEPT ![c] = 0] /\ UNCHANGED <<owed, calls>>

AskNext(d, c, i) ==
    /\ owed' = [owed EXCEPT ![d] = @ - 1]
    /\ calls' = calls \union {[config |-> c, item |-> i]}
    /\ UNCHANGED consecutive

\* A stream is asked for its next question, which starts a call, or has none.
Draw(d) ==
    /\ phase = "running" /\ storing = Nothing /\ owed[d] > 0
    /\ LET live == LivingOf(turn[d])
       IN IF live = <<>>
          THEN /\ owed' = [owed EXCEPT ![d] = 0]
               /\ turn' = [turn EXCEPT ![d] = <<>>]
               /\ UNCHANGED <<left, calls, consecutive>>
          ELSE LET c == Head(live)
                   i == Head(left[c])
               IN /\ turn' = [turn EXCEPT ![d] = Rotated(live)]
                  /\ left' = [left EXCEPT ![c] = Tail(@)]
                  /\ IF PassedOver(c, i) THEN PassOver(c) ELSE AskNext(d, c, i)
    /\ UNCHANGED <<which, stored, hand, version, run, phase, runs, asking, batch,
                   raised, storing, aborted, failed>>

\* The consumer wakes with every call that has finished by now, answered or
\* raising.  What finishes while it works is seen at its next wake, so when in
\* between it did makes no difference.
Wake(S, R) ==
    /\ phase = "running" /\ batch = {} /\ storing = Nothing
    /\ \A d \in Deployments : owed[d] = 0
    /\ S # {} /\ batch' = S /\ raised' = R
    /\ UNCHANGED <<which, stored, hand, version, run, phase, runs, plans, calls,
                   storing, folded>>

-----------------------------------------------------------------------------
(* The consumer.  *)

Bounded == run.kind # "score"

Ready(f) ==
    /\ phase = "running" /\ storing = Nothing /\ f \in batch
    /\ \A d \in Deployments : owed[d] = 0

Folded(f) ==
    calls' = calls \ {f} /\ batch' = batch \ {f} /\ raised' = raised \ {f}

\* The run lets go of what it drives: calls still in flight are waited for and
\* their answers dropped.
LetGo ==
    /\ calls' = {} /\ batch' = {} /\ raised' = {} /\ storing' = Nothing
    /\ asking' = Empty /\ left' = Empty
    /\ turn' = [d \in Deployments |-> <<>>] /\ owed' = [d \in Deployments |-> 0]
    /\ consecutive' = [c \in Configs |-> 0]

\* A failure is one question's, unless it is the last in a row that a plan is
\* allowed: that ends the plan, and a run of one plan.
FoldFailure(f) ==
    /\ Ready(f) /\ f \in raised
    /\ failed' = failed \union {<<f.config, f.item>>}
    /\ aborted' = IF consecutive[f.config] + 1 = AbortAfter
                  THEN aborted \union {f.config} ELSE aborted
    /\ IF Bounded /\ f.config \in aborted'
       THEN LetGo /\ phase' = "aborted"
       ELSE /\ Folded(f)
            /\ owed' = [owed EXCEPT ![Deployment[f.config]] = 1]
            /\ consecutive' = [consecutive EXCEPT ![f.config] = @ + 1]
            /\ UNCHANGED <<storing, asking, left, turn, phase>>
    /\ UNCHANGED <<which, stored, hand, version, run, runs>>

FoldAnswer(f) ==
    /\ Ready(f) /\ f \notin raised
    /\ consecutive' = [consecutive EXCEPT ![f.config] = 0]
    /\ Folded(f)
    /\ storing' = [config |-> f.config, item |-> f.item, parts |-> PartsOf]
    /\ UNCHANGED <<which, stored, hand, version, run, phase, runs, plans, aborted, failed>>

\* A record carries a later round's hash where it is a replay's, of the loop, that took one:
\* the loop hands on the last call it paid for, and the others are kept nowhere a replay looks.
OfARound(i, later) == later => run.kind = "replay" /\ i \in Looped

\* One part's record is committed, at the text the run read when it began; a replay of the
\* loop commits that of its last round.
StorePart(p, later) ==
    /\ phase = "running" /\ storing # Nothing /\ p \in storing.parts
    /\ OfARound(storing.item, later)
    /\ LET c == storing.config
           i == storing.item
           rest == storing.parts \ {p}
       IN /\ log' = log \union {Record(c, i, p, run.asked[i], later)}
          /\ latest' = IF which = "claims"
                       THEN [latest EXCEPT ![i] = <<c, run.asked[i]>>] ELSE latest
          /\ IF rest = {}
             THEN /\ storing' = Nothing
                  /\ owed' = [owed EXCEPT ![Deployment[c]] = 1]
             ELSE storing' = [storing EXCEPT !.parts = rest] /\ UNCHANGED owed
    /\ UNCHANGED <<which, hand, version, run, phase, runs, asking, left, turn,
                   pool, folded>>

\* Nothing is running and no stream has more.
Finish ==
    /\ phase = "running" /\ Idle
    /\ \A d \in Deployments : owed[d] = 0
    /\ phase' = "done"
    /\ LetGo
    /\ UNCHANGED <<which, stored, hand, version, run, runs, aborted, failed>>

\* The process is interrupted or killed, or an append raises.
StopRun ==
    /\ phase = "running"
    /\ phase' = "stopped" /\ run' = Nothing /\ aborted' = {} /\ failed' = {}
    /\ LetGo
    /\ UNCHANGED <<which, stored, hand, version, runs>>

-----------------------------------------------------------------------------
Consume ==
    \/ \E d \in Deployments : Draw(d)
    \/ \E S \in SUBSET calls : \E R \in SUBSET S : Wake(S, R)
    \/ \E f \in batch : FoldFailure(f) \/ FoldAnswer(f)
    \/ \E p \in Parts : \E later \in BOOLEAN : StorePart(p, later)
    \/ Finish

DriverNext ==
    \/ \E r \in Requests : BeginRun(r)
    \/ \E i \in Editable : Edit(i)
    \/ \E S \in Passes : Claim(S)
    \/ Consume
    \/ StopRun

DriverSpec == DriverInit /\ [][DriverNext]_driverVars

-----------------------------------------------------------------------------
\* The variables take the values the code gives them, and no deployment ever
\* has more calls in flight than its budget, counting the one it may draw next.
DriverTypeOK ==
    /\ which \in Logs /\ log \subseteq Records
    /\ latest \in [Items -> {Nothing} \union (Configs \X (1..Edits + 1))]
    /\ hand \subseteq Items /\ version \in [Items -> 1..Edits + 1]
    /\ phase \in {"none", "running", "done", "aborted", "stopped"}
    /\ runs \in 0..MaxRuns
    /\ \A c \in Configs : asking[c] \in Seq(Items) /\ left[c] \in Seq(Items)
    /\ \A d \in Deployments : turn[d] \in Seq(Configs) /\ owed[d] \in 0..Concurrency
    /\ calls \subseteq Questions /\ batch \subseteq calls /\ raised \subseteq batch
    /\ \A d \in Deployments :
         Cardinality({f \in calls : Deployment[f.config] = d}) + owed[d]
           + (IF storing # Nothing /\ Deployment[storing.config] = d THEN 1 ELSE 0)
         <= Concurrency
    /\ aborted \subseteq Configs /\ failed \subseteq (Configs \X Items)

AnsweredBy(c, i, later) == \A p \in PartsOf : Record(c, i, p, run.asked[i], later) \in log

\* What a run leaves of a question it was meant to answer.
Settled(c, i) ==
    CASE run.kind \in {"match", "score"} -> AnsweredBy(c, i, FALSE)
      [] run.kind = "replay" -> i \in Unasked \/ AnsweredBy(c, i, FALSE) \/ AnsweredBy(c, i, TRUE)
      [] run.kind = "classify" ->
           i \in run.hand \/ (latest[i] # Nothing /\ (run.redo => latest[i] = <<c, run.asked[i]>>))

Meant == IF run.kind = "score" THEN run.hand ELSE Items

\* A run that ends by itself has left nothing out: whatever order the calls
\* answered in, whatever an earlier run that died had stored part of, and
\* whichever other plan gave up, each question of a plan that did not give up
\* carries the records of an answer to the text the run read, or its failure is
\* reported.  A replay of the loop carries that of whichever round was its last.
NothingIsDropped ==
    (phase = "done" /\ run.limit >= NItems) =>
        \A c \in run.configs \ aborted : \A i \in Meant :
            Settled(c, i) \/ <<c, i>> \in failed

\* A site of the loop whose first call's hash no record carries.
Unfindable(c, i) == run.kind = "replay" /\ i \in Looped /\ ~AnsweredBy(c, i, FALSE)

\* No call is paid for a question that is settled, unless the run was asked to
\* ask again, and none for a plan that has given up: an abort costs the plan
\* what it had in flight and nothing more.  What the code pays for again is a
\* site of the loop that only a later round's record answers.
CallsAreDue ==
    [][phase = "running" =>
         \A f \in calls' \ calls :
            /\ f.config \notin aborted
            /\ \/ run.fresh \/ ~Settled(f.config, f.item)
               \/ Unfindable(f.config, f.item)]_driverVars

Drawn(c) == Len(asking[c]) - Len(left[c])

\* Plans that share a deployment share it evenly: while both have something
\* left to ask, none is ever two questions ahead.
NoneWaits ==
    \A c, d \in Configs :
        (phase = "running" /\ Live(c) /\ Live(d) /\ Deployment[c] = Deployment[d]) =>
            Drawn(c) - Drawn(d) <= 1
=============================================================================
