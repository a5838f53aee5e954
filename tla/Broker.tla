-------------------------------- MODULE Broker --------------------------------
(***************************************************************************)
(* The broker (broker/app.py, broker/container.py): the one process that   *)
(* starts a submission's container, and the engine's side of it            *)
(* (runner/remote.py).                                                     *)
(*                                                                         *)
(* A run arrives as a request, waits for the admission lock within a       *)
(* bound, and is one `docker run`: a client process whose output the       *)
(* broker reads, and a container of the daemon's that outlives its client. *)
(* The container reports a line per case, or dies, or floods its output,   *)
(* or stops answering.  The broker itself may be restarted over a run.     *)
(*                                                                         *)
(* Time is counted in ticks, and a timer fires in the tick it is due.  What *)
(* a case was asked and what it returned is left out: an outcome is all    *)
(* that the broker reads of it.                                            *)
(***************************************************************************)
EXTENDS Naturals, Sequences, FiniteSets, SequencesExt

CONSTANTS
  Requests,  \* bound: the runs the engine sends, each once
  Shapes,    \* bound: the runs it may send, their cases and `stop_early`
  Start,     \* the container's start (STARTUP_MS)
  Case,      \* a case's cap with its slack (CASE_SLACK_MS)
  Wait,      \* how long a run waits for the one before it (WAIT_SECONDS)
  Docker,    \* how long one docker command may take (DOCKER_SECONDS)
  Margin     \* what the engine waits beyond the broker's own bounds

ASSUME BrokerAssumption ==
  /\ IsFiniteSet(Requests)
  /\ Shapes \subseteq (Nat \ {0}) \X BOOLEAN /\ IsFiniteSet(Shapes)
  /\ Start \in Nat \ {0} /\ Case \in Nat \ {0} /\ Wait \in Nat \ {0}
  /\ Docker \in Nat \ {0} /\ Margin \in Nat \ {0}

VARIABLES
  sent,        \* each run as the engine sent it, and where its request stands
  queue,       \* the runs waiting for the admission, in the order they came
  holder,      \* the runs holding the admission lock
  containers,  \* the container of each run
  up           \* whether the broker is running

vars == <<sent, queue, holder, containers, up>>

-----------------------------------------------------------------------------

\* What the broker tells apart of a case: it returned, or the run stops at it.
\* A case that crashed is to the broker what one past its cap is.
Outcomes == {"returned", "timeout"}

Deadline(wanted) == wanted * Case + Start

\* MUTANT: the engine leaves the wait for the run before it out.
PatienceWithoutWait(wanted) == Deadline(wanted) + Margin

\* `_timeout`: the broker's deadline, its wait and a second for the request.
Patience(wanted) == Deadline(wanted) + Wait + Margin

\* `due` is the timer of the step the request is at, and `patience` what is
\* left until the engine stops waiting for it.  A request ends `refused`,
\* `failed` with the container, `ran` with a result per case, or `lost` with
\* the broker; the engine hears the answer, or reads a fault.
Request == [step : {"unsent", "waiting", "running", "stopping", "done"},
            wanted : Nat, early : BOOLEAN, due : Nat, patience : Nat,
            answer : {"none", "refused", "failed", "ran", "lost"},
            cases : Seq(Outcomes), heard : {"pending", "answer", "fault"}]

Unsent == [step |-> "unsent", wanted |-> 0, early |-> FALSE, due |-> 0,
           patience |-> 0, answer |-> "none", cases |-> <<>>, heard |-> "pending"]

\* A container is `flooded` once its output passed the limit, and runs on.
\* `out` is what its client read of it.
Container == [state : {"none", "running", "flooded", "exited", "failed", "removed"},
              out : Seq(Outcomes)]

NoContainer == [state |-> "none", out |-> <<>>]

Running(r) == containers[r].state \in {"running", "flooded"}

InFlight(r) == sent[r].step \in {"waiting", "running", "stopping"}

Become(r, state) == containers' = [containers EXCEPT ![r].state = state]

\* The request is answered, which its engine hears unless it left; the lock
\* is released on every path.
Answer(r, answer, cases) ==
  /\ sent' = [sent EXCEPT ![r].step = "done", ![r].answer = answer,
                          ![r].cases = cases, ![r].due = 0, ![r].patience = 0,
                          ![r].heard = IF @ = "pending" THEN "answer" ELSE @]
  /\ holder' = holder \ {r}

-----------------------------------------------------------------------------
(***************************************************************************)
(* The request.                                                            *)
(***************************************************************************)

Send(r, wanted, early) ==
  /\ sent[r].step = "unsent"
  /\ IF up
     THEN /\ sent' = [sent EXCEPT ![r] =
                        [Unsent EXCEPT !.step = "waiting", !.wanted = wanted,
                                       !.early = early, !.due = Wait,
                                       !.patience = Patience(wanted)]]
          /\ queue' = Append(queue, r)
     ELSE /\ sent' = [sent EXCEPT ![r].step = "done", ![r].answer = "lost",
                                  ![r].heard = "fault"]
          /\ UNCHANGED queue
  /\ UNCHANGED <<holder, containers, up>>

\* MUTANT: the lock is not waited for.
AdmitBeside(r) ==
  /\ queue # <<>> /\ Head(queue) = r
  /\ queue' = Tail(queue)
  /\ holder' = holder \cup {r}
  /\ sent' = [sent EXCEPT ![r].step = "running", ![r].due = Deadline(sent[r].wanted)]
  /\ Become(r, "running")
  /\ UNCHANGED up

\* The lock is free and the run is the first one waiting: its container is
\* started.
Admit(r) ==
  /\ holder = {}
  /\ queue # <<>> /\ Head(queue) = r
  /\ queue' = Tail(queue)
  /\ holder' = {r}
  /\ sent' = [sent EXCEPT ![r].step = "running", ![r].due = Deadline(sent[r].wanted)]
  /\ Become(r, "running")
  /\ UNCHANGED up

\* The wait passed its bound: refused without running.
Refuse(r) ==
  /\ sent[r].step = "waiting" /\ sent[r].due = 0
  /\ \E i \in DOMAIN queue : queue[i] = r /\ queue' = RemoveAt(queue, i)
  /\ Answer(r, "refused", <<>>)
  /\ UNCHANGED <<containers, up>>

\* The engine stops waiting, which cancels nothing.
GiveUp(r) ==
  /\ InFlight(r) /\ sent[r].heard = "pending" /\ sent[r].patience = 0
  /\ sent' = [sent EXCEPT ![r].heard = "fault"]
  /\ UNCHANGED <<queue, holder, containers, up>>

-----------------------------------------------------------------------------
(***************************************************************************)
(* The container: one entry process, a child per case.                     *)
(***************************************************************************)

\* Stopped early, a run reports nothing past a case that did not return.
Reported(r) ==
  LET out == containers[r].out IN
  \/ Len(out) = sent[r].wanted
  \/ sent[r].early /\ out # <<>> /\ Last(out) # "returned"

\* Its client reads the line only while the broker has not killed it.
Report(r, outcome) ==
  /\ containers[r].state = "running" /\ sent[r].step = "running"
  /\ ~ Reported(r)
  /\ containers' = [containers EXCEPT ![r].out = Append(@, outcome)]
  /\ UNCHANGED <<sent, queue, holder, up>>

Flood(r) ==
  /\ containers[r].state = "running" /\ sent[r].step = "running"
  /\ Become(r, "flooded")
  /\ UNCHANGED <<sent, queue, holder, up>>

\* It ends by itself, with the run reported or with a fault of its own; one
\* that outlived its client is read by nobody.
End(r) ==
  /\ Running(r)
  /\ \/ Reported(r) /\ containers[r].state = "running" /\ Become(r, "exited")
     \/ Become(r, "failed")
  /\ UNCHANGED <<sent, queue, holder, up>>

-----------------------------------------------------------------------------
(***************************************************************************)
(* What the broker makes of it.                                            *)
(***************************************************************************)

\* MUTANT: every case is answered, whatever stopped the run early.
AllTimedOut(out, wanted, early) ==
  out \o [i \in 1..(wanted - Len(out)) |-> "timeout"]

\* MUTANT: one case more than the run was asked.
OneTimedOut(out, wanted, early) == Append(out, "timeout")

\* `_rest_timed_out`: what was never reported reads as the parent's timer
\* firing, and under `stop_early` the next case alone.
RestTimedOut(out, wanted, early) ==
  LET missing == wanted - Len(out)
      adding == IF ~ early THEN missing
                ELSE IF missing = 0 \/ (out # <<>> /\ Last(out) # "returned") THEN 0
                ELSE 1
  IN out \o [i \in 1..adding |-> "timeout"]

\* The client ended with its container: a verdict where the entry process
\* answered for every case it owed, and a fault otherwise.
Exited(r) ==
  LET out == containers[r].out IN
  /\ sent[r].step = "running"
  /\ \/ /\ containers[r].state = "exited"
        /\ IF sent[r].early \/ Len(out) = sent[r].wanted
           THEN Answer(r, "ran", out) ELSE Answer(r, "failed", <<>>)
     \/ containers[r].state = "failed" /\ Answer(r, "failed", <<>>)
  /\ UNCHANGED <<queue, containers, up>>

\* The output passed its limit: the client is killed, and its container is
\* left to itself.
Overflowed(r) ==
  /\ sent[r].step = "running" /\ containers[r].state = "flooded"
  /\ Answer(r, "failed", <<>>)
  /\ UNCHANGED <<queue, containers, up>>

\* MUTANT: a run past its deadline is given another.
ExpireAgain(r) ==
  /\ sent[r].step = "running" /\ sent[r].due = 0
  /\ sent' = [sent EXCEPT ![r].due = Deadline(sent[r].wanted)]
  /\ UNCHANGED <<queue, holder, containers, up>>

\* The deadline passed: the client is killed, and the container is then
\* stopped by its name.
Expire(r) ==
  /\ sent[r].step = "running" /\ sent[r].due = 0
  /\ sent' = [sent EXCEPT ![r].step = "stopping", ![r].due = Docker]
  /\ UNCHANGED <<queue, holder, containers, up>>

\* `kill`: the daemon stops the container, or finds it gone, or answers
\* nothing within its bound, which is let pass.
Stop(r) ==
  /\ sent[r].step = "stopping"
  /\ \/ IF Running(r) THEN Become(r, "removed") ELSE UNCHANGED containers
     \/ sent[r].due = 0 /\ UNCHANGED containers
  /\ Answer(r, "ran", RestTimedOut(containers[r].out, sent[r].wanted, sent[r].early))
  /\ UNCHANGED <<queue, up>>

-----------------------------------------------------------------------------
(***************************************************************************)
(* The process, and the clock.                                             *)
(***************************************************************************)

\* The broker dies with every request it has; their containers run on.
Crash ==
  /\ up /\ up' = FALSE
  /\ sent' = [r \in Requests |->
                IF InFlight(r)
                THEN [sent[r] EXCEPT !.step = "done", !.answer = "lost", !.due = 0,
                                     !.patience = 0,
                                     !.heard = IF @ = "pending" THEN "fault" ELSE @]
                ELSE sent[r]]
  /\ queue' = <<>> /\ holder' = {}
  /\ UNCHANGED containers

\* `started`: what carries the run's label is removed before the first run.
\* A daemon that cannot list it stops the start, and one that lists it removes it.
Restart ==
  /\ ~ up /\ up' = TRUE
  /\ containers' = [r \in Requests |->
                      IF Running(r) THEN [containers[r] EXCEPT !.state = "removed"]
                                    ELSE containers[r]]
  /\ UNCHANGED <<sent, queue, holder>>

\* No timer is due, and the event loop has nothing to admit.
Tick ==
  /\ \E r \in Requests : InFlight(r)
  /\ holder = {} => queue = <<>>
  /\ \A r \in Requests : InFlight(r) =>
       /\ sent[r].due > 0
       /\ sent[r].heard = "pending" => sent[r].patience > 0
  /\ sent' = [r \in Requests |->
                IF ~ InFlight(r) THEN sent[r]
                ELSE [sent[r] EXCEPT
                        !.due = @ - 1,
                        !.patience = IF sent[r].heard = "pending" THEN @ - 1 ELSE @]]
  /\ UNCHANGED <<queue, holder, containers, up>>

Init ==
  /\ sent = [r \in Requests |-> Unsent]
  /\ queue = <<>>
  /\ holder = {}
  /\ containers = [r \in Requests |-> NoContainer]
  /\ up = TRUE

\* What the broker's own process takes, as against its containers' and its
\* engine's steps.
Takes(r) == Admit(r) \/ Refuse(r) \/ Expire(r) \/ Stop(r) \/ Overflowed(r)

Next ==
  \/ \E r \in Requests :
       \/ \E shape \in Shapes : Send(r, shape[1], shape[2])
       \/ Admit(r) \/ Refuse(r) \/ GiveUp(r)
       \/ \E outcome \in Outcomes : Report(r, outcome)
       \/ Flood(r) \/ End(r)
       \/ Exited(r) \/ Overflowed(r) \/ Expire(r) \/ Stop(r)
  \/ Crash \/ Restart \/ Tick

\* The clock runs, the event loop takes what it is due and the engine leaves
\* when its own timer fires.  Nothing is asked of a container, of the daemon's
\* kill or of whoever restarts the broker.
Fairness ==
  /\ WF_vars(Tick)
  /\ \A r \in Requests : WF_vars(Takes(r)) /\ WF_vars(GiveUp(r))

Spec == Init /\ [][Next]_vars /\ Fairness

-----------------------------------------------------------------------------

\* The requests and the containers are what the code's types admit, and no
\* answer holds more results than the run asked for.
TypeOK ==
  /\ sent \in [Requests -> Request]
  /\ \A r \in Requests : Len(sent[r].cases) <= sent[r].wanted
  /\ queue \in Seq(Requests)
  /\ holder \in SUBSET Requests
  /\ containers \in [Requests -> Container]
  /\ up \in BOOLEAN

\* Two containers run at once only where one of them outlived its run: its
\* output passed the limit, or the daemon did not answer the kill.
AloneUnlessLeftBehind ==
  \A r, other \in Requests :
    r # other /\ Running(r) /\ Running(other) /\ up =>
      \E left \in {r, other} :
        \/ sent[left].answer = "failed" /\ containers[left].state = "flooded"
        \/ sent[left].answer = "ran"

\* A verdict is of a whole run: what its container reported, in place, then a
\* timeout for each case the deadline cut off, and short of the cases asked
\* for only where the run was stopped early at a case that did not return.
VerdictsAreOfWholeRuns ==
  \A r \in Requests : sent[r].answer = "ran" =>
    LET cases == sent[r].cases  out == containers[r].out IN
    /\ IsPrefix(out, cases)
    /\ \A i \in 1..Len(cases) : i > Len(out) => cases[i] = "timeout"
    /\ Len(cases) # sent[r].wanted =>
         sent[r].early /\ cases # <<>> /\ Last(cases) # "returned"
    /\ sent[r].early =>
         \A i \in 1..Len(cases) - 1 : cases[i] = "returned"

\* The engine outwaits the broker: it gives a run up only while the broker
\* waits for the daemon to stop its container.
GivesUpOnlyOnASlowKill ==
  [][\A r \in Requests :
       sent[r].heard = "pending" /\ sent'[r].heard = "fault" /\ up' =>
         sent[r].step \in {"unsent", "stopping"}]_vars

\* A run sent is answered: refused, failed, with a verdict or with the broker.
EveryRunIsAnswered ==
  \A r \in Requests : sent[r].step # "unsent" ~> sent[r].step = "done"
=============================================================================
