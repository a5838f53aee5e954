------------------------------- MODULE Runner -------------------------------
(***************************************************************************)
(* One run of a solution over its cases, a child process a case            *)
(* (runner/execution.py, runner/child.py).  The engine forks the children  *)
(* itself and reads a file when one has exited; a broker's container has   *)
(* an entry process fork them and reads a line from a pipe.  Two timers    *)
(* watch a case: an alarm the child sets over its calls, which raises in   *)
(* the solution's own code, and the parent's deadline over the process.    *)
(*                                                                         *)
(* A plan is what the solution does on one case: how long its process      *)
(* takes to start, its module to load and each of its calls to return, how *)
(* the last of them ends, whether its code catches Exception, and what it  *)
(* leaves behind.  Time is counted in ticks; what needs none happens       *)
(* before the next, in any order two processes may take.                   *)
(***************************************************************************)
EXTENDS Integers, Sequences

CONSTANTS
    Cap,    \* what the calls of a case may take (cap_ms)
    Slack,  \* what the parent allows beyond it (STARTUP_MS, SLACK_MS)
    Cases,  \* bound: the cases of a run
    Plans   \* bound: what the solution may do on one

\* "unloadable" is a module whose top level raises, "stuck" a call no timer of
\* the child's own reaches.
Ends == {"returns", "raises", "unloadable", "unencodable", "too_deep", "killed", "exits",
         "hangs", "stuck"}

ASSUME RunnerAssumption ==
    /\ Cap \in Nat \ {0} /\ Slack \in Nat \ {0} /\ Cases \in Nat \ {0}
    /\ \A p \in Plans :
         /\ p.start \in Nat /\ p.load \in Nat /\ p.calls \in Seq(Nat) \ {<<>>}
         /\ p.end \in Ends /\ p.catches \in BOOLEAN
         /\ p.leaves \in {"nothing", "process", "thread"}

VARIABLES
    backend,    \* "local" or "entry", who the parent is
    stopEarly,  \* whether the run ends at the first case that returned nothing
    index,      \* the case at hand; 0 is the entry's warm-up
    results,    \* what each case came to, and the time its calls took
    parent,     \* "idle", "waiting", "joining", "done" or "fault"
    plan,       \* what the solution does on the case at hand
    child,      \* the process of the case
    clock       \* since it was forked, counted as far as the deadline

runnerVars == <<backend, stopEarly, index, results, parent, plan, child, clock>>

run == <<backend, stopEarly, index, results, plan>>

-----------------------------------------------------------------------------
Deadline == Cap + Slack

\* No case, and what an answer holds: the outcome and the calls' own time.
NoChild == [pc |-> "none", left |-> 0, call |-> 1, armed |-> FALSE, timer |-> 0, elapsed |-> 0,
            answer |-> "none", wrote |-> FALSE, code |-> "none", spawned |-> FALSE]

WarmUp == [start |-> 0, load |-> 0, calls |-> <<0>>, end |-> "returns", catches |-> FALSE,
           leaves |-> "nothing"]

RunnerInit ==
    /\ backend \in {"local", "entry"} /\ stopEarly \in BOOLEAN
    /\ index = (IF backend = "entry" THEN 0 ELSE 1) /\ results = <<>>
    /\ parent = "idle" /\ plan = WarmUp /\ child = NoChild /\ clock = 0

\* Code that does not parse or binds no `solve` crashes every case, and
\* nothing is run.
Unrunnable ==
    /\ parent = "idle" /\ results = <<>> /\ plan = WarmUp
    /\ results' = [i \in 1..Cases |-> [outcome |-> "crashed", ms |-> 0]]
    /\ parent' = "done"
    /\ UNCHANGED <<backend, stopEarly, index, plan, child, clock>>

Fork ==
    /\ parent = "idle"
    /\ plan' \in (IF index = 0 THEN {WarmUp} ELSE Plans)
    /\ child' = [NoChild EXCEPT !.pc = "starting", !.left = plan'.start]
    /\ parent' = "waiting" /\ clock' = 0
    /\ UNCHANGED <<backend, stopEarly, index, results>>

-----------------------------------------------------------------------------
(* The child.  *)

Is(pc) == child.pc = pc /\ child.left = 0

Alone == UNCHANGED <<run, parent, clock>>

\* Its own session, then the module's top level, which no alarm covers.
Isolate ==
    /\ Is("starting")
    /\ child' = [child EXCEPT !.pc = "loading", !.left = plan.load]
    /\ Alone

\* It raised, before any call.
Unloadable ==
    /\ Is("loading") /\ plan.end = "unloadable"
    /\ child' = [child EXCEPT !.pc = "encoding", !.answer = "crashed"]
    /\ Alone

\* MUTANT: the alarm is set anew for each call.
ArmedAnew(c) == [c EXCEPT !.armed = TRUE, !.timer = Cap]

\* The alarm is set once, over all the calls.
Armed(c) == IF c.pc = "loading" THEN [c EXCEPT !.armed = TRUE, !.timer = Cap] ELSE c

\* A call has its module afresh, loaded under the alarm and outside the time
\* the call is counted.
Call ==
    /\ (Is("loading") /\ plan.end # "unloadable") \/ Is("called")
    /\ child' = [Armed(child) EXCEPT !.pc = "reloading", !.left = plan.load]
    /\ Alone

Solve ==
    /\ Is("reloading")
    /\ child' = [child EXCEPT !.pc = "solving", !.left = plan.calls[child.call],
                              !.spawned = plan.leaves = "process"]
    /\ Alone

LastCall == child.call = Len(plan.calls)

Returned(next, answer) ==
    child' = [child EXCEPT !.pc = next, !.elapsed = @ + plan.calls[child.call],
                           !.call = @ + 1, !.answer = answer]

\* The process dies with nothing written: by a signal, or by exiting.
Dies(code) == child' = [child EXCEPT !.pc = "dead", !.armed = FALSE, !.code = code]

\* A call ends, the last as the plan has it.
EndCall ==
    /\ Is("solving")
    /\ \/ ~LastCall /\ Returned("called", "none")
       \/ LastCall /\ plan.end \in {"returns", "unencodable", "too_deep"} /\ Returned("disarming", plan.end)
       \/ LastCall /\ plan.end = "raises" /\ child' = [child EXCEPT !.pc = "describing"]
       \/ LastCall /\ plan.end = "killed" /\ Dies("signal")
       \/ LastCall /\ plan.end = "exits" /\ Dies("exit")
       \/ LastCall /\ plan.end \in {"hangs", "stuck"} /\ child' = [child EXCEPT !.pc = plan.end]
    /\ Alone

\* What the solution raised is put in words, with the alarm still set.
Describe ==
    /\ Is("describing")
    /\ child' = [child EXCEPT !.pc = "disarming", !.answer = "crashed"]
    /\ Alone

Disarm ==
    /\ Is("disarming")
    /\ child' = [child EXCEPT !.pc = "encoding", !.armed = FALSE]
    /\ Alone

\* A value of a type JSON has none for crashes the case.  One nested too deep
\* raises what the encoding does not catch, and the child exits on it.
Encode ==
    /\ Is("encoding")
    /\ \/ child.answer = "too_deep" /\ Dies("exit")
       \/ /\ child.answer # "too_deep"
          /\ child' = [child EXCEPT
               !.pc = "leaving", !.wrote = TRUE,
               !.answer = CASE @ = "returns" -> "returned" [] @ = "unencodable" -> "crashed"
                            [] OTHER -> @]
    /\ Alone

\* The entry's child exits at once; the engine's waits for the threads the
\* solution left running.
Lingers == child.pc = "leaving" /\ backend = "local" /\ plan.leaves = "thread"

Leave ==
    /\ Is("leaving") /\ ~Lingers
    /\ Dies("exit")
    /\ Alone

-----------------------------------------------------------------------------
(* The alarm.  *)

Code == {"reloading", "solving", "called", "hangs"}

\* It is due, and the child is where a handler may run.
Due == child.armed /\ child.timer = 0 /\ child.pc \in Code \union {"describing", "disarming"}

Caught == plan.catches /\ child.pc # "called"

\* It raises in the solution's code, which may catch it and go on; raised
\* while a result is being made, nothing does, and the child exits on it.
Expire ==
    /\ Due
    /\ \/ child.pc \in Code /\ Caught /\ child' = [child EXCEPT !.armed = FALSE]
       \/ /\ child.pc \in Code /\ ~Caught
          /\ child' = [child EXCEPT !.pc = "disarming", !.left = 0, !.armed = FALSE,
                                    !.answer = "timeout"]
       \/ child.pc \notin Code /\ Dies("exit")
    /\ Alone

-----------------------------------------------------------------------------
(* The parent.  *)

\* MUTANT: what a case spawned is killed only where the deadline passed.
KilledLate(c) == [NoChild EXCEPT !.spawned = c.spawned /\ clock < Deadline]

\* The group is killed on every path, and the child reaped.
Killed(c) == NoChild

\* Stopped early, never at a case that returned.
Stops(outcome) == index = Cases \/ (stopEarly /\ index > 0 /\ outcome # "returned")

Record(outcome, ms, remains) ==
    /\ results' = IF index = 0 THEN results ELSE Append(results, [outcome |-> outcome, ms |-> ms])
    /\ parent' = IF Stops(outcome) THEN "done" ELSE "idle"
    /\ index' = index + 1
    /\ child' = remains
    /\ UNCHANGED <<backend, stopEarly, plan, clock>>

\* The engine reads the file once the child has exited, the entry the pipe as
\* far as the line.
Whole == child.wrote /\ (backend = "local" => child.pc = "dead")

Written ==
    /\ parent = "waiting" /\ Whole
    /\ Record(child.answer, child.elapsed, Killed(child))

\* Nothing was written and the child is dead, which the entry learns as the
\* pipe closes: a process of the solution's may hold it open.
Silent == child.pc = "dead" /\ ~child.wrote /\ (backend = "entry" => ~child.spawned)

Died == parent = "waiting" /\ Silent /\ child.code = "signal" /\ Record("crashed", 0, Killed(child))

\* The runner's own fault is raised: the run ends with no results.
Fault ==
    /\ parent = "waiting" /\ Silent /\ child.code = "exit"
    /\ parent' = "fault" /\ child' = Killed(child)
    /\ UNCHANGED <<run, clock>>

\* MUTANT: the child's own alarm is trusted to end it.
NoDeadline == child.pc = "dead" /\ clock = Deadline

Expired == clock = Deadline

Answers == Whole \/ Silent

\* The engine kills the group alone, which a child that has not made itself
\* one yet outlives; the entry kills the child as well.
GiveUp ==
    /\ parent = "waiting" /\ Expired
    /\ backend = "local" => child.pc # "dead"
    /\ \/ /\ backend = "local" /\ child.pc = "starting"
          /\ parent' = "joining"
          /\ UNCHANGED <<run, child, clock>>
       \/ /\ ~(backend = "local" /\ child.pc = "starting")
          /\ Record("timeout", 0, Killed(child))

\* It is waited for all the same.
Join ==
    /\ parent = "joining" /\ child.pc = "dead"
    /\ Record("timeout", 0, [NoChild EXCEPT !.spawned = child.spawned])

-----------------------------------------------------------------------------
(* Time passes while nothing is due.  *)

Computes == child.left > 0 \/ child.pc \in {"hangs", "stuck", "dead"} \/ Lingers

Tick ==
    /\ Computes /\ ~Due
    /\ \/ parent = "waiting" /\ ~Expired /\ ~Answers
       \/ parent = "joining" /\ child.pc # "dead"
    /\ clock' = IF clock < Deadline THEN clock + 1 ELSE clock
    /\ child' = [child EXCEPT !.left = IF @ > 0 THEN @ - 1 ELSE 0,
                              !.timer = IF @ > 0 THEN @ - 1 ELSE 0]
    /\ UNCHANGED <<run, parent>>

-----------------------------------------------------------------------------
RunnerNext ==
    \/ Unrunnable
    \/ Fork
    \/ Isolate \/ Unloadable \/ Call \/ Solve \/ EndCall \/ Describe \/ Disarm \/ Encode \/ Leave \/ Expire
    \/ Written \/ Died \/ Fault \/ GiveUp \/ Join
    \/ Tick

\* The operating system runs the two processes and its clock.
RunnerSpec == RunnerInit /\ [][RunnerNext]_runnerVars /\ WF_runnerVars(RunnerNext)

-----------------------------------------------------------------------------
\* The engine's child made itself no group before the deadline had passed.
Late == backend = "local" /\ plan.start >= Deadline

\* The variables take the values the code gives them, and no case meets a
\* process of the one before it, unless that one started late.
RunnerTypeOK ==
    /\ backend \in {"local", "entry"} /\ stopEarly \in BOOLEAN
    /\ index \in 0..Cases + 1
    /\ results \in Seq([outcome : {"returned", "crashed", "timeout"}, ms : Nat])
    /\ parent \in {"idle", "waiting", "joining", "done", "fault"}
    /\ clock \in 0..Deadline /\ child.timer \in 0..Cap /\ child.call \in 1..Len(plan.calls) + 1
    /\ parent \notin {"waiting", "joining"} => child.pc = "none" /\ (child.spawned => Late)

Sum(s) ==
    LET sum[k \in 0..Len(s)] == IF k = 0 THEN 0 ELSE sum[k - 1] + s[k]
    IN sum[Len(s)]

\* What the calls take, and the alarm's share of it: each loads its module.
Spent == Sum(plan.calls)
Covered == Spent + Len(plan.calls) * plan.load

Ran == index > 1 /\ parent \in {"idle", "done"}
Verdict == results[Len(results)]

\* What a case comes to is what its solution did, whichever timer fired and
\* whoever was first: a case that returned made every call, and inside the cap
\* unless its code caught the alarm; one that crashed raised, died or returned
\* what nothing encodes; one that timed out was over one of the two timers, or
\* left something running that the parent waited for; and the runner's own
\* fault is code that ended the process, or an alarm come as the last call did.
VerdictIsTrue ==
    /\ Ran => CASE Verdict.outcome = "returned" ->
                     /\ plan.end = "returns" /\ Verdict.ms = Spent
                     /\ Covered <= Cap \/ plan.catches
                [] Verdict.outcome = "crashed" ->
                     plan.end \in {"raises", "unloadable", "unencodable", "killed"}
                [] Verdict.outcome = "timeout" ->
                     \/ plan.end \in {"hangs", "stuck"}
                     \/ Covered >= Cap
                     \/ plan.start + plan.load + Covered >= Deadline
                     \/ backend = "local" /\ plan.leaves = "thread"
                     \/ backend = "entry" /\ plan.leaves = "process"
                          /\ plan.end \in {"killed", "exits", "too_deep"}
    /\ parent = "fault" => plan.end \in {"exits", "too_deep"} \/ Covered = Cap

\* Every run comes to an end, whatever its solution does, but for a late child
\* of the engine's that nothing kills and that never ends.
EveryRunEnds ==
    <>(parent \in {"done", "fault"} \/ (parent = "joining" /\ Late))
=============================================================================
