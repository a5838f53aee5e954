------------------------------- MODULE Sitting -------------------------------
(***************************************************************************)
(* The sittings of one user on one problem (sitting.py), as the requests   *)
(* of the API move them: each request is a thread of the server's pool,    *)
(* which reads a sitting, decides on what it read, and writes the whole    *)
(* record back.  Nothing is locked between the two, and a submission runs  *)
(* its code in between, so two requests in flight may each write over what *)
(* the other wrote.                                                        *)
(*                                                                         *)
(* A request refused before it reads a sitting (no such problem, a problem *)
(* that is not served, another user's sitting) changes nothing and is left *)
(* out.  Moments are counted from 1, and 0 stands for an absent one.       *)
(***************************************************************************)
EXTENDS Integers, Sequences, FiniteSets, Folds, SequencesExt

CONSTANTS
  Slots,       \* the requests that may be in flight at once
  Ids,         \* bound: the sittings minted, 1 .. n in the order they are
  Idle,        \* how long a sitting may go untouched (IDLE_MINUTES)
  Window,      \* what a rate is counted over (a minute)
  Cap,         \* the submissions a window admits (RUNS_PER_MINUTE)
  MaxNow,      \* bound: the moments the clock reaches
  MaxRequests, \* bound: the requests sent one after another
  MaxRaced     \* bound: the requests sent where two of them overlapped

ASSUME SittingAssumption ==
  /\ IsFiniteSet(Slots)
  /\ Ids \subseteq Nat \ {0}
  /\ Idle \in Nat /\ Window \in Nat /\ Cap \in Nat \ {0}
  /\ MaxNow \in Nat /\ MaxRequests \in Nat /\ MaxRaced \in Nat

VARIABLES
  stored,      \* the sittings as their store holds them
  attempts,    \* the attempts appended, in order, each with its verification
  slots,       \* the requests in flight: what each read and what it does next
  now,         \* the engine's clock
  requests,    \* how many requests were sent
  ran,         \* history: how long the clock of each sitting has run
  overlapped,  \* history: whether two requests were ever in flight at once
  died,        \* history: whether the process was restarted over a request
  failed       \* history: whether a request failed on a record it could not store

vars == <<stored, attempts, slots, now, requests, ran, overlapped, died, failed>>

Histories == <<ran, overlapped, died, failed>>

-----------------------------------------------------------------------------
(***************************************************************************)
(* The record.                                                             *)
(***************************************************************************)

Pause == [at : Nat, until : Nat]

Record == [started : Nat, clock : Nat, ended : Nat, active : Nat,
           pauses : Seq(Pause)]

Absent == [started |-> 0, clock |-> 0, ended |-> 0, active |-> 0,
           pauses |-> <<>>]

Paused(one) == one.pauses # <<>> /\ Last(one.pauses).until = 0

Running(one) == one.ended = 0

\* How long each pause took, one still open counted as far as `at`.
Spans(pauses, at) ==
  [k \in 1..Len(pauses) |->
     (IF pauses[k].until # 0 THEN pauses[k].until ELSE at) - pauses[k].at]

Total(spans) ==
  LET sum[k \in 0..Len(spans)] == IF k = 0 THEN 0 ELSE sum[k - 1] + spans[k]
  IN sum[Len(spans)]

\* How long the clock ran by `at`, every pause excluded.
Elapsed(one, at) ==
  (IF one.ended # 0 THEN one.ended ELSE at) - one.clock - Total(Spans(one.pauses, at))

\* Where the next pause, or the end, may begin.
Edge(one, k) ==
  IF k > 0 THEN IF one.pauses[k].until # 0 THEN one.pauses[k].until
                                           ELSE one.pauses[k].at
  ELSE IF one.clock # 0 THEN one.clock ELSE one.started

\* `_the_intervals_hold`, with the checks of the two tables.
Valid(one) ==
  /\ one.pauses # <<>> => one.clock # 0
  /\ one.clock # 0 => one.clock >= one.started
  /\ \A k \in 1..Len(one.pauses) :
       LET p == one.pauses[k] IN
       /\ p.at >= Edge(one, k - 1)
       /\ p.until # 0 => p.until >= p.at
       /\ p.until = 0 => k = Len(one.pauses)
  /\ one.ended # 0 => one.ended >= Edge(one, Len(one.pauses)) /\ ~ Paused(one)

Served(id) == stored[id] # Absent

\* A record is written whole: one its own rules refuse is not, and neither is
\* one leaving the user two running sittings on the problem.
Storable(id, one) ==
  /\ Valid(one)
  /\ Running(one) => \A other \in Ids \ {id} : ~ (Served(other) /\ Running(stored[other]))

IsIdle(one, at) == at - one.active > Idle

Closed(pauses, at) == [pauses EXCEPT ![Len(pauses)].until = at]

\* The record ended at `at`, a pause the user left open closed there.
Ended(one, at) ==
  [one EXCEPT !.ended = at,
              !.pauses = IF Paused(one) THEN Closed(@, at) ELSE @]

\* MUTANT: an idle sitting is ended with its open pause left open.
EndedIdleOpen(one) == [one EXCEPT !.ended = one.active]

EndedIdle(one) == Ended(one, one.active)

Touched(one, at) == [one EXCEPT !.active = at]

\* MUTANT: the clock is run from the serving rather than from the press.
ClockStartedAtServing(one, at) == [one EXCEPT !.clock = one.started, !.active = at]

ClockStarted(one, at) == [one EXCEPT !.clock = at, !.active = at]

PausedAt(one, at) ==
  [one EXCEPT !.pauses = Append(@, [at |-> at, until |-> 0]), !.active = at]

ResumedAt(one, at) == [one EXCEPT !.pauses = Closed(@, at), !.active = at]

-----------------------------------------------------------------------------
(***************************************************************************)
(* A request.                                                              *)
(***************************************************************************)

Kinds == {"serve", "get", "submit", "start", "pause", "resume", "end"}

Steps == {"free", "row", "pauses", "act", "mint", "count", "touch", "judge",
          "append", "verify", "close"}

\* `at` is the moment the request acts at, `one` the record it read, and
\* `attempt` the place of the attempt it appended.
Slot == [step : Steps, kind : Kinds, at : Nat, id : Ids \cup {0}, one : Record,
         solved : BOOLEAN, attempt : Nat, ran : Int]

Free == [step |-> "free", kind |-> "serve", at |-> 0, id |-> 0, one |-> Absent,
         solved |-> FALSE, attempt |-> 0, ran |-> 0]

At(r, step) == slots[r].step = step

\* The next step of a request, over the record it now holds.
Go(r, one, step) ==
  slots' = [slots EXCEPT ![r] = IF step = "free" THEN Free
                                ELSE [@ EXCEPT !.step = step, !.one = one]]

Answer(r) == Go(r, Absent, "free")

Fail(r) == Answer(r) /\ failed' = TRUE /\ UNCHANGED <<stored, attempts>>

\* `_stored`: the revised record is validated and written whole, and a record
\* that cannot be stored fails the request.
Put(r, one, step) ==
  LET id == slots[r].id IN
  \/ /\ Storable(id, one)
     /\ stored' = [stored EXCEPT ![id] = one]
     /\ Go(r, one, step)
     /\ UNCHANGED <<attempts, failed>>
  \/ ~ Storable(id, one) /\ Fail(r)

\* The request arrives, and takes its moment before it reads anything.
Arrive(r, kind, id) ==
  /\ At(r, "free")
  /\ IF kind = "serve" THEN id = 0 ELSE id \in Ids /\ Served(id)
  /\ slots' = [slots EXCEPT ![r] =
                 [Free EXCEPT !.step = "row", !.kind = kind, !.at = now,
                              !.id = id, !.ran = IF id = 0 THEN 0 ELSE ran[id]]]
  /\ requests' = requests + 1
  /\ overlapped' = (overlapped \/ \E other \in Slots : ~ At(other, "free"))
  /\ requests < IF overlapped' THEN MaxRaced ELSE MaxRequests
  /\ UNCHANGED <<stored, attempts, now, ran, died, failed>>

\* `_read`, a query for the row and a second one for its pauses.  Serving reads
\* the sitting running on the problem, and mints one where none is.
ReadRow(r) ==
  LET open == {id \in Ids : Served(id) /\ Running(stored[id])} IN
  /\ At(r, "row")
  /\ \/ /\ slots[r].kind = "serve" /\ open = {}
        /\ Go(r, Absent, "mint")
     \/ \E id \in IF slots[r].kind = "serve" THEN open ELSE {slots[r].id} :
          slots' = [slots EXCEPT ![r] =
                      [@ EXCEPT !.step = "pauses", !.id = id,
                                !.one = [stored[id] EXCEPT !.pauses = <<>>]]]
  /\ UNCHANGED <<stored, attempts, now, requests, Histories>>

\* A read that finds a row and pauses no record holds together fails.  Only
\* `get` takes its moment after it read.
ReadPauses(r) ==
  LET whole == [slots[r].one EXCEPT !.pauses = stored[slots[r].id].pauses]
      at == IF slots[r].kind = "get" THEN now ELSE slots[r].at IN
  /\ At(r, "pauses")
  /\ \/ /\ Valid(whole)
        /\ slots' = [slots EXCEPT ![r] =
                       [@ EXCEPT !.step = "act", !.one = whole, !.at = at]]
        /\ UNCHANGED <<stored, attempts, ran, failed>>
     \/ ~ Valid(whole) /\ Fail(r) /\ UNCHANGED ran
  /\ UNCHANGED <<now, requests, overlapped, died>>

\* The request is refused over what it read, or had nothing to do.
Leave(r) == Answer(r) /\ UNCHANGED <<stored, attempts, ran, failed>>

-----------------------------------------------------------------------------
(***************************************************************************)
(* What each request does with the record it read.                         *)
(***************************************************************************)

\* A sitting left idle is ended where it was last touched, and another minted.
ServeAct(r) ==
  LET one == slots[r].one  at == slots[r].at IN
  /\ slots[r].kind = "serve"
  /\ \/ IsIdle(one, at) /\ Put(r, EndedIdle(one), "mint")
     \/ ~ IsIdle(one, at) /\ Put(r, Touched(one, at), "free")
  /\ UNCHANGED ran

\* MUTANT: a reload touches a sitting that has ended.
GetEnded(r) ==
  LET one == slots[r].one IN
  /\ slots[r].kind = "get"
  /\ \E at \in slots[r].at .. now :
       \/ Running(one) /\ IsIdle(one, at) /\ Put(r, EndedIdle(one), "free")
       \/ ~ IsIdle(one, at) /\ Put(r, Touched(one, at), "free")
  /\ UNCHANGED ran

\* A reload, and the page's own reading while it is shown.
GetAct(r) ==
  LET one == slots[r].one IN
  /\ slots[r].kind = "get"
  /\ \/ ~ Running(one) /\ Leave(r)
     \/ /\ Running(one)
        /\ \E at \in slots[r].at .. now :
             \/ IsIdle(one, at) /\ Put(r, EndedIdle(one), "free")
             \/ ~ IsIdle(one, at) /\ Put(r, Touched(one, at), "free")
  /\ UNCHANGED ran

\* A submission to an idle sitting ends it and is refused.
SubmitAct(r) ==
  LET one == slots[r].one  at == slots[r].at IN
  /\ slots[r].kind = "submit"
  /\ \/ ~ Running(one) /\ Leave(r)
     \/ /\ Running(one)
        /\ \/ IsIdle(one, at) /\ Put(r, EndedIdle(one), "free")
           \/ /\ ~ IsIdle(one, at) /\ Go(r, one, "count")
              /\ UNCHANGED <<stored, attempts, failed>>
  /\ UNCHANGED ran

\* `start_clock`, `pause` and `resume`, each refused on an ended sitting and on
\* a clock it says nothing to.  The history counts the clock from a press that
\* is stored.
Press(r, one, counted) ==
  /\ Put(r, one, "free")
  /\ ran' = IF Storable(slots[r].id, one) THEN [ran EXCEPT ![slots[r].id] = counted]
                                          ELSE ran

StartClock(r) ==
  LET one == slots[r].one  at == slots[r].at IN
  /\ slots[r].kind = "start"
  /\ \/ ~ (Running(one) /\ one.clock = 0) /\ Leave(r)
     \/ /\ Running(one) /\ one.clock = 0
        /\ Press(r, ClockStarted(one, at), now - at)

PauseClock(r) ==
  LET one == slots[r].one  at == slots[r].at IN
  /\ slots[r].kind = "pause"
  /\ \/ ~ (Running(one) /\ one.clock # 0 /\ ~ Paused(one)) /\ Leave(r)
     \/ /\ Running(one) /\ one.clock # 0 /\ ~ Paused(one)
        /\ Press(r, PausedAt(one, at), ran[slots[r].id] - (now - at))

ResumeClock(r) ==
  LET one == slots[r].one  at == slots[r].at IN
  /\ slots[r].kind = "resume"
  /\ \/ ~ (Running(one) /\ Paused(one)) /\ Leave(r)
     \/ /\ Running(one) /\ Paused(one)
        /\ Press(r, ResumedAt(one, at), ran[slots[r].id] + (now - at))

\* The End press, which leaves the last touch alone.
End(r) ==
  LET one == slots[r].one  at == slots[r].at IN
  /\ slots[r].kind = "end"
  /\ \/ ~ Running(one) /\ Leave(r)
     \/ Running(one) /\ Put(r, Ended(one, at), "free") /\ UNCHANGED ran

Act(r) ==
  /\ At(r, "act")
  /\ \/ ServeAct(r) \/ GetAct(r) \/ SubmitAct(r) \/ StartClock(r)
     \/ PauseClock(r) \/ ResumeClock(r) \/ End(r)
  /\ UNCHANGED <<now, requests, overlapped, died>>

\* A sitting minted at the moment of the request that serves it.
Mint(r) ==
  LET at == slots[r].at
      id == Cardinality({i \in Ids : Served(i)}) + 1
      one == [Absent EXCEPT !.started = at, !.active = at] IN
  /\ At(r, "mint") /\ id \in Ids
  /\ \/ /\ Storable(id, one)
        /\ stored' = [stored EXCEPT ![id] = one]
        /\ Answer(r) /\ UNCHANGED <<attempts, failed>>
     \/ ~ Storable(id, one) /\ Fail(r)
  /\ UNCHANGED <<now, requests, ran, overlapped, died>>

-----------------------------------------------------------------------------
(***************************************************************************)
(* The rest of a submission.                                               *)
(***************************************************************************)

Recent(at) == Cardinality({k \in 1..Len(attempts) : attempts[k].at >= at - Window})

\* MUTANT: the window admits one submission more.
CountOneMore(r) ==
  /\ At(r, "count")
  /\ IF Recent(slots[r].at) > Cap THEN Answer(r) ELSE Go(r, slots[r].one, "touch")
  /\ UNCHANGED <<stored, attempts, now, requests, Histories>>

\* Before the run, so a submission past the cap starts no container.
Count(r) ==
  /\ At(r, "count")
  /\ IF Recent(slots[r].at) >= Cap THEN Answer(r) ELSE Go(r, slots[r].one, "touch")
  /\ UNCHANGED <<stored, attempts, now, requests, Histories>>

Touch(r) ==
  /\ At(r, "touch")
  /\ Put(r, Touched(slots[r].one, slots[r].at), "judge")
  /\ UNCHANGED <<now, requests, ran, overlapped, died>>

\* The code is run against the cases, which takes a while and may fail with
\* the runner, ending the request.
Judge(r) ==
  /\ At(r, "judge")
  /\ \/ \E solved \in BOOLEAN :
          slots' = [slots EXCEPT ![r] = [@ EXCEPT !.step = "append", !.solved = solved]]
     \/ Answer(r)
  /\ UNCHANGED <<stored, attempts, now, requests, Histories>>

Timed(one) == one.clock # 0

\* MUTANT: an attempt is appended with whatever time its sitting reports.
AnyTime(one, at) == TRUE

\* The check of the attempts' table.
Counted(one, at) == Timed(one) => Elapsed(one, at) >= 0

\* The attempt carries the time of the record the submission read, as of the
\* moment it arrived.
AppendAttempt(r) ==
  LET one == slots[r].one  at == slots[r].at IN
  /\ At(r, "append")
  /\ \/ /\ Counted(one, at)
        /\ attempts' = Append(attempts,
             [sitting |-> slots[r].id, at |-> at, solved |-> slots[r].solved,
              timed |-> Timed(one), time |-> IF Timed(one) THEN Elapsed(one, at) ELSE 0,
              ran |-> slots[r].ran, verified |-> FALSE])
        /\ slots' = [slots EXCEPT ![r] = [@ EXCEPT !.step = "verify",
                                                   !.attempt = Len(attempts) + 1]]
        /\ UNCHANGED <<stored, failed>>
     \/ ~ Counted(one, at) /\ Fail(r)
  /\ UNCHANGED <<now, requests, ran, overlapped, died>>

\* Its verification is a record of its own, in a transaction of its own.
AppendVerification(r) ==
  /\ At(r, "verify")
  /\ attempts' = [attempts EXCEPT ![slots[r].attempt].verified = TRUE]
  /\ Go(r, slots[r].one, IF slots[r].solved THEN "close" ELSE "free")
  /\ UNCHANGED <<stored, now, requests, Histories>>

\* A solve ends the sitting, over the record read before the run.
CloseSolved(r) ==
  /\ At(r, "close")
  /\ Put(r, Ended(slots[r].one, slots[r].at), "free")
  /\ UNCHANGED <<now, requests, ran, overlapped, died>>

-----------------------------------------------------------------------------

Tick ==
  /\ now < MaxNow
  /\ now' = now + 1
  /\ ran' = [id \in Ids |->
               IF Served(id) /\ Running(stored[id]) /\ Timed(stored[id])
                    /\ ~ Paused(stored[id])
               THEN ran[id] + 1 ELSE ran[id]]
  /\ UNCHANGED <<stored, attempts, slots, requests, overlapped, died, failed>>

\* The process restarts: what it had in flight is gone, and the stores are not.
Restart ==
  /\ \E r \in Slots : ~ At(r, "free")
  /\ slots' = [r \in Slots |-> Free]
  /\ died' = TRUE
  /\ UNCHANGED <<stored, attempts, now, requests, ran, overlapped, failed>>

Init ==
  /\ stored = [id \in Ids |-> Absent]
  /\ attempts = <<>>
  /\ slots = [r \in Slots |-> Free]
  /\ now = 1
  /\ requests = 0
  /\ ran = [id \in Ids |-> 0]
  /\ overlapped = FALSE /\ died = FALSE /\ failed = FALSE

Next ==
  \/ \E r \in Slots :
       \/ \E kind \in Kinds, id \in Ids \cup {0} : Arrive(r, kind, id)
       \/ ReadRow(r) \/ ReadPauses(r) \/ Act(r) \/ Mint(r)
       \/ Count(r) \/ Touch(r) \/ Judge(r)
       \/ AppendAttempt(r) \/ AppendVerification(r) \/ CloseSolved(r)
  \/ Tick
  \/ Restart

Spec == Init /\ [][Next]_vars

-----------------------------------------------------------------------------
(***************************************************************************)
(* Properties.                                                             *)
(***************************************************************************)

Attempt == [sitting : Ids, at : Nat, solved : BOOLEAN, timed : BOOLEAN,
            time : Nat, ran : Int, verified : BOOLEAN]

\* The sittings, the attempts and the requests are what the code's types and
\* the tables' checks admit; an attempt's time is never negative.
TypeOK ==
  /\ stored \in [Ids -> Record]
  /\ attempts \in Seq(Attempt)
  /\ slots \in [Slots -> Slot]
  /\ now \in Nat /\ requests \in Nat
  /\ ran \in [Ids -> Int]
  /\ overlapped \in BOOLEAN /\ died \in BOOLEAN /\ failed \in BOOLEAN

\* No legal sequence of requests, a restart anywhere in it, reaches a record
\* that cannot be stored or read back: a request fails only where another one
\* was in flight beside it.
FailsOnlyInARace == failed => overlapped

\* The time an attempt carries is the time its clock ran, as the presses came:
\* from the start, every pause excluded, the time in the runner not counted.
TimeIsWhatTheClockRan ==
  ~ overlapped =>
    \A k \in 1..Len(attempts) :
      attempts[k].timed => attempts[k].time = attempts[k].ran

\* A solved attempt ends its sitting, once its request is done.
SolvedEndsTheSitting ==
  ~ overlapped /\ ~ died =>
    \A k \in 1..Len(attempts) :
      attempts[k].solved =>
        \/ ~ Running(stored[attempts[k].sitting])
        \/ \E r \in Slots : slots[r].attempt = k

\* No window holds more submissions than the cap, and where requests overlap
\* no more beyond it than there are others in flight.
SubmissionsAreCapped ==
  \A k \in 1..Len(attempts) :
    Cardinality({j \in 1..Len(attempts) :
                   attempts[j].at \in attempts[k].at - Window .. attempts[k].at})
      <= IF overlapped THEN Cap + Cardinality(Slots) - 1 ELSE Cap

\* An ended sitting is moved only by a request that read it running, before
\* another request ended it.
EndedMovesOnlyInARace ==
  [][\A id \in Ids :
       Served(id) /\ ~ Running(stored[id]) /\ stored'[id] # stored[id] =>
         /\ overlapped
         /\ \E r \in Slots : /\ slots[r].id = id /\ Running(slots[r].one)
                             /\ slots'[r] # slots[r]]_vars
=============================================================================
