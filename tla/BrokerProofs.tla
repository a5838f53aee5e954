----------------------------- MODULE BrokerProofs -----------------------------
(***************************************************************************)
(* Theorems about Broker, for every number of requests, every shape of run *)
(* and every length of the timers.                                         *)
(***************************************************************************)
EXTENDS Broker, SequenceTheorems, TLAPS

-----------------------------------------------------------------------------
(* The inductive invariant.                                                *)

\* The request and the lock, by the step it is at.
Placed(r) ==
  /\ r \in holder <=> sent[r].step \in {"running", "stopping"}
  /\ sent[r].answer # "none" <=> sent[r].step = "done"
  /\ ~ up => ~ InFlight(r)
  /\ sent[r].step \in {"unsent", "waiting"} => containers[r] = NoContainer

\* While the engine waits, its timer has more left than the broker's own: the
\* wait, the run and the margin, then the run and the margin.
Outwaited(r) ==
  sent[r].heard = "pending" =>
    /\ sent[r].step = "waiting" =>
         sent[r].patience = sent[r].due + Deadline(sent[r].wanted) + Margin
    /\ sent[r].step = "running" => sent[r].patience >= sent[r].due + Margin

\* A container at work is of the run at work, or outlived it.
Accounted(r) ==
  up /\ Running(r) =>
    \/ r \in holder
    \/ sent[r].answer = "failed" /\ containers[r].state = "flooded"
    \/ sent[r].answer = "ran"

\* What a container reported is of the cases asked for, and under `stop_early`
\* only its last may not have returned.
OutOf(r) ==
  LET out == containers[r].out IN
  /\ Len(out) <= sent[r].wanted
  /\ sent[r].early => \A i \in 1..Len(out) - 1 : out[i] = "returned"
  /\ containers[r].state = "exited" => Reported(r)

\* The body of VerdictsAreOfWholeRuns.
WholeRun(r) ==
  sent[r].answer = "ran" =>
    LET cases == sent[r].cases  out == containers[r].out IN
    /\ IsPrefix(out, cases)
    /\ \A i \in 1..Len(cases) : i > Len(out) => cases[i] = "timeout"
    /\ Len(cases) # sent[r].wanted =>
         sent[r].early /\ cases # <<>> /\ Last(cases) # "returned"
    /\ sent[r].early =>
         \A i \in 1..Len(cases) - 1 : cases[i] = "returned"

Sound(r) == Placed(r) /\ Outwaited(r) /\ Accounted(r) /\ OutOf(r) /\ WholeRun(r)

\* The runs in the queue are waiting, each once.
QueueInv ==
  /\ \A i \in DOMAIN queue : sent[queue[i]].step = "waiting"
  /\ \A i, j \in DOMAIN queue : queue[i] = queue[j] => i = j

AloneInv == \A r, other \in holder : r = other

IInv == TypeOK /\ QueueInv /\ AloneInv /\ \A r \in Requests : Sound(r)

-----------------------------------------------------------------------------
(* What the operators give.                                                *)

LEMMA DeadlineType ==
  ASSUME NEW wanted \in Nat
  PROVE  Deadline(wanted) \in Nat \ {0}
  <1>1. wanted * Case \in Nat
    BY BrokerAssumption
  <1> QED
    BY <1>1, BrokerAssumption DEF Deadline

\* Removing one place of a queue leaves the others, each once.
LEMMA RemoveAtType ==
  ASSUME NEW S, NEW s \in Seq(S), NEW i \in DOMAIN s
  PROVE  LET t == RemoveAt(s, i) IN
         /\ t \in Seq(S)
         /\ Len(t) = Len(s) - 1
         /\ \A k \in 1..Len(t) : t[k] = IF k < i THEN s[k] ELSE s[k + 1]
  <1> DEFINE before == SubSeq(s, 1, i - 1)
             after == SubSeq(s, i + 1, Len(s))
  <1>1. i \in 1..Len(s) /\ Len(s) \in Nat /\ \A k \in 1..Len(s) : s[k] \in S
    OBVIOUS
  <1>2. /\ before \in Seq(S) /\ Len(before) = i - 1
        /\ \A k \in 1..(i - 1) : before[k] = s[k]
    BY <1>1, SubSeqProperties
  <1>3. /\ after \in Seq(S) /\ Len(after) = Len(s) - i
        /\ \A k \in 1..(Len(s) - i) : after[k] = s[k + i]
    BY <1>1, SubSeqProperties
  <1>4. RemoveAt(s, i) = before \o after
    BY DEF RemoveAt
  <1> HIDE DEF before, after
  <1>5. /\ before \o after \in Seq(S) /\ Len(before \o after) = Len(s) - 1
        /\ \A k \in 1..(Len(s) - 1) :
             (before \o after)[k] = IF k <= i - 1 THEN before[k] ELSE after[k - (i - 1)]
    BY SMTT(60), <1>1, <1>2, <1>3, ConcatProperties
  <1>6. ASSUME NEW k \in 1..(Len(s) - 1)
        PROVE  (before \o after)[k] = IF k < i THEN s[k] ELSE s[k + 1]
    <2>1. CASE k < i
      BY <1>1, <1>2, <1>5, <2>1
    <2>2. CASE ~ (k < i)
      <3>1. k - (i - 1) \in 1..(Len(s) - i) /\ k - (i - 1) + i = k + 1
        BY <1>1, <2>2
      <3>2. (before \o after)[k] = after[k - (i - 1)]
        <4>1. ~ (k <= i - 1)
          BY <1>1, <2>2
        <4> QED
          BY <1>5, <4>1
      <3>3. after[k - (i - 1)] = s[k - (i - 1) + i]
        BY <1>3, <3>1
      <3> QED
        BY <2>2, <3>1, <3>2, <3>3
    <2> QED
      BY <2>1, <2>2
  <1> QED
    BY <1>4, <1>5, <1>6

\* What is never reported reads as a timeout, and a run stopped early adds one
\* at most: a verdict of the whole run, from what a container reported.
LEMMA RestIsWhole ==
  ASSUME NEW out \in Seq(Outcomes), NEW wanted \in Nat, NEW early \in BOOLEAN,
         Len(out) <= wanted,
         early => \A i \in 1..Len(out) - 1 : out[i] = "returned"
  PROVE  LET cases == RestTimedOut(out, wanted, early) IN
         /\ cases \in Seq(Outcomes) /\ Len(cases) <= wanted /\ IsPrefix(out, cases)
         /\ \A i \in 1..Len(cases) : i > Len(out) => cases[i] = "timeout"
         /\ Len(cases) # wanted => early /\ cases # <<>> /\ Last(cases) # "returned"
         /\ early => \A i \in 1..Len(cases) - 1 : cases[i] = "returned"
  <1> DEFINE missing == wanted - Len(out)
             adding == IF ~ early THEN missing
                       ELSE IF missing = 0 \/ (out # <<>> /\ Last(out) # "returned") THEN 0
                       ELSE 1
             rest == [i \in 1..adding |-> "timeout"]
             cases == out \o rest
  <1>1. Len(out) \in Nat /\ missing \in Nat /\ adding \in 0..missing
    OBVIOUS
  <1>2. RestTimedOut(out, wanted, early) = cases
    BY DEF RestTimedOut
  <1>3. ~ early => adding = missing
    OBVIOUS
  <1>4. early /\ adding # missing => IF adding = 0 THEN out # <<>> /\ Last(out) # "returned"
                                                   ELSE adding = 1
    OBVIOUS
  <1>5. early /\ adding # 0 => adding = 1 /\ (out = <<>> \/ Last(out) = "returned")
    OBVIOUS
  <1> HIDE DEF adding
  <1>6. rest \in Seq(Outcomes) /\ Len(rest) = adding /\ \A i \in 1..adding : rest[i] = "timeout"
    BY <1>1 DEF Outcomes
  <1> HIDE DEF rest
  <1>7. /\ cases \in Seq(Outcomes) /\ Len(cases) = Len(out) + adding
        /\ \A i \in 1..Len(out) + adding :
             cases[i] = IF i <= Len(out) THEN out[i] ELSE rest[i - Len(out)]
    BY <1>6, ConcatProperties
  <1> HIDE DEF cases
  <1>8. /\ \A i \in 1..Len(out) : cases[i] = out[i]
        /\ \A i \in 1..Len(cases) : i > Len(out) => cases[i] = "timeout"
    <2>1. ASSUME NEW i \in 1..Len(out)
          PROVE  cases[i] = out[i]
      <3>1. i \in 1..Len(out) + adding /\ i <= Len(out)
        BY <1>1
      <3> QED
        BY <1>7, <3>1
    <2>2. ASSUME NEW i \in 1..Len(cases), i > Len(out)
          PROVE  cases[i] = "timeout"
      <3>1. i \in 1..Len(out) + adding /\ ~ (i <= Len(out)) /\ i - Len(out) \in 1..adding
        BY <1>1, <1>7, <2>2
      <3> QED
        BY <1>6, <1>7, <3>1
    <2> QED
      BY <2>1, <2>2
  <1>9. IsPrefix(out, cases)
    <2>1. \A i \in 1..Len(out) : out[i] \in Outcomes /\ cases[i] \in Outcomes
      BY <1>8
    <2>2. /\ SubSeq(out, 1, Len(out)) \in Seq(Outcomes)
          /\ SubSeq(cases, 1, Len(out)) \in Seq(Outcomes)
          /\ Len(SubSeq(out, 1, Len(out))) = Len(out)
          /\ Len(SubSeq(cases, 1, Len(out))) = Len(out)
          /\ \A i \in 1..Len(out) : /\ SubSeq(out, 1, Len(out))[i] = out[i]
                                    /\ SubSeq(cases, 1, Len(out))[i] = cases[i]
      BY <1>1, <2>1, SubSeqProperties
    <2>3. SubSeq(out, 1, Len(out)) = SubSeq(cases, 1, Len(out))
      BY <1>1, <1>8, <2>2, SeqEqual
    <2> QED
      BY <1>1, <1>7, <2>3 DEF IsPrefix
  <1>10. ASSUME Len(cases) # wanted
         PROVE  early /\ cases # <<>> /\ Last(cases) # "returned"
    <2>1. early /\ adding # missing
      BY <1>1, <1>3, <1>7, <1>10
    <2>2. CASE adding = 0
      <3>1. out # <<>> /\ Last(out) # "returned" /\ Len(cases) = Len(out) /\ Len(out) > 0
        BY <1>1, <1>4, <1>7, <2>1, <2>2
      <3> QED
        BY <1>1, <1>7, <1>8, <2>1, <3>1 DEF Last
    <2>3. CASE adding = 1
      <3>1. Len(cases) = Len(out) + 1 /\ cases[Len(out) + 1] = "timeout"
        BY <1>1, <1>7, <1>8, <2>3
      <3> QED
        BY <1>1, <1>7, <2>1, <3>1 DEF Last
    <2> QED
      BY <1>4, <2>1, <2>2, <2>3
  <1>11. ASSUME early, NEW i \in 1..Len(cases) - 1
         PROVE  cases[i] = "returned"
    <2>1. i \in 1..Len(out) /\ cases[i] = out[i]
      BY <1>1, <1>5, <1>7, <1>8, <1>11
    <2>2. CASE i < Len(out)
      BY <1>1, <1>11, <2>1, <2>2
    <2>3. CASE i = Len(out)
      <3>1. adding # 0 /\ out # <<>>
        BY <1>1, <1>7, <1>11, <2>1, <2>3
      <3> QED
        BY <1>5, <1>11, <2>1, <2>3, <3>1 DEF Last
    <2> QED
      BY <1>1, <2>1, <2>2, <2>3
  <1> QED
    BY <1>1, <1>2, <1>7, <1>8, <1>9, <1>10, <1>11

-----------------------------------------------------------------------------
(* What a step leaves alone.                                               *)

LEMMA Fields ==
  ASSUME TypeOK, NEW r \in Requests
  PROVE  /\ sent[r] \in Request /\ containers[r] \in Container
         /\ sent[r].wanted \in Nat /\ sent[r].early \in BOOLEAN
         /\ sent[r].due \in Nat /\ sent[r].patience \in Nat
         /\ sent[r].cases \in Seq(Outcomes) /\ containers[r].out \in Seq(Outcomes)
  BY DEF TypeOK, Request, Container

\* A request nothing happens to stays as sound as it was.
LEMMA Unmoved ==
  ASSUME NEW q \in Requests, Sound(q), sent'[q] = sent[q], containers'[q] = containers[q],
         up' = up, q \in holder' <=> q \in holder
  PROVE  Sound(q)'
  <1>1. Placed(q)'
    BY DEF Sound, Placed, InFlight
  <1>2. Outwaited(q)' /\ OutOf(q)' /\ WholeRun(q)'
    BY DEF Sound, Outwaited, OutOf, Reported, WholeRun, Deadline
  <1>3. Accounted(q)'
    BY DEF Sound, Accounted, Running
  <1> QED
    BY <1>1, <1>2, <1>3 DEF Sound

\* An answer ends the one request it is of.
LEMMA AnswerIs ==
  ASSUME TypeOK, NEW r \in Requests, NEW answer \in {"refused", "failed", "ran"},
         NEW cases \in Seq(Outcomes), Answer(r, answer, cases)
  PROVE  /\ sent' \in [Requests -> Request]
         /\ \A q \in Requests \ {r} : sent'[q] = sent[q]
         /\ sent'[r].step = "done" /\ sent'[r].answer = answer /\ sent'[r].cases = cases
         /\ sent'[r].wanted = sent[r].wanted /\ sent'[r].early = sent[r].early
         /\ holder' = holder \ {r}
  <1> DEFINE me == [sent[r] EXCEPT !.step = "done", !.answer = answer, !.cases = cases,
                                   !.due = 0, !.patience = 0,
                                   !.heard = IF @ = "pending" THEN "answer" ELSE @]
  <1>1. sent[r] \in Request
    BY Fields
  <1>2. /\ me \in Request /\ me.step = "done" /\ me.answer = answer /\ me.cases = cases
        /\ me.wanted = sent[r].wanted /\ me.early = sent[r].early
    BY <1>1 DEF Request
  <1>3. sent \in [Requests -> Request]
    BY DEF TypeOK
  <1>4. sent' = [sent EXCEPT ![r] = me] /\ holder' = holder \ {r}
    BY <1>3 DEF Answer
  <1> HIDE DEF me
  <1> QED
    BY <1>2, <1>3, <1>4

\* One request ends and no container changes: the queue and the lock stay.
LEMMA EndedSafe ==
  ASSUME IInv, NEW r \in Requests, sent[r].step \in {"running", "stopping"},
         NEW answer \in {"failed", "ran"}, NEW cases \in Seq(Outcomes),
         Answer(r, answer, cases), Len(cases) <= sent[r].wanted,
         UNCHANGED <<queue, up>>, containers' \in [Requests -> Container],
         \A q \in Requests \ {r} : containers'[q] = containers[q],
         Accounted(r)', OutOf(r)', WholeRun(r)'
  PROVE  IInv'
  <1>1. /\ sent' \in [Requests -> Request]
        /\ \A q \in Requests \ {r} : sent'[q] = sent[q]
        /\ sent'[r].step = "done" /\ sent'[r].answer = answer /\ sent'[r].cases = cases
        /\ sent'[r].wanted = sent[r].wanted /\ holder' = holder \ {r}
    BY AnswerIs DEF IInv
  <1>2. TypeOK'
    BY <1>1 DEF IInv, TypeOK
  <1>3. QueueInv'
    <2>1. queue \in Seq(Requests) /\ QueueInv
      BY DEF IInv, TypeOK
    <2>2. \A i \in DOMAIN queue : queue[i] \in Requests \ {r}
      BY <2>1 DEF QueueInv
    <2> QED
      BY <1>1, <2>1, <2>2 DEF QueueInv
  <1>4. AloneInv'
    BY <1>1 DEF IInv, AloneInv
  <1>5. ASSUME NEW q \in Requests
        PROVE  Sound(q)'
    <2>1. CASE q # r
      BY <1>1, <2>1, Unmoved DEF IInv
    <2>2. CASE q = r
      <3>1. Placed(r)'
        BY <1>1 DEF IInv, Sound, Placed, InFlight
      <3>2. Outwaited(r)'
        BY <1>1 DEF Outwaited
      <3> QED
        BY <2>2, <3>1, <3>2 DEF Sound
    <2> QED
      BY <2>1, <2>2
  <1> QED
    BY <1>2, <1>3, <1>4, <1>5 DEF IInv

-----------------------------------------------------------------------------
(* The steps of a request.                                                 *)

LEMMA SendSafe ==
  ASSUME IInv, NEW r \in Requests, NEW wanted \in Nat, NEW early \in BOOLEAN,
         Send(r, wanted, early)
  PROVE  IInv'
  <1> DEFINE me == IF up THEN [Unsent EXCEPT !.step = "waiting", !.wanted = wanted,
                                       !.early = early, !.due = Wait,
                                       !.patience = Patience(wanted)]
                         ELSE [sent[r] EXCEPT !.step = "done", !.answer = "lost",
                                              !.heard = "fault"]
  <1>1. TypeOK /\ Sound(r) /\ sent[r].step = "unsent" /\ sent[r] \in Request
    BY Fields DEF IInv, Send
  <1>2. Patience(wanted) \in Nat /\ Wait \in Nat /\ Deadline(wanted) \in Nat
        /\ Patience(wanted) = Wait + Deadline(wanted) + Margin
    BY DeadlineType, BrokerAssumption DEF Patience
  <1>3. /\ me \in Request /\ me.wanted \in Nat
        /\ up => /\ me.step = "waiting" /\ me.answer = "none" /\ me.early = early
                 /\ me.due = Wait /\ me.patience = Patience(wanted) /\ me.wanted = wanted
                 /\ me.cases = <<>>
        /\ ~ up => /\ me.step = "done" /\ me.answer = "lost" /\ me.cases = sent[r].cases
                   /\ me.wanted = sent[r].wanted /\ me.early = sent[r].early
                   /\ me.heard = "fault"
    <2>1. CASE up
      <3>1. Unsent \in Request /\ Unsent.answer = "none" /\ Unsent.cases = <<>>
        BY DEF Request, Unsent
      <3>2. me = [Unsent EXCEPT !.step = "waiting", !.wanted = wanted, !.early = early,
                                !.due = Wait, !.patience = Patience(wanted)]
        BY <2>1
      <3> HIDE DEF me
      <3> QED
        BY <1>2, <2>1, <3>1, <3>2 DEF Request
    <2>2. CASE ~ up
      BY <1>1, <2>2 DEF Request
    <2> QED
      BY <2>1, <2>2
  <1>4. /\ sent' = [sent EXCEPT ![r] = me]
        /\ queue' = IF up THEN Append(queue, r) ELSE queue
        /\ UNCHANGED <<holder, containers, up>>
    BY <1>1 DEF Send, TypeOK
  <1> HIDE DEF me
  <1>5. /\ sent' \in [Requests -> Request] /\ sent'[r] = me
        /\ \A q \in Requests \ {r} : sent'[q] = sent[q]
    BY <1>1, <1>3, <1>4 DEF TypeOK
  <1>6. queue \in Seq(Requests) /\ QueueInv /\ \A i \in DOMAIN queue : queue[i] \in Requests \ {r}
    BY <1>1 DEF IInv, TypeOK, QueueInv
  <1>7. TypeOK'
    <2>1. queue' \in Seq(Requests)
      BY <1>4, <1>6
    <2>2. Len(sent'[r].cases) <= sent'[r].wanted
      BY <1>1, <1>3, <1>5 DEF TypeOK
    <2> QED
      BY <1>1, <1>4, <1>5, <2>1, <2>2 DEF TypeOK
  <1>8. QueueInv'
    <2>1. CASE ~ up
      BY <1>4, <1>5, <1>6, <2>1 DEF QueueInv
    <2>2. CASE up
      <3>1. /\ DOMAIN queue' = 1..Len(queue) + 1 /\ Len(queue) \in Nat
            /\ DOMAIN queue = 1..Len(queue)
            /\ \A i \in DOMAIN queue : queue'[i] = queue[i]
            /\ queue'[Len(queue) + 1] = r
        BY <1>4, <1>6, <2>2
      <3>2. me.step = "waiting"
        BY <1>3, <2>2
      <3> QED
        BY <1>5, <1>6, <3>1, <3>2 DEF QueueInv
    <2> QED
      BY <2>1, <2>2
  <1>9. AloneInv'
    BY <1>4 DEF IInv, AloneInv
  <1>10. ASSUME NEW q \in Requests
         PROVE  Sound(q)'
    <2>1. CASE q # r
      BY <1>4, <1>5, <2>1, Unmoved DEF IInv
    <2>2. CASE q = r
      <3>1. /\ r \notin holder /\ r \notin holder' /\ containers'[r] = NoContainer
            /\ up' = up
        BY <1>1, <1>4 DEF Sound, Placed
      <3>2. me.step \in {"waiting", "done"} /\ me.answer \in {"none", "lost"}
            /\ (me.answer = "none" <=> me.step = "waiting") /\ (up <=> me.step = "waiting")
        BY <1>3
      <3>3. Placed(r)'
        BY <1>5, <3>1, <3>2 DEF Placed, InFlight
      <3>4. Outwaited(r)'
        BY <1>2, <1>3, <1>5, <3>2, BrokerAssumption DEF Outwaited
      <3>5. Accounted(r)' /\ WholeRun(r)'
        BY <1>5, <3>1, <3>2 DEF Accounted, Running, WholeRun, NoContainer
      <3>6. OutOf(r)'
        BY <1>3, <1>5, <3>1 DEF OutOf, NoContainer
      <3> QED
        BY <2>2, <3>3, <3>4, <3>5, <3>6 DEF Sound
    <2> QED
      BY <2>1, <2>2
  <1> QED
    BY <1>7, <1>8, <1>9, <1>10 DEF IInv

LEMMA AdmitSafe ==
  ASSUME IInv, NEW r \in Requests, Admit(r)
  PROVE  IInv'
  <1> DEFINE me == [sent[r] EXCEPT !.step = "running", !.due = Deadline(sent[r].wanted)]
             box == [containers[r] EXCEPT !.state = "running"]
  <1>1. TypeOK /\ Sound(r) /\ QueueInv /\ queue \in Seq(Requests) /\ queue # <<>>
        /\ sent[r] \in Request /\ containers[r] \in Container
    BY Fields DEF IInv, TypeOK, Admit
  <1>2. 1 \in DOMAIN queue /\ queue[1] = r /\ sent[r].step = "waiting"
    BY <1>1 DEF Admit, QueueInv
  <1>3. /\ containers[r] = NoContainer /\ r \notin holder /\ up
        /\ sent[r].answer = "none"
    BY <1>1, <1>2 DEF Sound, Placed, InFlight
  <1>4. sent[r].wanted \in Nat /\ Deadline(sent[r].wanted) \in Nat
    BY <1>1, DeadlineType DEF Request
  <1>5. /\ me \in Request /\ me.step = "running" /\ me.due = Deadline(sent[r].wanted)
        /\ me.wanted = sent[r].wanted /\ me.early = sent[r].early /\ me.answer = "none"
        /\ me.patience = sent[r].patience /\ me.heard = sent[r].heard
        /\ me.cases = sent[r].cases
    BY <1>1, <1>3, <1>4 DEF Request
  <1>6. box \in Container /\ box.state = "running" /\ box.out = <<>>
    <2>1. containers[r].out = <<>>
      BY <1>3 DEF NoContainer
    <2> QED
      BY <1>1, <2>1 DEF Container
  <1>7. /\ sent' = [sent EXCEPT ![r] = me] /\ containers' = [containers EXCEPT ![r] = box]
        /\ holder = {} /\ holder' = {r} /\ queue' = Tail(queue) /\ up' = up
    BY <1>1 DEF Admit, Become, TypeOK
  <1> HIDE DEF me, box
  <1>8. /\ sent' \in [Requests -> Request] /\ sent'[r] = me
        /\ containers' \in [Requests -> Container] /\ containers'[r] = box
        /\ \A q \in Requests \ {r} : sent'[q] = sent[q] /\ containers'[q] = containers[q]
    BY <1>1, <1>5, <1>6, <1>7 DEF TypeOK
  <1>9. /\ queue' \in Seq(Requests) /\ Len(queue) \in Nat \ {0}
        /\ DOMAIN queue' = 1..Len(queue) - 1 /\ DOMAIN queue = 1..Len(queue)
        /\ \A i \in DOMAIN queue' : queue'[i] = queue[i + 1]
    BY <1>1, <1>7
  <1>10. TypeOK'
    BY <1>1, <1>5, <1>7, <1>8, <1>9 DEF TypeOK
  <1>11. QueueInv'
    <2>1. ASSUME NEW i \in DOMAIN queue'
          PROVE  /\ i + 1 \in DOMAIN queue /\ queue'[i] = queue[i + 1]
                 /\ queue[i + 1] \in Requests \ {r} /\ sent[queue[i + 1]].step = "waiting"
      BY <1>1, <1>2, <1>9 DEF QueueInv
    <2>2. \A i \in DOMAIN queue' : sent'[queue'[i]].step = "waiting"
      BY <1>8, <2>1
    <2>3. ASSUME NEW i \in DOMAIN queue', NEW j \in DOMAIN queue', queue'[i] = queue'[j]
          PROVE  i = j
      <3>1. i + 1 = j + 1 /\ i \in Int /\ j \in Int
        BY <1>1, <1>9, <2>1, <2>3 DEF QueueInv
      <3> QED
        BY <3>1
    <2> QED
      BY <2>2, <2>3 DEF QueueInv
  <1>12. AloneInv'
    BY <1>7 DEF AloneInv
  <1>13. ASSUME NEW q \in Requests
         PROVE  Sound(q)'
    <2>1. CASE q # r
      BY <1>7, <1>8, <2>1, Unmoved DEF IInv
    <2>2. CASE q = r
      <3>1. Placed(r)'
        BY <1>3, <1>5, <1>7, <1>8 DEF Placed, InFlight
      <3>2. Outwaited(r)'
        <4>1. sent[r].heard = "pending" =>
                sent[r].patience = sent[r].due + Deadline(sent[r].wanted) + Margin
          BY <1>1, <1>2 DEF Sound, Outwaited
        <4>2. sent[r].due \in Nat /\ sent[r].patience \in Nat /\ Margin \in Nat
          BY <1>1, BrokerAssumption DEF Request
        <4> QED
          BY <1>4, <1>5, <1>8, <4>1, <4>2 DEF Outwaited
      <3>3. Accounted(r)' /\ WholeRun(r)'
        BY <1>5, <1>7, <1>8 DEF Accounted, WholeRun
      <3>4. OutOf(r)'
        BY <1>4, <1>5, <1>6, <1>8 DEF OutOf
      <3> QED
        BY <2>2, <3>1, <3>2, <3>3, <3>4 DEF Sound
    <2> QED
      BY <2>1, <2>2
  <1> QED
    BY <1>10, <1>11, <1>12, <1>13 DEF IInv

LEMMA RefuseSafe ==
  ASSUME IInv, NEW r \in Requests, Refuse(r)
  PROVE  IInv'
  <1>1. TypeOK /\ Sound(r) /\ QueueInv /\ queue \in Seq(Requests) /\ sent[r].step = "waiting"
    BY DEF IInv, TypeOK, Refuse
  <1>2. containers[r] = NoContainer /\ r \notin holder /\ up
    BY <1>1 DEF Sound, Placed, InFlight
  <1>3. /\ sent' \in [Requests -> Request]
        /\ \A q \in Requests \ {r} : sent'[q] = sent[q]
        /\ sent'[r].step = "done" /\ sent'[r].answer = "refused" /\ sent'[r].cases = <<>>
        /\ sent'[r].wanted = sent[r].wanted
        /\ holder' = holder \ {r}
    <2>1. Answer(r, "refused", <<>>) /\ <<>> \in Seq(Outcomes)
      BY DEF Refuse
    <2> QED
      BY <1>1, <2>1, AnswerIs
  <1>4. holder' = holder /\ UNCHANGED <<containers, up>>
    BY <1>2, <1>3 DEF Refuse
  <1>5. PICK i \in DOMAIN queue : queue[i] = r /\ queue' = RemoveAt(queue, i)
    BY DEF Refuse
  <1>6. /\ queue' \in Seq(Requests) /\ Len(queue') = Len(queue) - 1 /\ Len(queue) \in Nat
        /\ DOMAIN queue' = 1..Len(queue') /\ DOMAIN queue = 1..Len(queue)
        /\ \A k \in 1..Len(queue') : queue'[k] = IF k < i THEN queue[k] ELSE queue[k + 1]
    <2> DEFINE t == RemoveAt(queue, i)
    <2>1. /\ t \in Seq(Requests) /\ Len(t) = Len(queue) - 1
          /\ \A k \in 1..Len(t) : t[k] = IF k < i THEN queue[k] ELSE queue[k + 1]
      BY <1>1, RemoveAtType
    <2>2. queue' = t
      BY <1>5
    <2> HIDE DEF t
    <2> QED
      BY <1>1, <2>1, <2>2
  <1>7. TypeOK'
    <2>1. Len(sent'[r].cases) <= sent'[r].wanted
      BY <1>1, <1>3, Fields
    <2> QED
      BY <1>1, <1>3, <1>4, <1>6, <2>1 DEF TypeOK
  <1>8. QueueInv'
    <2> DEFINE old(k) == IF k < i THEN k ELSE k + 1
    <2>1. ASSUME NEW k \in DOMAIN queue'
          PROVE  /\ old(k) \in DOMAIN queue /\ old(k) # i /\ queue'[k] = queue[old(k)]
                 /\ k \in Int
      BY <1>5, <1>6
    <2>2. \A k \in DOMAIN queue' : queue'[k] \in Requests \ {r} /\ sent'[queue'[k]].step = "waiting"
      BY <1>1, <1>3, <1>5, <2>1 DEF QueueInv
    <2>3. ASSUME NEW k \in DOMAIN queue', NEW l \in DOMAIN queue', queue'[k] = queue'[l]
          PROVE  k = l
      <3>1. old(k) = old(l)
        BY <1>1, <2>1, <2>3 DEF QueueInv
      <3>2. k \in Int /\ l \in Int /\ i \in Int
        BY <1>6, <2>1
      <3> QED
        BY <3>1, <3>2
    <2> QED
      BY <2>2, <2>3 DEF QueueInv
  <1>9. AloneInv'
    BY <1>4 DEF IInv, AloneInv
  <1>10. ASSUME NEW q \in Requests
         PROVE  Sound(q)'
    <2>1. CASE q # r
      BY <1>3, <1>4, <2>1, Unmoved DEF IInv
    <2>2. CASE q = r
      <3>1. Placed(r)' /\ Outwaited(r)' /\ WholeRun(r)'
        BY <1>2, <1>3, <1>4 DEF Placed, InFlight, Outwaited, WholeRun
      <3>2. Accounted(r)' /\ OutOf(r)'
        BY <1>1, <1>2, <1>3, <1>4, Fields DEF Accounted, Running, OutOf, NoContainer
      <3> QED
        BY <2>2, <3>1, <3>2 DEF Sound
    <2> QED
      BY <2>1, <2>2
  <1> QED
    BY <1>7, <1>8, <1>9, <1>10 DEF IInv

\* One request is revised where it stands, and stays at work.
LEMMA RevisedSafe ==
  ASSUME IInv, NEW r \in Requests, NEW me \in Request, InFlight(r),
         sent' = [sent EXCEPT ![r] = me], me.wanted = sent[r].wanted,
         me.early = sent[r].early, me.answer = sent[r].answer, me.cases = sent[r].cases,
         \/ me.step = sent[r].step
         \/ sent[r].step = "running" /\ me.step = "stopping",
         UNCHANGED <<queue, holder, containers, up>>, Outwaited(r)'
  PROVE  IInv'
  <1>1. TypeOK /\ Sound(r)
    BY DEF IInv
  <1>2. /\ sent' \in [Requests -> Request] /\ sent'[r] = me
        /\ \A q \in Requests \ {r} : sent'[q] = sent[q]
    BY <1>1 DEF TypeOK
  <1>3. TypeOK'
    BY <1>1, <1>2 DEF TypeOK
  <1>4. QueueInv'
    <2>1. \A i \in DOMAIN queue : queue[i] \in Requests /\ sent[queue[i]].step = "waiting"
      BY <1>1 DEF IInv, TypeOK, QueueInv
    <2>2. \A i \in DOMAIN queue : sent'[queue[i]].step = "waiting"
      BY <1>2, <2>1
    <2> QED
      BY <2>2 DEF IInv, QueueInv
  <1>5. AloneInv'
    BY DEF IInv, AloneInv
  <1>6. ASSUME NEW q \in Requests
        PROVE  Sound(q)'
    <2>1. CASE q # r
      BY <1>2, <2>1, Unmoved DEF IInv
    <2>2. CASE q = r
      <3>1. Placed(r)' /\ Accounted(r)'
        BY <1>1, <1>2 DEF Sound, Placed, InFlight, Accounted, Running
      <3>2. OutOf(r)' /\ WholeRun(r)'
        BY <1>1, <1>2 DEF Sound, OutOf, Reported, WholeRun
      <3> QED
        BY <2>2, <3>1, <3>2 DEF Sound
    <2> QED
      BY <2>1, <2>2
  <1> QED
    BY <1>3, <1>4, <1>5, <1>6 DEF IInv

LEMMA GiveUpSafe ==
  ASSUME IInv, NEW r \in Requests, GiveUp(r)
  PROVE  IInv'
  <1> DEFINE me == [sent[r] EXCEPT !.heard = "fault"]
  <1>1. TypeOK /\ sent[r] \in Request /\ InFlight(r)
    BY Fields DEF IInv, GiveUp
  <1>2. /\ me \in Request /\ me.wanted = sent[r].wanted /\ me.early = sent[r].early
        /\ me.answer = sent[r].answer /\ me.cases = sent[r].cases /\ me.step = sent[r].step
        /\ me.heard = "fault"
    BY <1>1 DEF Request
  <1>3. sent' = [sent EXCEPT ![r] = me]
    BY <1>1 DEF GiveUp, TypeOK
  <1> HIDE DEF me
  <1>4. Outwaited(r)'
    BY <1>1, <1>2, <1>3 DEF Outwaited, TypeOK
  <1> QED
    BY <1>1, <1>2, <1>3, <1>4, RevisedSafe DEF GiveUp

LEMMA ExpireSafe ==
  ASSUME IInv, NEW r \in Requests, Expire(r)
  PROVE  IInv'
  <1> DEFINE me == [sent[r] EXCEPT !.step = "stopping", !.due = Docker]
  <1>1. TypeOK /\ sent[r] \in Request /\ InFlight(r) /\ sent[r].step = "running"
    BY Fields DEF IInv, Expire, InFlight
  <1>2. /\ me \in Request /\ me.wanted = sent[r].wanted /\ me.early = sent[r].early
        /\ me.answer = sent[r].answer /\ me.cases = sent[r].cases /\ me.step = "stopping"
    BY <1>1, BrokerAssumption DEF Request
  <1>3. sent' = [sent EXCEPT ![r] = me]
    BY <1>1 DEF Expire, TypeOK
  <1> HIDE DEF me
  <1>4. Outwaited(r)'
    BY <1>1, <1>2, <1>3 DEF Outwaited, TypeOK
  <1> QED
    BY <1>1, <1>2, <1>3, <1>4, RevisedSafe DEF Expire

-----------------------------------------------------------------------------
(* The steps of a container.                                               *)

\* A container moves, and what the broker holds does not.
LEMMA MovedSafe ==
  ASSUME IInv, NEW r \in Requests, NEW box \in Container,
         containers' = [containers EXCEPT ![r] = box],
         UNCHANGED <<sent, queue, holder, up>>,
         containers[r].state # "none", Accounted(r)', OutOf(r)', WholeRun(r)'
  PROVE  IInv'
  <1>1. TypeOK /\ Sound(r)
    BY DEF IInv
  <1>2. /\ containers' \in [Requests -> Container]
        /\ \A q \in Requests \ {r} : containers'[q] = containers[q]
    BY <1>1 DEF TypeOK
  <1>3. TypeOK' /\ QueueInv' /\ AloneInv'
    BY <1>1, <1>2 DEF IInv, TypeOK, QueueInv, AloneInv
  <1>4. ASSUME NEW q \in Requests
        PROVE  Sound(q)'
    <2>1. CASE q # r
      BY <1>2, <2>1, Unmoved DEF IInv
    <2>2. CASE q = r
      <3>1. Placed(r)' /\ Outwaited(r)'
        BY <1>1 DEF Sound, Placed, NoContainer, InFlight, Outwaited, Deadline
      <3> QED
        BY <2>2, <3>1 DEF Sound
    <2> QED
      BY <2>1, <2>2
  <1> QED
    BY <1>3, <1>4 DEF IInv

LEMMA ReportSafe ==
  ASSUME IInv, NEW r \in Requests, NEW outcome \in Outcomes, Report(r, outcome)
  PROVE  IInv'
  <1> DEFINE out == containers[r].out
             box == [containers[r] EXCEPT !.out = Append(out, outcome)]
  <1>1. /\ TypeOK /\ Sound(r) /\ sent[r].step = "running" /\ ~ Reported(r)
        /\ containers[r] \in Container /\ containers[r].state = "running"
        /\ out \in Seq(Outcomes) /\ sent[r].wanted \in Nat
    BY Fields DEF IInv, Report
  <1>2. /\ Append(out, outcome) \in Seq(Outcomes) /\ Len(Append(out, outcome)) = Len(out) + 1
        /\ \A i \in 1..Len(out) : Append(out, outcome)[i] = out[i]
        /\ Len(out) \in Nat /\ out # <<>> => Len(out) > 0
    BY <1>1
  <1>3. box \in Container /\ box.state = "running" /\ box.out = Append(out, outcome)
    BY <1>1, <1>2 DEF Container
  <1>4. containers' = [containers EXCEPT ![r] = box] /\ UNCHANGED <<sent, queue, holder, up>>
    BY <1>1 DEF Report, TypeOK
  <1> HIDE DEF box
  <1>5. containers'[r] = box
    BY <1>1, <1>4 DEF TypeOK
  <1>6. r \in holder /\ sent[r].answer = "none"
    BY <1>1 DEF Sound, Placed, Request, TypeOK
  <1>7. Accounted(r)' /\ WholeRun(r)'
    BY <1>4, <1>6 DEF Accounted, WholeRun
  <1>8. OutOf(r)'
    <2>1. Len(out) <= sent[r].wanted /\ Len(out) # sent[r].wanted
      BY <1>1 DEF Sound, OutOf, Reported
    <2>2. Len(box.out) <= sent[r].wanted
      BY <1>1, <1>2, <1>3, <2>1
    <2>3. ASSUME sent[r].early, NEW i \in 1..Len(box.out) - 1
          PROVE  box.out[i] = "returned"
      <3>1. i \in 1..Len(out) /\ box.out[i] = out[i]
        BY <1>2, <1>3, <2>3
      <3>2. CASE i < Len(out)
        <4>1. i \in 1..Len(out) - 1
          BY <1>2, <3>1, <3>2
        <4> QED
          BY <1>1, <2>3, <3>1, <4>1 DEF Sound, OutOf
      <3>3. CASE i = Len(out)
        <4>1. out # <<>> /\ Last(out) = out[i]
          BY <1>2, <3>1, <3>3 DEF Last
        <4> QED
          BY <1>1, <2>3, <3>1, <4>1 DEF Reported
      <3> QED
        BY <1>2, <3>1, <3>2, <3>3
    <2> HIDE DEF out
    <2> QED
      BY <1>3, <1>4, <1>5, <2>2, <2>3 DEF OutOf
  <1> QED
    BY <1>1, <1>3, <1>4, <1>7, <1>8, MovedSafe

\* A container changes its state alone, to one the broker accounts for.
LEMMA BecomesSafe ==
  ASSUME IInv, NEW r \in Requests, NEW state \in {"flooded", "exited", "failed"},
         Running(r), Become(r, state), UNCHANGED <<sent, queue, holder, up>>,
         state = "flooded" => sent[r].step = "running",
         state = "exited" => Reported(r)
  PROVE  IInv'
  <1> DEFINE box == [containers[r] EXCEPT !.state = state]
  <1>1. TypeOK /\ Sound(r) /\ containers[r] \in Container
    BY Fields DEF IInv
  <1>2. box \in Container /\ box.state = state /\ box.out = containers[r].out
    BY <1>1 DEF Container
  <1>3. containers' = [containers EXCEPT ![r] = box]
    BY <1>1 DEF Become, TypeOK
  <1> HIDE DEF box
  <1>4. containers'[r] = box
    BY <1>1, <1>3 DEF TypeOK
  <1>5. Accounted(r)'
    BY <1>1, <1>2, <1>4 DEF Sound, Placed, Accounted, Running
  <1>6. OutOf(r)' /\ WholeRun(r)'
    BY <1>1, <1>2, <1>4 DEF Sound, OutOf, Reported, WholeRun
  <1>7. containers[r].state # "none"
    BY DEF Running
  <1> QED
    BY <1>2, <1>3, <1>5, <1>6, <1>7, MovedSafe

LEMMA FloodSafe ==
  ASSUME IInv, NEW r \in Requests, Flood(r)
  PROVE  IInv'
  <1>1. Running(r) /\ sent[r].step = "running" /\ Become(r, "flooded")
        /\ UNCHANGED <<sent, queue, holder, up>>
    BY DEF Flood, Running
  <1> QED
    BY <1>1, BecomesSafe

LEMMA EndSafe ==
  ASSUME IInv, NEW r \in Requests, End(r)
  PROVE  IInv'
  <1>1. Running(r) /\ UNCHANGED <<sent, queue, holder, up>>
    BY DEF End
  <1>2. CASE Reported(r) /\ Become(r, "exited")
    BY <1>1, <1>2, BecomesSafe
  <1>3. CASE Become(r, "failed")
    BY <1>1, <1>3, BecomesSafe
  <1> QED
    BY <1>2, <1>3 DEF End

-----------------------------------------------------------------------------
(* What the broker makes of it.                                            *)

\* A container that ends by itself, or floods, is answered as a fault, or as
\* the whole run it reported.
LEMMA FailedSafe ==
  ASSUME IInv, NEW r \in Requests, sent[r].step = "running",
         containers[r].state \in {"exited", "failed", "flooded"},
         Answer(r, "failed", <<>>), UNCHANGED <<queue, containers, up>>
  PROVE  IInv'
  <1>1. TypeOK /\ Sound(r) /\ <<>> \in Seq(Outcomes) /\ sent[r].wanted \in Nat
    BY Fields DEF IInv
  <1>2. /\ sent'[r].answer = "failed" /\ sent'[r].wanted = sent[r].wanted
        /\ sent'[r].early = sent[r].early
    BY <1>1, AnswerIs
  <1>3. Accounted(r)' /\ WholeRun(r)'
    BY <1>2 DEF Accounted, Running, WholeRun
  <1>4. OutOf(r)'
    BY <1>1, <1>2 DEF Sound, OutOf, Reported
  <1>5. containers' \in [Requests -> Container] /\ Len(<<>>) <= sent[r].wanted
    BY <1>1 DEF TypeOK
  <1> QED
    BY <1>1, <1>3, <1>4, <1>5, EndedSafe

LEMMA OverflowedSafe ==
  ASSUME IInv, NEW r \in Requests, Overflowed(r)
  PROVE  IInv'
  BY FailedSafe DEF Overflowed

LEMMA ExitedSafe ==
  ASSUME IInv, NEW r \in Requests, Exited(r)
  PROVE  IInv'
  <1> DEFINE out == containers[r].out
  <1>1. /\ TypeOK /\ Sound(r) /\ sent[r].step = "running" /\ UNCHANGED <<queue, containers, up>>
        /\ out \in Seq(Outcomes) /\ sent[r].wanted \in Nat
    BY Fields DEF IInv, Exited
  <1>2. CASE containers[r].state \in {"exited", "failed"} /\ Answer(r, "failed", <<>>)
    BY <1>1, <1>2, FailedSafe
  <1>3. CASE /\ containers[r].state = "exited" /\ Answer(r, "ran", out)
             /\ sent[r].early \/ Len(out) = sent[r].wanted
    <2>1. /\ sent'[r].answer = "ran" /\ sent'[r].wanted = sent[r].wanted
          /\ sent'[r].early = sent[r].early /\ sent'[r].cases = out
      BY <1>1, <1>3, AnswerIs
    <2>2. OutOf(r) /\ Reported(r)
      BY <1>1, <1>3 DEF Sound, OutOf
    <2>3. OutOf(r)' /\ Accounted(r)'
      BY <1>1, <2>1, <2>2 DEF OutOf, Reported, Accounted
    <2>4. IsPrefix(out, out) /\ \A i \in 1..Len(out) : ~ (i > Len(out))
      BY <1>1 DEF IsPrefix
    <2>5. WholeRun(r)'
      BY <1>1, <2>1, <2>2, <2>4 DEF WholeRun, OutOf, Reported
    <2>6. containers' \in [Requests -> Container] /\ Len(out) <= sent[r].wanted
      BY <1>1, <2>2 DEF TypeOK, OutOf
    <2> QED
      BY <1>1, <1>3, <2>3, <2>5, <2>6, EndedSafe
  <1> QED
    BY <1>1, <1>2, <1>3 DEF Exited

LEMMA StopSafe ==
  ASSUME IInv, NEW r \in Requests, Stop(r)
  PROVE  IInv'
  <1> DEFINE out == containers[r].out
             cases == RestTimedOut(out, sent[r].wanted, sent[r].early)
             box == [containers[r] EXCEPT !.state = "removed"]
  <1>1. /\ TypeOK /\ Sound(r) /\ sent[r].step = "stopping" /\ UNCHANGED <<queue, up>>
        /\ out \in Seq(Outcomes) /\ sent[r].wanted \in Nat /\ sent[r].early \in BOOLEAN
        /\ containers[r] \in Container
    BY Fields DEF IInv, Stop
  <1>2. /\ Len(out) <= sent[r].wanted
        /\ sent[r].early => \A i \in 1..Len(out) - 1 : out[i] = "returned"
    BY <1>1 DEF Sound, OutOf
  <1>3. /\ cases \in Seq(Outcomes) /\ Len(cases) <= sent[r].wanted /\ IsPrefix(out, cases)
        /\ \A i \in 1..Len(cases) : i > Len(out) => cases[i] = "timeout"
        /\ Len(cases) # sent[r].wanted =>
             sent[r].early /\ cases # <<>> /\ Last(cases) # "returned"
        /\ sent[r].early => \A i \in 1..Len(cases) - 1 : cases[i] = "returned"
    BY <1>1, <1>2, RestIsWhole
  <1>4. Answer(r, "ran", cases)
    BY DEF Stop
  <1> HIDE DEF cases
  <1>5. /\ sent'[r].answer = "ran" /\ sent'[r].wanted = sent[r].wanted
        /\ sent'[r].early = sent[r].early /\ sent'[r].cases = cases
    BY <1>1, <1>3, <1>4, AnswerIs
  <1>6. /\ containers' \in [Requests -> Container]
        /\ \A q \in Requests \ {r} : containers'[q] = containers[q]
        /\ containers'[r].out = out /\ containers'[r].state \in {containers[r].state, "removed"}
    <2>1. CASE UNCHANGED containers
      BY <1>1, <2>1 DEF TypeOK
    <2>2. CASE Become(r, "removed")
      <3>1. box \in Container /\ box.state = "removed" /\ box.out = out
        BY <1>1 DEF Container
      <3>2. containers' = [containers EXCEPT ![r] = box]
        BY <1>1, <2>2 DEF Become, TypeOK
      <3> HIDE DEF box
      <3> QED
        BY <1>1, <3>1, <3>2 DEF TypeOK
    <2> QED
      BY <2>1, <2>2 DEF Stop
  <1>7. Accounted(r)'
    BY <1>5 DEF Accounted
  <1>8. OutOf(r)'
    BY <1>1, <1>5, <1>6 DEF Sound, OutOf, Reported
  <1>9. WholeRun(r)'
    BY <1>3, <1>5, <1>6 DEF WholeRun
  <1> QED
    BY <1>1, <1>3, <1>4, <1>6, <1>7, <1>8, <1>9, EndedSafe

-----------------------------------------------------------------------------
(* The process and the clock, which move every request at once.            *)

LEMMA CrashSafe ==
  ASSUME IInv, Crash
  PROVE  IInv'
  <1> DEFINE lost(r) == [sent[r] EXCEPT !.step = "done", !.answer = "lost", !.due = 0,
                                        !.patience = 0,
                                        !.heard = IF @ = "pending" THEN "fault" ELSE @]
             me(r) == IF InFlight(r) THEN lost(r) ELSE sent[r]
  <1>1. /\ TypeOK /\ up /\ ~ up' /\ queue' = <<>> /\ holder' = {} /\ UNCHANGED containers
        /\ sent' = [r \in Requests |-> me(r)]
    BY DEF IInv, Crash
  <1>2. ASSUME NEW r \in Requests
        PROVE  /\ me(r) \in Request /\ me(r).wanted = sent[r].wanted
               /\ me(r).early = sent[r].early /\ me(r).cases = sent[r].cases
               /\ IF InFlight(r) THEN /\ me(r).step = "done" /\ me(r).answer = "lost"
                                      /\ me(r).heard # "pending"
                                 ELSE me(r) = sent[r]
    <2>1. sent[r] \in Request
      BY <1>1, Fields
    <2>2. CASE InFlight(r)
      <3>1. /\ lost(r) \in Request /\ lost(r).wanted = sent[r].wanted
            /\ lost(r).early = sent[r].early /\ lost(r).cases = sent[r].cases
            /\ lost(r).step = "done" /\ lost(r).answer = "lost"
        BY <2>1 DEF Request
      <3>2. lost(r).heard # "pending"
        BY <2>1 DEF Request
      <3> HIDE DEF lost
      <3> QED
        BY <2>2, <3>1, <3>2
    <2>3. CASE ~ InFlight(r)
      BY <2>1, <2>3
    <2> QED
      BY <2>2, <2>3
  <1>3. \A r \in Requests : sent'[r] = me(r)
    BY <1>1
  <1> HIDE DEF me
  <1>4. TypeOK'
    <2>1. sent' \in [Requests -> Request]
      BY <1>1, <1>2
    <2>2. \A r \in Requests : Len(sent'[r].cases) <= sent'[r].wanted
      BY <1>1, <1>2, <1>3 DEF TypeOK
    <2>3. up' \in BOOLEAN
      BY ZenonT(20) DEF Crash
    <2>4. queue' \in Seq(Requests) /\ holder' \in SUBSET Requests
      BY <1>1
    <2> QED
      BY <1>1, <2>1, <2>2, <2>3, <2>4 DEF TypeOK
  <1>5. QueueInv' /\ AloneInv'
    BY <1>1 DEF QueueInv, AloneInv
  <1>6. ASSUME NEW r \in Requests
        PROVE  Sound(r)'
    <2>1. Sound(r) /\ sent[r] \in Request
      BY <1>1, Fields DEF IInv
    <2>2. sent'[r].step \in {"unsent", "done"}
      BY <1>2, <1>3, <2>1 DEF InFlight, Request
    <2>3. Placed(r)'
      BY <1>1, <1>2, <1>3, <2>1, <2>2 DEF Sound, Placed, InFlight
    <2>4. Outwaited(r)' /\ Accounted(r)'
      BY <1>1, <2>2 DEF Outwaited, Accounted
    <2>5. OutOf(r)'
      BY <1>1, <1>2, <1>3, <2>1 DEF Sound, OutOf, Reported
    <2>6. WholeRun(r)'
      BY <1>1, <1>2, <1>3, <2>1 DEF Sound, WholeRun
    <2> QED
      BY <2>3, <2>4, <2>5, <2>6 DEF Sound
  <1> QED
    BY <1>4, <1>5, <1>6 DEF IInv

LEMMA RestartSafe ==
  ASSUME IInv, Restart
  PROVE  IInv'
  <1> DEFINE gone(r) == [containers[r] EXCEPT !.state = "removed"]
             box(r) == IF Running(r) THEN gone(r) ELSE containers[r]
  <1>1. /\ TypeOK /\ ~ up /\ up' = TRUE /\ UNCHANGED <<sent, queue, holder>>
        /\ containers' = [r \in Requests |-> box(r)]
    BY DEF IInv, Restart
  <1>2. ASSUME NEW r \in Requests
        PROVE  /\ box(r) \in Container /\ box(r).out = containers[r].out
               /\ box(r).state \notin {"running", "flooded"}
               /\ box(r).state \in {containers[r].state, "removed"}
               /\ ~ Running(r) => box(r) = containers[r]
    <2>1. containers[r] \in Container
      BY <1>1, Fields
    <2>2. gone(r) \in Container /\ gone(r).out = containers[r].out /\ gone(r).state = "removed"
      BY <2>1 DEF Container
    <2> HIDE DEF gone
    <2> QED
      BY <2>1, <2>2 DEF Running
  <1>3. \A r \in Requests : containers'[r] = box(r)
    BY <1>1
  <1> HIDE DEF box
  <1>4. TypeOK' /\ QueueInv' /\ AloneInv'
    BY <1>1, <1>2 DEF IInv, TypeOK, QueueInv, AloneInv
  <1>5. ASSUME NEW r \in Requests
        PROVE  Sound(r)'
    <2>1. Sound(r) /\ containers[r] \in Container
      BY <1>1, Fields DEF IInv
    <2>2. Placed(r)'
      BY <1>1, <1>2, <1>3, <2>1 DEF Sound, Placed, InFlight, NoContainer, Running
    <2>3. Outwaited(r)' /\ Accounted(r)'
      BY <1>1, <1>2, <1>3, <2>1 DEF Sound, Outwaited, Deadline, Accounted, Running
    <2>4. OutOf(r)' /\ WholeRun(r)'
      BY <1>1, <1>2, <1>3, <2>1 DEF Sound, OutOf, Reported, WholeRun
    <2> QED
      BY <2>2, <2>3, <2>4 DEF Sound
  <1> QED
    BY <1>4, <1>5 DEF IInv

\* A tick takes one from the timers of a request in flight.
LEMMA TickIs ==
  ASSUME TypeOK, Tick, NEW r \in Requests
  PROVE  /\ sent'[r] \in Request /\ sent'[r].step = sent[r].step
         /\ sent'[r].answer = sent[r].answer /\ sent'[r].cases = sent[r].cases
         /\ sent'[r].wanted = sent[r].wanted /\ sent'[r].early = sent[r].early
         /\ sent'[r].heard = sent[r].heard
         /\ InFlight(r) => sent'[r].due = sent[r].due - 1
         /\ InFlight(r) /\ sent[r].heard = "pending" =>
              sent'[r].patience = sent[r].patience - 1
  <1> DEFINE left == IF sent[r].heard = "pending" THEN sent[r].patience - 1
                                                  ELSE sent[r].patience
             later == [sent[r] EXCEPT !.due = sent[r].due - 1, !.patience = left]
  <1>1. sent[r] \in Request /\ sent[r].due \in Nat /\ sent[r].patience \in Nat
    BY Fields
  <1>2. CASE InFlight(r)
    <2>1. sent[r].due > 0 /\ (sent[r].heard = "pending" => sent[r].patience > 0)
      BY <1>2 DEF Tick
    <2>2. sent[r].due - 1 \in Nat /\ left \in Nat
      BY <1>1, <2>1
    <2>3. sent'[r] = later
      BY <1>2 DEF Tick
    <2>4. sent[r].heard = "pending" => left = sent[r].patience - 1
      OBVIOUS
    <2> HIDE DEF left
    <2>5. /\ later \in Request /\ later.step = sent[r].step
          /\ later.answer = sent[r].answer /\ later.cases = sent[r].cases
          /\ later.wanted = sent[r].wanted /\ later.early = sent[r].early
          /\ later.heard = sent[r].heard /\ later.due = sent[r].due - 1
          /\ later.patience = left
      BY <1>1, <2>2 DEF Request
    <2> HIDE DEF later
    <2> QED
      BY <2>3, <2>4, <2>5
  <1>3. CASE ~ InFlight(r)
    <2>1. sent'[r] = sent[r]
      BY <1>3 DEF Tick
    <2> QED
      BY <1>1, <1>3, <2>1
  <1> QED
    BY <1>2, <1>3

\* So the engine's lead over the broker is kept.
LEMMA TickSafe ==
  ASSUME IInv, Tick
  PROVE  IInv'
  <1>1. TypeOK /\ UNCHANGED <<queue, holder, containers, up>>
    BY DEF IInv, Tick
  <1>2. ASSUME NEW r \in Requests
        PROVE  /\ sent'[r] \in Request /\ sent'[r].step = sent[r].step
               /\ sent'[r].answer = sent[r].answer /\ sent'[r].cases = sent[r].cases
               /\ sent'[r].wanted = sent[r].wanted /\ sent'[r].early = sent[r].early
               /\ sent'[r].heard = sent[r].heard
               /\ InFlight(r) => sent'[r].due = sent[r].due - 1
               /\ InFlight(r) /\ sent[r].heard = "pending" =>
                    sent'[r].patience = sent[r].patience - 1
    BY <1>1, TickIs
  <1> DEFINE me(r) == IF ~ InFlight(r) THEN sent[r]
                      ELSE [sent[r] EXCEPT
                              !.due = @ - 1,
                              !.patience = IF sent[r].heard = "pending" THEN @ - 1 ELSE @]
  <1>3. sent' = [r \in Requests |-> me(r)]
    BY DEF Tick
  <1> HIDE DEF me
  <1>4. TypeOK'
    <2>1. sent' \in [Requests -> Request]
      BY <1>2, <1>3
    <2> QED
      BY <1>1, <1>2, <2>1 DEF TypeOK
  <1>5. QueueInv'
    <2>1. \A i \in DOMAIN queue : queue[i] \in Requests
      BY <1>1 DEF TypeOK
    <2> QED
      BY <1>1, <1>2, <2>1 DEF IInv, QueueInv
  <1>6. AloneInv'
    BY <1>1 DEF IInv, AloneInv
  <1>7. ASSUME NEW r \in Requests
        PROVE  Sound(r)'
    <2>1. Sound(r) /\ sent[r] \in Request
      BY <1>1, Fields DEF IInv
    <2>2. Placed(r)' /\ Accounted(r)'
      BY <1>1, <1>2, <2>1 DEF Sound, Placed, InFlight, Accounted, Running
    <2>3. OutOf(r)' /\ WholeRun(r)'
      BY <1>1, <1>2, <2>1 DEF Sound, OutOf, Reported, WholeRun
    <2>4. Outwaited(r)'
      <3>1. /\ sent[r].due \in Nat /\ sent[r].patience \in Nat /\ sent[r].wanted \in Nat
            /\ Deadline(sent[r].wanted) \in Nat /\ Margin \in Nat
        BY <1>1, Fields, DeadlineType, BrokerAssumption
      <3>2. Outwaited(r)
        BY <2>1 DEF Sound
      <3> QED
        BY <1>2, <3>1, <3>2 DEF Outwaited, InFlight
    <2> QED
      BY <2>2, <2>3, <2>4 DEF Sound
  <1> QED
    BY <1>4, <1>5, <1>6, <1>7 DEF IInv

-----------------------------------------------------------------------------
(* The invariant, and what it gives.                                       *)

LEMMA InitSafe == Init => IInv
  <1> SUFFICES ASSUME Init PROVE IInv
    OBVIOUS
  <1>1. Unsent \in Request /\ Len(Unsent.cases) <= Unsent.wanted
    BY DEF Request, Unsent
  <1>2. NoContainer \in Container
    BY DEF Container, NoContainer
  <1>3. TypeOK
    BY <1>1, <1>2 DEF Init, TypeOK
  <1>4. QueueInv /\ AloneInv
    BY DEF Init, QueueInv, AloneInv
  <1>5. ASSUME NEW r \in Requests
        PROVE  Sound(r)
    <2>1. sent[r] = Unsent /\ containers[r] = NoContainer /\ holder = {} /\ up
      BY DEF Init
    <2>2. /\ Unsent.step = "unsent" /\ Unsent.answer = "none" /\ Unsent.wanted = 0
          /\ Unsent.early = FALSE /\ NoContainer.state = "none" /\ NoContainer.out = <<>>
      BY DEF Unsent, NoContainer
    <2>3. Placed(r) /\ Outwaited(r) /\ Accounted(r) /\ WholeRun(r)
      BY <2>1, <2>2 DEF Placed, Outwaited, Accounted, Running, WholeRun, InFlight
    <2>4. OutOf(r)
      BY <2>1, <2>2 DEF OutOf
    <2> QED
      BY <2>3, <2>4 DEF Sound
  <1> QED
    BY <1>3, <1>4, <1>5 DEF IInv

LEMMA NextSafe == IInv /\ [Next]_vars => IInv'
  <1> SUFFICES ASSUME IInv, [Next]_vars PROVE IInv'
    OBVIOUS
  <1>1. ASSUME NEW r \in Requests, NEW shape \in Shapes, Send(r, shape[1], shape[2])
        PROVE  IInv'
    <2>1. shape[1] \in Nat /\ shape[2] \in BOOLEAN
      BY BrokerAssumption
    <2> QED
      BY <1>1, <2>1, SendSafe
  <1>2. ASSUME NEW r \in Requests,
               Admit(r) \/ Refuse(r) \/ GiveUp(r) \/ Expire(r) \/ Stop(r)
        PROVE  IInv'
    BY <1>2, AdmitSafe, RefuseSafe, GiveUpSafe, ExpireSafe, StopSafe
  <1>3. ASSUME NEW r \in Requests, NEW outcome \in Outcomes, Report(r, outcome)
        PROVE  IInv'
    BY <1>3, ReportSafe
  <1>4. ASSUME NEW r \in Requests, Flood(r) \/ End(r) \/ Exited(r) \/ Overflowed(r)
        PROVE  IInv'
    BY <1>4, FloodSafe, EndSafe, ExitedSafe, OverflowedSafe
  <1>5. CASE Crash
    BY <1>5, CrashSafe
  <1>6. CASE Restart
    BY <1>6, RestartSafe
  <1>7. CASE Tick
    BY <1>7, TickSafe
  <1>8. CASE UNCHANGED vars
    <2>1. UNCHANGED <<sent, queue, holder, containers, up>>
      BY <1>8 DEF vars
    <2>2. TypeOK' /\ QueueInv' /\ AloneInv'
      BY <2>1 DEF IInv, TypeOK, QueueInv, AloneInv
    <2>3. \A r \in Requests : Sound(r)'
      BY <2>1, Unmoved DEF IInv
    <2> QED
      BY <2>2, <2>3 DEF IInv
  <1> QED
    BY <1>1, <1>2, <1>3, <1>4, <1>5, <1>6, <1>7, <1>8 DEF Next

\* The invariant the others rest on: where a request stands, the lock, the
\* engine's timer against the broker's, the containers and what they reported.
THEOREM BrokerSound == Spec => []IInv
  BY InitSafe, NextSafe, PTL DEF Spec

\* Every request and container stays what the code's types admit, whatever the
\* broker, its containers and its engine do (broker/app.py, container.py).
THEOREM BrokerTypeCorrect == Spec => []TypeOK
  <1>1. IInv => TypeOK
    BY DEF IInv
  <1> QED
    BY <1>1, BrokerSound, PTL

\* The admission lock of broker/app.py: one container at a time, but for one
\* that outlived its run, and a restart leaves none behind.
THEOREM OneContainerAtATime == Spec => []AloneUnlessLeftBehind
  <1>1. IInv => AloneUnlessLeftBehind
    <2> SUFFICES ASSUME IInv, NEW r \in Requests, NEW other \in Requests, r # other,
                        Running(r), Running(other), up
                 PROVE  \E left \in {r, other} :
                          \/ sent[left].answer = "failed" /\ containers[left].state = "flooded"
                          \/ sent[left].answer = "ran"
      BY DEF AloneUnlessLeftBehind
    <2>1. r \notin holder \/ other \notin holder
      BY DEF IInv, AloneInv
    <2>2. Accounted(r) /\ Accounted(other)
      BY DEF IInv, Sound
    <2> QED
      BY <2>1, <2>2 DEF Accounted
  <1> QED
    BY <1>1, BrokerSound, PTL

\* A verdict is of a whole run (container.py `run`, `_rest_timed_out`), for
\* every number of cases, wherever the deadline or `stop_early` cut it.
THEOREM VerdictsAreWhole == Spec => []VerdictsAreOfWholeRuns
  <1>1. IInv => VerdictsAreOfWholeRuns
    BY DEF IInv, Sound, WholeRun, VerdictsAreOfWholeRuns
  <1> QED
    BY <1>1, BrokerSound, PTL

\* The engine outwaits the broker (runner/remote.py `_timeout`): its own timer
\* never fires while a run waits or runs, for any length of the bounds.
THEOREM EngineOutwaitsTheBroker == Spec => GivesUpOnlyOnASlowKill
  <1> DEFINE Outwaits ==
        \A r \in Requests :
          sent[r].heard = "pending" /\ sent'[r].heard = "fault" /\ up' =>
            sent[r].step \in {"unsent", "stopping"}
  <1>1. ASSUME IInv, [Next]_vars
        PROVE  [Outwaits]_vars
    <2> SUFFICES ASSUME Next, NEW q \in Requests, sent[q].heard = "pending",
                        sent'[q].heard = "fault", up'
                 PROVE  sent[q].step \in {"unsent", "stopping"}
      BY <1>1
    <2>1. TypeOK /\ sent \in [Requests -> Request] /\ sent[q] \in Request /\ Outwaited(q)
      BY <1>1, Fields DEF IInv, TypeOK, Sound
    <2>2. ASSUME NEW r \in Requests, NEW shape \in Shapes, Send(r, shape[1], shape[2])
          PROVE  sent[q].step = "unsent"
      <3>1. sent[r].step = "unsent" /\ \A p \in Requests \ {r} : sent'[p] = sent[p]
        BY <2>1, <2>2 DEF Send
      <3> QED
        BY <3>1
    <2>3. ASSUME NEW r \in Requests, GiveUp(r)
          PROVE  sent[q].step = "stopping"
      <3>1. q = r
        BY <2>1, <2>3 DEF GiveUp
      <3>2. sent[q].patience = 0 /\ sent[q].step \in {"waiting", "running", "stopping"}
        BY <2>3, <3>1 DEF GiveUp, InFlight
      <3>3. /\ sent[q].due \in Nat /\ sent[q].wanted \in Nat /\ Margin \in Nat \ {0}
            /\ Deadline(sent[q].wanted) \in Nat
        BY <2>1, Fields, DeadlineType, BrokerAssumption
      <3> QED
        BY <2>1, <3>2, <3>3 DEF Outwaited
    <2>4. ASSUME NEW r \in Requests, NEW answer \in {"refused", "failed", "ran"}, NEW cases,
                 Answer(r, answer, cases)
          PROVE  FALSE
      <3>1. CASE q = r
        BY <2>1, <2>4, <3>1 DEF Answer, Request
      <3>2. CASE q # r
        BY <2>1, <2>4, <3>2 DEF Answer
      <3> QED
        BY <3>1, <3>2
    <2>5. ASSUME NEW r \in Requests, Admit(r) \/ Expire(r)
          PROVE  FALSE
      <3>1. ASSUME NEW step, NEW due, sent' = [sent EXCEPT ![r].step = step, ![r].due = due]
            PROVE  sent'[q].heard = sent[q].heard
        <4>1. CASE q = r
          BY <2>1, <3>1, <4>1 DEF Request
        <4>2. CASE q # r
          BY <2>1, <3>1, <4>2
        <4> QED
          BY <4>1, <4>2
      <3>2. CASE Admit(r)
        <4>1. sent' = [sent EXCEPT ![r].step = "running", ![r].due = Deadline(sent[r].wanted)]
          BY <3>2 DEF Admit
        <4> QED
          BY <3>1, <4>1
      <3>3. CASE Expire(r)
        <4>1. sent' = [sent EXCEPT ![r].step = "stopping", ![r].due = Docker]
          BY <3>3 DEF Expire
        <4> QED
          BY <3>1, <4>1
      <3> QED
        BY <2>5, <3>2, <3>3
    <2>6. ASSUME NEW r \in Requests, Refuse(r) \/ Exited(r) \/ Overflowed(r) \/ Stop(r)
          PROVE  FALSE
      BY <2>4, <2>6 DEF Refuse, Exited, Overflowed, Stop
    <2>7. ASSUME UNCHANGED sent
          PROVE  FALSE
      BY <2>7
    <2>8. ~ Crash
      BY DEF Crash
    <2>9. ASSUME Tick
          PROVE  FALSE
      <3>1. sent'[q].heard = sent[q].heard
        BY <2>1, <2>9, TickIs
      <3> QED
        BY <3>1
    <2> QED
      BY <2>2, <2>3, <2>5, <2>6, <2>7, <2>8, <2>9 DEF Next, Report, Flood, End, Restart
  <1> QED
    BY <1>1, BrokerSound, PTL DEF Spec, GivesUpOnlyOnASlowKill
=============================================================================
