---------------------------- MODULE StorageProofs ----------------------------
(***************************************************************************)
(* Theorems about Storage, for every number of threads, operations and     *)
(* writes.                                                                 *)
(***************************************************************************)
EXTENDS Storage, SequenceTheorems, TLAPS

(***************************************************************************)
(* The types, whoever shares a handle.                                     *)
(***************************************************************************)

\* A thread at work is inside an operation, at one of its writes, and on a
\* connection where its step needs one.
Placed(w) ==
  /\ w.step # "idle" => w.op > 0 /\ w.place \in 1..Count(w.kind)
  /\ w.step \in {"execute", "exit"} => w.cur # 0
  /\ w.step \in {"release", "settle"} => w.outer # 0

TypeInv == TypeOK /\ \A t \in Threads : Placed(work[t])

\* The number of an operation's writes, and where an operation is found.
LEMMA CountType ==
  ASSUME NEW kind \in Kinds
  PROVE  Count(kind) \in 1..Places /\ Places \in Nat \ {0}
  BY StorageAssumption DEF Count, Kinds

LEMMA OpType ==
  ASSUME TypeInv, NEW t \in Threads, ~ At(t, "idle")
  PROVE  /\ Op(t) \in Ops
         /\ Op(t)[1] = t /\ Op(t)[2] = work[t].op /\ Op(t)[3] = work[t].kind
         /\ \A n \in 1..Places : <<Op(t), n>> \in Writes
  <1>1. work[t] \in Work /\ work[t].op > 0 /\ MaxOps \in Nat
    BY StorageAssumption DEF TypeInv, TypeOK, Placed, At
  <1>2. work[t].op \in 1..MaxOps /\ work[t].kind \in Kinds
    BY <1>1 DEF Work
  <1> QED
    BY <1>2 DEF Op, Ops, Writes

\* One thread moves, over connections that were only added to or revised.
LEMMA WorkType ==
  ASSUME TypeInv, NEW t \in Threads, NEW w \in Work, Placed(w),
         work' = [work EXCEPT ![t] = w],
         Len(conns) \in Nat, Len(conns)' \in Nat, Len(conns) <= Len(conns)',
         w.outer <= Len(conns)', w.cur <= Len(conns)'
  PROVE  /\ work' \in [Threads -> Work]
         /\ \A u \in Threads : work'[u].outer <= Len(conns)' /\ work'[u].cur <= Len(conns)'
         /\ \A u \in Threads : Placed(work'[u])
  <1>1. work' \in [Threads -> Work]
    BY DEF TypeInv, TypeOK
  <1>2. ASSUME NEW u \in Threads
        PROVE  /\ work'[u].outer <= Len(conns)' /\ work'[u].cur <= Len(conns)'
               /\ Placed(work'[u])
    <2>1. CASE u = t
      BY <2>1 DEF TypeInv, TypeOK
    <2>2. CASE u # t
      <3>1. work'[u] = work[u] /\ work[u] \in Work
        BY <2>2 DEF TypeInv, TypeOK
      <3>2. work[u].outer <= Len(conns) /\ work[u].cur <= Len(conns) /\ Placed(work[u])
        BY DEF TypeInv, TypeOK
      <3> QED
        BY <3>1, <3>2 DEF Work
    <2> QED
      BY <2>1, <2>2
  <1> QED
    BY <1>1, <1>2

\* A connection is added, or one is revised.
LEMMA ConnsAdded ==
  ASSUME TypeInv, conns' = Append(conns, Opened)
  PROVE  /\ conns' \in Seq(Connection)
         /\ Len(conns') = Len(conns) + 1 /\ Len(conns) \in Nat
         /\ \A c \in 1..Len(conns) : conns'[c] = conns[c]
         /\ conns'[Len(conns) + 1] = Opened
  <1>1. Opened \in Connection /\ conns \in Seq(Connection)
    BY DEF Opened, Connection, TypeInv, TypeOK
  <1> QED
    BY <1>1, AppendProperties

LEMMA ConnsRevised ==
  ASSUME TypeInv, NEW c \in Nat \ {0}, c <= Len(conns), NEW e \in Connection,
         conns' = [conns EXCEPT ![c] = e]
  PROVE  /\ conns' \in Seq(Connection)
         /\ Len(conns') = Len(conns) /\ Len(conns) \in Nat
         /\ conns'[c] = e
         /\ \A d \in 1..Len(conns) : d # c => conns'[d] = conns[d]
  <1>1. conns \in Seq(Connection) /\ Len(conns) \in Nat
    BY DEF TypeInv, TypeOK
  <1>2. c \in 1..Len(conns)
    BY <1>1
  <1> QED
    BY <1>1, <1>2, ExceptSeq

LEMMA TypeInit == Init => TypeInv
  <1> SUFFICES ASSUME Init PROVE TypeInv
    OBVIOUS
  <1>1. Idle(0) \in Work /\ Placed(Idle(0)) /\ Idle(0).outer = 0 /\ Idle(0).cur = 0
    BY StorageAssumption DEF Idle, Work, Steps, Kinds, Placed
  <1>2. conns = <<>> /\ conns \in Seq(Connection) /\ Len(conns) = 0
    BY EmptySeq DEF Init
  <1> QED
    BY <1>1, <1>2 DEF Init, TypeInv, TypeOK

\* An answer goes to the operation its thread is in, which then ends.
LEMMA AnswerType ==
  ASSUME TypeInv, NEW t \in Threads, ~ At(t, "idle"),
         NEW answer \in {"done", "raised"}, Answer(t, answer),
         Len(conns)' \in Nat, Len(conns) <= Len(conns)'
  PROVE  /\ answers' \in [Ops -> {"none", "done", "raised"}]
         /\ work' \in [Threads -> Work]
         /\ \A u \in Threads : work'[u].outer <= Len(conns)' /\ work'[u].cur <= Len(conns)'
         /\ \A u \in Threads : Placed(work'[u])
  <1> DEFINE w == Idle(work[t].op)
  <1>1. work[t] \in Work /\ Len(conns) \in Nat
    BY DEF TypeInv, TypeOK
  <1>2. w \in Work /\ Placed(w) /\ w.outer = 0 /\ w.cur = 0
    BY <1>1, StorageAssumption DEF Idle, Work, Steps, Kinds, Placed
  <1>3. work' = [work EXCEPT ![t] = w]
    BY DEF Answer, TypeInv, TypeOK
  <1>4. answers' \in [Ops -> {"none", "done", "raised"}]
    BY OpType DEF Answer, TypeInv, TypeOK
  <1>5. w.outer <= Len(conns)' /\ w.cur <= Len(conns)'
    BY <1>2
  <1> HIDE DEF w
  <1> QED
    BY <1>1, <1>2, <1>3, <1>4, <1>5, WorkType

\* A thread takes its next step, and nothing else of it changes.
LEMMA GoType ==
  ASSUME TypeInv, NEW t \in Threads, NEW step \in Steps \ {"idle"}, Go(t, step),
         ~ At(t, "idle"),
         step \in {"execute", "exit"} => work[t].cur # 0,
         step \in {"release", "settle"} => work[t].outer # 0,
         Len(conns)' \in Nat, Len(conns) <= Len(conns)'
  PROVE  /\ work' \in [Threads -> Work]
         /\ \A u \in Threads : work'[u].outer <= Len(conns)' /\ work'[u].cur <= Len(conns)'
         /\ \A u \in Threads : Placed(work'[u])
  <1> DEFINE w == [work[t] EXCEPT !.step = step]
  <1>1. work[t] \in Work /\ Len(conns) \in Nat /\ Placed(work[t])
        /\ work[t].outer <= Len(conns) /\ work[t].cur <= Len(conns)
    BY DEF TypeInv, TypeOK
  <1>2. w \in Work /\ Placed(w) /\ w.outer = work[t].outer /\ w.cur = work[t].cur
    BY <1>1 DEF Work, Placed, At
  <1>3. work' = [work EXCEPT ![t] = w]
    BY DEF Go
  <1>4. w.outer <= Len(conns)' /\ w.cur <= Len(conns)'
    BY <1>1, <1>2 DEF Work
  <1> HIDE DEF w
  <1> QED
    BY <1>1, <1>2, <1>3, <1>4, WorkType

\* An exception leaves the body of an operation.
LEMMA RaiseType ==
  ASSUME TypeInv, NEW t \in Threads, ~ At(t, "idle"), Raise(t),
         Len(conns)' \in Nat, Len(conns) <= Len(conns)'
  PROVE  /\ answers' \in [Ops -> {"none", "done", "raised"}]
         /\ work' \in [Threads -> Work]
         /\ \A u \in Threads : work'[u].outer <= Len(conns)' /\ work'[u].cur <= Len(conns)'
         /\ \A u \in Threads : Placed(work'[u])
  <1>1. CASE work[t].outer # 0
    <2> DEFINE w == [work[t] EXCEPT !.step = "release", !.raising = TRUE]
    <2>1. work[t] \in Work /\ Len(conns) \in Nat /\ Placed(work[t])
          /\ work[t].outer <= Len(conns) /\ work[t].cur <= Len(conns)
      BY DEF TypeInv, TypeOK
    <2>2. w \in Work /\ Placed(w) /\ w.outer = work[t].outer /\ w.cur = work[t].cur
      BY <1>1, <2>1 DEF Work, Placed, At, Steps
    <2>3. work' = [work EXCEPT ![t] = w] /\ UNCHANGED answers
      BY <1>1 DEF Raise
    <2>4. w.outer <= Len(conns)' /\ w.cur <= Len(conns)'
      BY <2>1, <2>2 DEF Work
    <2> HIDE DEF w
    <2>5. answers' \in [Ops -> {"none", "done", "raised"}]
      BY <2>3 DEF TypeInv, TypeOK
    <2> QED
      BY <2>1, <2>2, <2>3, <2>4, <2>5, WorkType
  <1>2. CASE work[t].outer = 0
    BY <1>2, AnswerType DEF Raise
  <1> QED
    BY <1>1, <1>2

\* A connection commits the writes of operations, and is closed.
LEMMA CommitType ==
  ASSUME TypeInv, NEW c \in Nat \ {0}, c <= Len(conns), Commit(c) \/ Rollback(c)
  PROVE  /\ committed' \in SUBSET Writes
         /\ conns' \in Seq(Connection) /\ Len(conns') = Len(conns) /\ Len(conns) \in Nat
         /\ conns'[c] = [conns[c] EXCEPT !.open = FALSE]
         /\ \A d \in 1..Len(conns) : d # c => conns'[d] = conns[d]
  <1>1. conns \in Seq(Connection) /\ Len(conns) \in Nat /\ committed \in SUBSET Writes
    BY DEF TypeInv, TypeOK
  <1>2. conns[c] \in Connection
    BY <1>1
  <1>3. [conns[c] EXCEPT !.open = FALSE] \in Connection /\ conns[c].writes \subseteq Writes
    BY <1>2 DEF Connection
  <1>4. conns' = [conns EXCEPT ![c] = [conns[c] EXCEPT !.open = FALSE]]
    BY DEF Commit, Rollback
  <1>5. committed' \in SUBSET Writes
    BY <1>1, <1>3 DEF Commit, Rollback
  <1> QED
    BY <1>3, <1>4, <1>5, ConnsRevised

\* Every step keeps the types.
LEMMA TypeStep == TypeInv /\ [Next]_vars => TypeInv'
  <1> SUFFICES ASSUME TypeInv, [Next]_vars PROVE TypeInv'
    OBVIOUS
  <1>type. /\ held \in [Handles -> 0..Len(conns)] /\ conns \in Seq(Connection)
           /\ work \in [Threads -> Work] /\ committed \in SUBSET Writes
           /\ answers \in [Ops -> {"none", "done", "raised"}] /\ Len(conns) \in Nat
    BY DEF TypeInv, TypeOK
  <1>stay. ASSUME UNCHANGED vars PROVE TypeInv'
    BY <1>stay DEF vars, TypeInv, TypeOK
  <1>step. ASSUME NEW t \in Threads,
                  \/ \E kind \in Kinds : Start(t, kind)
                  \/ Test(t) \/ Open(t) \/ Begin(t) \/ Take(t) \/ Execute(t) \/ Exit(t)
                  \/ Release(t) \/ Settle(t)
           PROVE  TypeInv'
    <2> DEFINE w == work[t]
    <2>w. w \in Work /\ w.outer <= Len(conns) /\ w.cur <= Len(conns) /\ Placed(w)
      BY DEF TypeInv, TypeOK
    <2>h. HandleOf[t] \in Handles /\ Held(t) \in Nat /\ Held(t) <= Len(conns)
      BY <1>type, StorageAssumption DEF Held
    <2>1. ASSUME NEW kind \in Kinds, Start(t, kind) PROVE TypeInv'
      <3> DEFINE fresh == Idle(w.op + 1)
                 first == IF kind = "transaction" THEN "test" ELSE "begin"
                 new == [fresh EXCEPT !.kind = kind, !.place = 1, !.step = first]
      <3>1. w.op + 1 \in 0..MaxOps /\ w.op + 1 > 0
        BY <2>1, <2>w, StorageAssumption DEF Start, Work
      <3>2. fresh \in Work /\ fresh.op = w.op + 1 /\ fresh.outer = 0 /\ fresh.cur = 0
        BY <3>1, StorageAssumption DEF Idle, Work, Steps, Kinds
      <3>3. new \in Work /\ Placed(new) /\ new.outer <= Len(conns) /\ new.cur <= Len(conns)
        <4>1. Count(kind) \in Nat /\ Count(kind) >= 1 /\ Places \in Nat /\ Places >= 1
          BY CountType
        <4>2. /\ new \in Work /\ new.outer = 0 /\ new.cur = 0 /\ new.op = w.op + 1
              /\ new.kind = kind /\ new.place = 1 /\ new.step \in {"test", "begin"}
          <5>1. first \in {"test", "begin"} /\ 1 \in 0..Places
            BY <4>1
          <5> HIDE DEF fresh, first
          <5>2. new \in Work
            BY <3>2, <5>1 DEF Work, Steps
          <5> QED
            BY <3>2, <5>1, <5>2 DEF Work
        <4> HIDE DEF new
        <4> QED
          BY <1>type, <3>1, <4>1, <4>2 DEF Placed
      <3>4. work' = [work EXCEPT ![t] = new] /\ UNCHANGED <<held, conns, committed, answers>>
        BY <2>1 DEF Start
      <3> HIDE DEF new
      <3> QED
        BY <1>type, <3>3, <3>4, WorkType DEF TypeInv, TypeOK
    <2>2. ASSUME Test(t) PROVE TypeInv'
      BY <1>type, <2>2, GoType DEF Test, At, TypeInv, TypeOK, Steps
    <2>3. ASSUME Open(t) PROVE TypeInv'
      <3> DEFINE new == [w EXCEPT !.step = "begin", !.outer = Len(conns) + 1]
      <3>1. /\ conns' \in Seq(Connection) /\ Len(conns') = Len(conns) + 1
        BY <2>3, ConnsAdded DEF Open
      <3>2. new \in Work /\ Placed(new) /\ new.outer = Len(conns) + 1 /\ new.cur = w.cur
        BY <1>type, <2>3, <2>w DEF Open, Work, Placed, Steps, At
      <3>3. work' = [work EXCEPT ![t] = new] /\ UNCHANGED <<committed, answers>>
        BY <2>3, <3>1 DEF Open
      <3>4. held' \in [Handles -> 0..Len(conns')]
        <4>1. held \in [Handles -> 0..Len(conns')] /\ Len(conns') \in 0..Len(conns')
          BY <1>type, <3>1
        <4> QED
          BY <2>3, <4>1 DEF Open
      <3>5. new.outer <= Len(conns') /\ new.cur <= Len(conns')
        BY <1>type, <2>w, <3>1, <3>2 DEF Work
      <3>6. Len(conns') \in Nat /\ Len(conns) <= Len(conns')
        BY <1>type, <3>1
      <3> HIDE DEF new
      <3>7. /\ work' \in [Threads -> Work]
            /\ \A u \in Threads : work'[u].outer <= Len(conns') /\ work'[u].cur <= Len(conns')
            /\ \A u \in Threads : Placed(work'[u])
        BY <1>type, <3>2, <3>3, <3>5, <3>6, WorkType
      <3> QED
        BY <1>type, <3>1, <3>3, <3>4, <3>7 DEF TypeInv, TypeOK
    <2>4. ASSUME Begin(t) PROVE TypeInv'
      <3>1. CASE Go(t, "take") /\ UNCHANGED conns
        BY <1>type, <2>4, <3>1, GoType DEF Begin, At, TypeInv, TypeOK, Steps
      <3>2. CASE /\ conns' = Append(conns, Opened)
                 /\ work' = [work EXCEPT ![t].step = "execute", ![t].cur = Len(conns'),
                                         ![t].own = TRUE]
        <4> DEFINE new == [w EXCEPT !.step = "execute", !.cur = Len(conns) + 1,
                                    !.own = TRUE]
        <4>1. conns' \in Seq(Connection) /\ Len(conns') = Len(conns) + 1
          BY <3>2, ConnsAdded
        <4>2. new \in Work /\ Placed(new) /\ new.cur = Len(conns) + 1 /\ new.outer = w.outer
          <5>1. Len(conns) + 1 \in Nat \ {0} /\ w.step = "begin"
            BY <1>type, <2>4 DEF Begin, At
          <5> QED
            BY <5>1, <2>w DEF Work, Placed, Steps
        <4>3. work' = [work EXCEPT ![t] = new]
          BY <3>2, <4>1
        <4>4. UNCHANGED <<held, committed, answers>>
          BY <2>4 DEF Begin
        <4>5. new.outer <= Len(conns') /\ new.cur <= Len(conns')
          BY <1>type, <2>w, <4>1, <4>2 DEF Work
        <4> HIDE DEF new
        <4>6. held \in [Handles -> 0..Len(conns')]
          BY <1>type, <4>1
        <4>7. Len(conns') \in Nat /\ Len(conns) <= Len(conns')
          BY <1>type, <4>1
        <4>8. /\ work' \in [Threads -> Work]
              /\ \A u \in Threads : work'[u].outer <= Len(conns') /\ work'[u].cur <= Len(conns')
              /\ \A u \in Threads : Placed(work'[u])
          BY <1>type, <4>2, <4>3, <4>5, <4>7, WorkType
        <4> QED
          BY <1>type, <4>1, <4>4, <4>6, <4>8 DEF TypeInv, TypeOK
      <3> QED
        BY <2>4, <3>1, <3>2 DEF Begin
    <2>5. ASSUME Take(t) PROVE TypeInv'
      <3>1. CASE /\ Held(t) # 0
                 /\ work' = [work EXCEPT ![t].step = "execute", ![t].cur = Held(t),
                                         ![t].own = FALSE]
                 /\ UNCHANGED answers
        <4> DEFINE new == [w EXCEPT !.step = "execute", !.cur = Held(t), !.own = FALSE]
        <4>1. new \in Work /\ Placed(new) /\ new.cur = Held(t) /\ new.outer = w.outer
          BY <2>5, <2>w, <2>h, <3>1 DEF Take, Work, Placed, Steps, At
        <4>2. work' = [work EXCEPT ![t] = new]
          BY <3>1
        <4>3. new.outer <= Len(conns) /\ new.cur <= Len(conns)
          BY <2>w, <2>h, <4>1
        <4> HIDE DEF new
        <4> QED
          BY <1>type, <2>5, <3>1, <4>1, <4>2, <4>3, WorkType DEF Take, TypeInv, TypeOK
      <3>2. CASE Raise(t)
        BY <1>type, <2>5, <3>2, RaiseType DEF Take, At, TypeInv, TypeOK
      <3> QED
        BY <2>5, <3>1, <3>2 DEF Take
    <2>6. ASSUME Execute(t) PROVE TypeInv'
      <3> DEFINE c == w.cur
      <3>1. c \in Nat \ {0} /\ c <= Len(conns) /\ conns[c] \in Connection
        BY <1>type, <2>6, <2>w DEF Execute, Placed, At, Work
      <3>2. ~ At(t, "idle") /\ UNCHANGED <<held, committed>>
        BY <2>6 DEF Execute, At
      <3>3. CASE /\ conns' = [conns EXCEPT ![c].writes = @ \cup {<<Op(t), w.place>>}]
                 /\ Go(t, "exit") /\ UNCHANGED answers
        <4>1. <<Op(t), w.place>> \in Writes
          <5>1. w.place \in 1..Places
            BY <2>w, <3>2, CountType DEF Work, Placed, At
          <5> QED
            BY <3>2, <5>1, OpType
        <4> DEFINE e == [conns[c] EXCEPT !.writes = @ \cup {<<Op(t), w.place>>}]
        <4>2. e \in Connection
          BY <3>1, <4>1 DEF Connection
        <4>3. conns' = [conns EXCEPT ![c] = e]
          BY <3>3
        <4> HIDE DEF e
        <4>4. conns' \in Seq(Connection) /\ Len(conns') = Len(conns)
          BY <3>1, <4>2, <4>3, ConnsRevised
        <4> QED
          BY <1>type, <3>1, <3>2, <3>3, <4>4, GoType DEF Steps, TypeInv, TypeOK
      <3>4. CASE /\ conns' = [conns EXCEPT ![c].aborted = @ \/ conns[c].open,
                                           ![c].open = @ /\ ~ w.own]
                 /\ Raise(t)
        <4> DEFINE e == [conns[c] EXCEPT !.aborted = conns[c].aborted \/ conns[c].open,
                                         !.open = conns[c].open /\ ~ w.own]
        <4>1. e \in Connection
          BY <3>1 DEF Connection
        <4>2. conns' = [conns EXCEPT ![c] = e]
          BY <3>1, <3>4, <1>type
        <4> HIDE DEF e
        <4>3. conns' \in Seq(Connection) /\ Len(conns') = Len(conns)
          BY <3>1, <4>1, <4>2, ConnsRevised
        <4> QED
          BY <1>type, <3>2, <3>4, <4>3, RaiseType DEF TypeInv, TypeOK
      <3> QED
        BY <2>6, <3>3, <3>4 DEF Execute
    <2>7. ASSUME Exit(t) PROVE TypeInv'
      <3>1. w.cur \in Nat \ {0} /\ w.cur <= Len(conns) /\ ~ At(t, "idle")
        BY <1>type, <2>7, <2>w DEF Exit, Placed, At, Work
      <3>2. /\ committed' \in SUBSET Writes /\ conns' \in Seq(Connection)
            /\ Len(conns') = Len(conns) /\ UNCHANGED held
        BY <1>type, <2>7, <3>1, CommitType DEF Exit
      <3>3. CASE /\ w.place # Count(w.kind) /\ UNCHANGED answers
                 /\ work' = [work EXCEPT ![t].step = "begin", ![t].place = @ + 1,
                                         ![t].cur = 0, ![t].own = FALSE]
        <4> DEFINE new == [w EXCEPT !.step = "begin", !.place = w.place + 1,
                                    !.cur = 0, !.own = FALSE]
        <4>1. Count(w.kind) \in 1..Places /\ w.place \in 1..Count(w.kind) /\ w.op > 0
              /\ Places \in Nat
          BY <2>w, <3>1, CountType DEF Work, Placed, At
        <4>2. w.place + 1 \in 1..Count(w.kind)
          BY <3>3, <4>1
        <4>3. w.place + 1 \in 0..Places
          BY <4>1, <4>2
        <4>4. new \in Work /\ Placed(new) /\ new.outer = w.outer /\ new.cur = 0
          BY <2>w, <4>1, <4>2, <4>3 DEF Work, Placed, Steps
        <4>5. work' = [work EXCEPT ![t] = new]
          BY <3>3
        <4>6. new.outer <= Len(conns') /\ new.cur <= Len(conns')
          BY <1>type, <2>w, <3>2, <4>4
        <4> HIDE DEF new
        <4> QED
          BY <1>type, <3>2, <3>3, <4>4, <4>5, <4>6, WorkType DEF TypeInv, TypeOK
      <3>4. CASE w.outer # 0 /\ Go(t, "release") /\ UNCHANGED answers
        BY <1>type, <3>1, <3>2, <3>4, GoType DEF Steps, TypeInv, TypeOK
      <3>5. CASE Answer(t, "done")
        BY <1>type, <3>1, <3>2, <3>5, AnswerType DEF TypeInv, TypeOK
      <3> QED
        BY <2>7, <3>3, <3>4, <3>5 DEF Exit
    <2>8. ASSUME Release(t) PROVE TypeInv'
      <3>1. ~ At(t, "idle") /\ w.outer # 0 /\ Go(t, "settle")
            /\ UNCHANGED <<conns, committed, answers>>
        BY <2>8, <2>w DEF Release, At, Placed
      <3>2. held' \in [Handles -> 0..Len(conns)]
        <4>1. 0 \in 0..Len(conns)
          BY <1>type
        <4> QED
          BY <1>type, <2>8, <4>1 DEF Release
      <3> QED
        BY <1>type, <3>1, <3>2, GoType DEF Steps, TypeInv, TypeOK
    <2>9. ASSUME Settle(t) PROVE TypeInv'
      <3>1. w.outer \in Nat \ {0} /\ w.outer <= Len(conns) /\ ~ At(t, "idle")
        BY <1>type, <2>9, <2>w DEF Settle, Placed, At, Work
      <3>2. /\ committed' \in SUBSET Writes /\ conns' \in Seq(Connection)
            /\ Len(conns') = Len(conns) /\ UNCHANGED held
        BY <2>9, <3>1, CommitType DEF Settle
      <3>3. Answer(t, "raised") \/ Answer(t, "done")
        BY <2>9 DEF Settle
      <3> QED
        BY <1>type, <3>1, <3>2, <3>3, AnswerType DEF TypeInv, TypeOK
    <2> QED
      BY <1>step, <2>1, <2>2, <2>3, <2>4, <2>5, <2>6, <2>7, <2>8, <2>9
  <1> QED
    BY <1>stay, <1>step DEF Next

\* Whoever shares a handle, the handles, the connections and the operations
\* are what the code can hold: a thread is never on a connection it has not.
THEOREM StorageTypeCorrect == Spec => []TypeOK
  <1>1. TypeInv => TypeOK
    BY DEF TypeInv
  <1> QED
    BY <1>1, TypeInit, TypeStep, PTL DEF Spec

(***************************************************************************)
(* What the handle promises where no two threads share one, as the         *)
(* commands of the terminal do not.  A thread is then alone on the         *)
(* connections it opened, and what one of them has yet to commit is the    *)
(* writes of the thread's operation, up to the one it is at.               *)
(***************************************************************************)

\* Every thread's stores are built from a handle of its own.
Apart == \A t, u \in Threads : HandleOf[t] = HandleOf[u] => t = u

\* One step of a thread.
Step(t) ==
  \/ \E kind \in Kinds : Start(t, kind)
  \/ Test(t) \/ Open(t) \/ Begin(t) \/ Take(t) \/ Execute(t) \/ Exit(t)
  \/ Release(t) \/ Settle(t)

(***************************************************************************)
(* The inductive invariant.                                                *)
(***************************************************************************)

Bare(t) ==
  /\ work[t].outer = 0 /\ work[t].cur = 0 /\ Held(t) = 0
  /\ work[t].own = FALSE /\ work[t].raising = FALSE

\* The connection holds the first writes of the thread's operation.
HasFirst(t, c, n) ==
  /\ c # 0
  /\ conns[c].open = TRUE /\ conns[c].aborted = FALSE
  /\ conns[c].writes = {Op(t)} \X (1..n)

\* A statement of its own, or a transaction over the connection it holds.
Alone(t) ==
  /\ work[t].kind = "statement" /\ work[t].place = 1
  /\ work[t].outer = 0 /\ Held(t) = 0 /\ work[t].raising = FALSE

Within(t) ==
  /\ work[t].kind = "transaction" /\ work[t].outer # 0
  /\ work[t].own = FALSE /\ work[t].cur \in {0, work[t].outer}

Inside(t) == Within(t) /\ Held(t) = work[t].outer /\ work[t].raising = FALSE

Ending(t) ==
  Within(t) /\ (work[t].raising = TRUE \/ HasFirst(t, work[t].outer, Places))

ThreadInv(t) ==
  /\ At(t, "idle") => Bare(t)
  /\ At(t, "test") \/ At(t, "open") =>
       Bare(t) /\ work[t].kind = "transaction" /\ work[t].place = 1
  /\ At(t, "begin") =>
       \/ Alone(t) /\ Bare(t)
       \/ Inside(t) /\ HasFirst(t, work[t].outer, work[t].place - 1)
  /\ At(t, "take") =>
       Inside(t) /\ HasFirst(t, work[t].outer, work[t].place - 1)
  /\ At(t, "execute") =>
       \/ Alone(t) /\ work[t].own = TRUE /\ HasFirst(t, work[t].cur, 0)
       \/ /\ Inside(t) /\ work[t].cur = work[t].outer
          /\ HasFirst(t, work[t].outer, work[t].place - 1)
  /\ At(t, "exit") =>
       \/ Alone(t) /\ work[t].own = TRUE /\ HasFirst(t, work[t].cur, 1)
       \/ /\ Inside(t) /\ work[t].cur = work[t].outer
          /\ HasFirst(t, work[t].outer, work[t].place)
  /\ At(t, "release") => Ending(t) /\ Held(t) = work[t].outer
  /\ At(t, "settle") => Ending(t) /\ Held(t) = 0

\* No two threads are on one connection.
ApartInv ==
  \A t, u \in Threads : t # u =>
    {work[t].outer, work[t].cur} \cap {work[u].outer, work[u].cur} \subseteq {0}

\* The operations of a thread that ended: an operation is answered as it ends.
Ended(t) == IF At(t, "idle") THEN work[t].op ELSE work[t].op - 1

PendingInv ==
  \A op \in Ops : op[2] > Ended(op[1]) => answers[op] = "none"

IInv ==
  /\ TypeInv /\ ApartInv /\ PendingInv /\ AnswersSayWhatIsStored
  /\ \A t \in Threads : ThreadInv(t)

LEMMA ApartInit == Init => IInv
  <1> SUFFICES ASSUME Init PROVE IInv
    OBVIOUS
  <1>1. TypeInv
    BY TypeInit
  <1>2. ASSUME NEW t \in Threads
        PROVE  /\ work[t] = Idle(0) /\ HandleOf[t] \in Handles /\ ThreadInv(t)
               /\ Ended(t) = 0
    <2>1. work[t] = Idle(0) /\ HandleOf[t] \in Handles
      BY StorageAssumption DEF Init
    <2> QED
      BY <2>1 DEF Init, Idle, ThreadInv, At, Bare, Held, Ended
  <1>3. ApartInv
    BY <1>2 DEF ApartInv, Idle
  <1>4. PendingInv /\ AnswersSayWhatIsStored
    BY DEF Init, PendingInv, AnswersSayWhatIsStored
  <1> QED
    BY <1>1, <1>2, <1>3, <1>4 DEF IInv

(***************************************************************************)
(* What a step of one thread leaves to the others.                         *)
(***************************************************************************)

\* It moves no other thread and no other handle, and touches a connection only
\* where it is on it.
Leaves(t) ==
  /\ \A u \in Threads : u # t => work'[u] = work[u]
  /\ \A h \in Handles : h # HandleOf[t] => held'[h] = held[h]
  /\ \A c \in 1..Len(conns) :
       c \notin {work[t].outer, work[t].cur} => conns'[c] = conns[c]
  /\ {work'[t].outer, work'[t].cur}
       \subseteq {0, work[t].outer, work[t].cur, Len(conns) + 1}

\* So the others are as they were, on connections of their own.
LEMMA OthersKept ==
  ASSUME IInv, Apart, NEW t \in Threads, Leaves(t)
  PROVE  /\ \A u \in Threads : u # t => ThreadInv(u)'
         /\ ApartInv'
  <1> USE StorageAssumption
  <1>1. ASSUME NEW u \in Threads, u # t PROVE ThreadInv(u)'
    <2>1. work'[u] = work[u] /\ Held(u)' = Held(u) /\ Op(u)' = Op(u)
      <3>1. HandleOf[u] # HandleOf[t] /\ HandleOf[u] \in Handles
        BY <1>1 DEF Apart
      <3> QED
        BY <1>1, <3>1 DEF Leaves, Held, Op
    <2>2. ASSUME NEW c \in {work[u].outer, work[u].cur}, c # 0 PROVE conns'[c] = conns[c]
      <3>1. c \in 1..Len(conns)
        BY <2>2 DEF IInv, TypeInv, TypeOK, Work
      <3>2. c \notin {work[t].outer, work[t].cur}
        BY <1>1, <2>2 DEF IInv, ApartInv
      <3> QED
        BY <3>1, <3>2 DEF Leaves
    <2>3. ASSUME NEW c \in {work[u].outer, work[u].cur}, NEW n, HasFirst(u, c, n)
          PROVE  HasFirst(u, c, n)'
      BY <2>1, <2>2, <2>3 DEF HasFirst
    <2>4. ThreadInv(u)
      BY DEF IInv
    <2>5. Ending(u) => Ending(u)'
      BY <2>1, <2>3 DEF Ending, Within
    <2>6. /\ HasFirst(u, work[u].cur, 0) => HasFirst(u, work[u].cur, 0)'
          /\ HasFirst(u, work[u].cur, 1) => HasFirst(u, work[u].cur, 1)'
          /\ HasFirst(u, work[u].outer, work[u].place) => HasFirst(u, work[u].outer, work[u].place)'
          /\ HasFirst(u, work[u].outer, work[u].place - 1)
               => HasFirst(u, work[u].outer, work[u].place - 1)'
      BY <2>1, <2>2 DEF HasFirst
    <2> HIDE DEF HasFirst, Ending
    <2>7. /\ Bare(u)' = Bare(u) /\ Alone(u)' = Alone(u) /\ Inside(u)' = Inside(u)
      BY <2>1 DEF Bare, Alone, Inside, Within
    <2> QED
      BY <2>1, <2>4, <2>5, <2>6, <2>7 DEF ThreadInv, At
  <1>2. ApartInv'
    <2> SUFFICES ASSUME NEW u \in Threads, NEW v \in Threads, u # v
                 PROVE  ({work[u].outer, work[u].cur} \cap {work[v].outer, work[v].cur})'
                          \subseteq {0}
      BY DEF ApartInv
    <2>1. {work[u].outer, work[u].cur} \cap {work[v].outer, work[v].cur} \subseteq {0}
      BY DEF IInv, ApartInv
    <2>2. Len(conns) \in Nat
      BY DEF IInv, TypeInv, TypeOK
    <2>3. \A x \in Threads : /\ work[x].outer \in Nat /\ work[x].cur \in Nat
                             /\ work[x].outer <= Len(conns) /\ work[x].cur <= Len(conns)
      BY DEF IInv, TypeInv, TypeOK, Work
    <2>4. \A x \in Threads : work[x].outer # Len(conns) + 1 /\ work[x].cur # Len(conns) + 1
      <3> TAKE x \in Threads
      <3>1. work[x].outer \in Nat /\ work[x].cur \in Nat
            /\ work[x].outer <= Len(conns) /\ work[x].cur <= Len(conns)
        BY <2>3
      <3> QED
        BY <2>2, <3>1
    <2>5. CASE u # t /\ v # t
      BY <2>1, <2>5 DEF Leaves
    <2>6. CASE u = t
      <3>1. work'[v] = work[v]
        BY <2>6 DEF Leaves
      <3> QED
        BY <2>1, <2>4, <2>6, <3>1 DEF Leaves
    <2>7. CASE v = t
      <3>1. work'[u] = work[u]
        BY <2>7 DEF Leaves
      <3> QED
        BY <2>1, <2>4, <2>7, <3>1 DEF Leaves
    <2> QED
      BY <2>5, <2>6, <2>7
  <1> QED
    BY <1>1, <1>2

(***************************************************************************)
(* What a step answers and stores.                                         *)
(***************************************************************************)

\* Nothing, or all of an operation that ends, or an exception and nothing.
Outcome(t) ==
  \/ UNCHANGED <<committed, answers>> /\ Ended(t)' = Ended(t)
  \/ /\ ~ At(t, "idle") /\ Answer(t, "done")
     /\ committed' = committed \cup WritesOf(Op(t))
  \/ ~ At(t, "idle") /\ Answer(t, "raised") /\ UNCHANGED committed

\* What holds of a thread between two of its steps, by name.
LEMMA ThreadFacts ==
  ASSUME IInv, NEW t \in Threads
  PROVE  /\ TypeInv /\ work[t] \in Work /\ Placed(work[t]) /\ ThreadInv(t)
         /\ work[t].outer <= Len(conns) /\ work[t].cur <= Len(conns)
         /\ Len(conns) \in Nat /\ work \in [Threads -> Work]
         /\ held \in [Handles -> 0..Len(conns)] /\ HandleOf[t] \in Handles
  BY StorageAssumption DEF IInv, TypeInv, TypeOK

\* An operation that is answered ends its thread, which is on nothing then.
LEMMA AnswerKept ==
  ASSUME IInv, NEW t \in Threads, NEW answer, Answer(t, answer), Held(t)' = 0
  PROVE  /\ ThreadInv(t)'
         /\ \A u \in Threads : u # t => work'[u] = work[u]
         /\ work'[t].outer = 0 /\ work'[t].cur = 0 /\ work'[t].step = "idle"
         /\ work'[t].op = work[t].op
  <1>1. work' = [work EXCEPT ![t] = Idle(work[t].op)] /\ work \in [Threads -> Work]
    BY ThreadFacts DEF Answer
  <1>2. work'[t] = Idle(work[t].op) /\ \A u \in Threads : u # t => work'[u] = work[u]
    BY <1>1
  <1> QED
    BY <1>2 DEF Idle, ThreadInv, At, Bare

\* The steps that open nothing, end nothing and leave the connections alone.
LEMMA QuietKept ==
  ASSUME IInv, NEW t \in Threads,
         (\E kind \in Kinds : Start(t, kind)) \/ Test(t) \/ Release(t)
           \/ (Begin(t) /\ Held(t) # 0)
  PROVE  Leaves(t) /\ ThreadInv(t)' /\ Outcome(t)
  <1>0. /\ TypeInv /\ work[t] \in Work /\ Placed(work[t]) /\ ThreadInv(t)
        /\ Len(conns) \in Nat /\ work \in [Threads -> Work]
        /\ held \in [Handles -> 0..Len(conns)] /\ HandleOf[t] \in Handles
    BY ThreadFacts
  <1>1. ASSUME NEW kind \in Kinds, Start(t, kind)
        PROVE  Leaves(t) /\ ThreadInv(t)' /\ Outcome(t)
    <2> DEFINE first == IF kind = "transaction" THEN "test" ELSE "begin"
               new == [Idle(work[t].op + 1) EXCEPT !.kind = kind, !.place = 1,
                         !.step = first]
    <2>1. work' = [work EXCEPT ![t] = new]
          /\ UNCHANGED <<held, conns, committed, answers>> /\ At(t, "idle")
      BY <1>1 DEF Start
    <2>2. /\ new.kind = kind /\ new.place = 1 /\ new.step = first /\ new.outer = 0
          /\ new.cur = 0 /\ new.own = FALSE /\ new.raising = FALSE /\ new.op = work[t].op + 1
      BY DEF Idle
    <2> HIDE DEF new
    <2>3. work'[t] = new /\ \A u \in Threads : u # t => work'[u] = work[u]
      BY <1>0, <2>1
    <2>4. Leaves(t)
      BY <2>1, <2>2, <2>3 DEF Leaves
    <2>5. ThreadInv(t)'
      BY <1>0, <2>1, <2>2, <2>3 DEF ThreadInv, At, Bare, Alone, Held, Kinds
    <2>6. Ended(t)' = Ended(t)
      <3>1. work'[t].step # "idle" /\ work'[t].op = work[t].op + 1 /\ work[t].step = "idle"
        BY <2>1, <2>2, <2>3 DEF At
      <3>2. work[t].op \in Nat
        BY <1>0, StorageAssumption DEF Work
      <3> QED
        BY <3>1, <3>2 DEF Ended, At
    <2> QED
      BY <2>1, <2>4, <2>5, <2>6 DEF Outcome
  <1>2. CASE Test(t)
    <2>1. work' = [work EXCEPT ![t].step = "open"]
          /\ UNCHANGED <<held, conns, committed, answers>> /\ At(t, "test")
      BY <1>0, <1>2 DEF Test, Go, ThreadInv, Bare
    <2>2. work'[t] = [work[t] EXCEPT !.step = "open"]
          /\ \A u \in Threads : u # t => work'[u] = work[u]
      BY <1>0, <2>1
    <2>3. ThreadInv(t)'
      BY <1>0, <2>1, <2>2 DEF ThreadInv, At, Bare, Held, Work
    <2> QED
      BY <1>0, <2>1, <2>2, <2>3 DEF Leaves, Outcome, Ended, At, Work
  <1>3. CASE Release(t)
    <2>1. work' = [work EXCEPT ![t].step = "settle"] /\ held' = [held EXCEPT ![HandleOf[t]] = 0]
          /\ UNCHANGED <<conns, committed, answers>> /\ At(t, "release")
      BY <1>3 DEF Release, Go
    <2>2. work'[t] = [work[t] EXCEPT !.step = "settle"]
          /\ \A u \in Threads : u # t => work'[u] = work[u]
      BY <1>0, <2>1
    <2>3. Held(t)' = 0 /\ \A h \in Handles : h # HandleOf[t] => held'[h] = held[h]
      BY <1>0, <2>1 DEF Held
    <2>4. Op(t)' = Op(t) /\ Ending(t)
      BY <1>0, <2>1, <2>2 DEF Op, ThreadInv, At, Work
    <2>5. Ending(t)'
      BY <1>0, <2>1, <2>2, <2>4 DEF Ending, Within, HasFirst, Work
    <2>6. ThreadInv(t)'
      BY <1>0, <2>2, <2>3, <2>5 DEF ThreadInv, At, Work
    <2> QED
      BY <1>0, <2>1, <2>2, <2>3, <2>6 DEF Leaves, Outcome, Ended, At, Work
  <1>4. CASE Begin(t) /\ Held(t) # 0
    <2>1. work' = [work EXCEPT ![t].step = "take"]
          /\ UNCHANGED <<held, conns, committed, answers>> /\ At(t, "begin")
      BY <1>4 DEF Begin, Go
    <2>2. work'[t] = [work[t] EXCEPT !.step = "take"]
          /\ \A u \in Threads : u # t => work'[u] = work[u]
      BY <1>0, <2>1
    <2>3. Op(t)' = Op(t) /\ Inside(t) /\ HasFirst(t, work[t].outer, work[t].place - 1)
      BY <1>0, <1>4, <2>1, <2>2 DEF Op, ThreadInv, Alone, At, Work
    <2>4. Inside(t)' /\ HasFirst(t, work[t].outer, work[t].place - 1)'
      BY <1>0, <2>1, <2>2, <2>3 DEF Inside, Within, HasFirst, Held, Work
    <2>5. ThreadInv(t)'
      BY <1>0, <2>2, <2>4 DEF ThreadInv, At, Work
    <2> QED
      BY <1>0, <2>1, <2>2, <2>5 DEF Leaves, Outcome, Ended, At, Work
  <1> QED
    BY <1>1, <1>2, <1>3, <1>4

\* The steps that open a connection: the transaction's, or a statement's own.
LEMMA OpenKept ==
  ASSUME IInv, NEW t \in Threads, Open(t) \/ (Begin(t) /\ Held(t) = 0)
  PROVE  Leaves(t) /\ ThreadInv(t)' /\ Outcome(t)
  <1> DEFINE c == Len(conns) + 1
  <1>0. /\ TypeInv /\ work[t] \in Work /\ Placed(work[t]) /\ ThreadInv(t)
        /\ Len(conns) \in Nat /\ work \in [Threads -> Work]
        /\ held \in [Handles -> 0..Len(conns)] /\ HandleOf[t] \in Handles
    BY ThreadFacts
  <1>1. conns' = Append(conns, Opened)
    BY DEF Open, Begin, Go
  <1>2. /\ Len(conns') = c /\ conns'[c] = Opened /\ c # 0
        /\ \A d \in 1..Len(conns) : conns'[d] = conns[d]
    BY <1>0, <1>1, ConnsAdded
  <1> HIDE DEF c
  <1>3. ASSUME NEW op PROVE {op} \X (1..0) = {}
    OBVIOUS
  <1>4. conns'[c].open = TRUE /\ conns'[c].aborted = FALSE /\ conns'[c].writes = {Op(t)'} \X (1..0)
    BY <1>2, <1>3 DEF Opened
  <1>5. CASE Open(t)
    <2>1. /\ work' = [work EXCEPT ![t].step = "begin", ![t].outer = c]
          /\ held' = [held EXCEPT ![HandleOf[t]] = c]
          /\ UNCHANGED <<committed, answers>> /\ At(t, "open")
      BY <1>2, <1>5 DEF Open
    <2>2. work'[t] = [work[t] EXCEPT !.step = "begin", !.outer = c]
          /\ \A u \in Threads : u # t => work'[u] = work[u]
      BY <1>0, <2>1
    <2>3. Held(t)' = c /\ \A h \in Handles : h # HandleOf[t] => held'[h] = held[h]
      BY <1>0, <2>1 DEF Held
    <2>4. Bare(t) /\ work[t].kind = "transaction" /\ work[t].place = 1
      BY <1>0, <2>1 DEF ThreadInv
    <2>5. /\ work'[t].kind = "transaction" /\ work'[t].place = 1 /\ work'[t].outer = c
          /\ work'[t].cur = 0 /\ work'[t].own = FALSE /\ work'[t].raising = FALSE
          /\ work'[t].step = "begin" /\ work'[t].op = work[t].op
      BY <1>0, <2>2, <2>4 DEF Bare, Work
    <2>6. Inside(t)' /\ HasFirst(t, work[t].outer, work[t].place - 1)'
      BY <1>2, <1>4, <2>3, <2>5 DEF Inside, Within, HasFirst
    <2>7. ThreadInv(t)'
      BY <2>5, <2>6 DEF ThreadInv, At
    <2>8. Leaves(t)
      BY <1>2, <2>2, <2>3, <2>5 DEF Leaves, c
    <2> QED
      BY <2>1, <2>5, <2>7, <2>8 DEF Outcome, Ended, At
  <1>6. CASE Begin(t) /\ Held(t) = 0
    <2>1. /\ work' = [work EXCEPT ![t].step = "execute", ![t].cur = c, ![t].own = TRUE]
          /\ UNCHANGED <<held, committed, answers>> /\ At(t, "begin")
      BY <1>2, <1>6 DEF Begin
    <2>2. work'[t] = [work[t] EXCEPT !.step = "execute", !.cur = c, !.own = TRUE]
          /\ \A u \in Threads : u # t => work'[u] = work[u]
      BY <1>0, <2>1
    <2>3. Alone(t) /\ Bare(t)
      BY <1>0, <1>6, <2>1 DEF ThreadInv, Inside, Within
    <2>4. /\ work'[t].kind = "statement" /\ work'[t].place = 1 /\ work'[t].outer = 0
          /\ work'[t].cur = c /\ work'[t].own = TRUE /\ work'[t].raising = FALSE
          /\ work'[t].step = "execute" /\ work'[t].op = work[t].op /\ Held(t)' = 0
      BY <1>0, <2>1, <2>2, <2>3 DEF Alone, Bare, Held, Work
    <2>5. Alone(t)' /\ HasFirst(t, work[t].cur, 0)'
      BY <1>2, <1>4, <2>4 DEF Alone, HasFirst
    <2>6. ThreadInv(t)'
      BY <2>4, <2>5 DEF ThreadInv, At
    <2>7. Leaves(t)
      BY <1>2, <2>1, <2>2, <2>4 DEF Leaves, c
    <2> QED
      BY <2>1, <2>4, <2>6, <2>7 DEF Outcome, Ended, At
  <1> QED
    BY <1>5, <1>6

\* A statement that joins the transaction finds its connection still held.
LEMMA TakeKept ==
  ASSUME IInv, NEW t \in Threads, Take(t)
  PROVE  Leaves(t) /\ ThreadInv(t)' /\ Outcome(t)
  <1>0. /\ TypeInv /\ work[t] \in Work /\ Placed(work[t]) /\ ThreadInv(t)
        /\ Len(conns) \in Nat /\ work \in [Threads -> Work]
        /\ held \in [Handles -> 0..Len(conns)] /\ HandleOf[t] \in Handles
    BY ThreadFacts
  <1>1. Inside(t) /\ HasFirst(t, work[t].outer, work[t].place - 1) /\ At(t, "take")
    BY <1>0 DEF Take, ThreadInv
  <1>2. Held(t) # 0 /\ Held(t) = work[t].outer
    BY <1>1 DEF Inside, Within
  <1>3. /\ work' = [work EXCEPT ![t].step = "execute", ![t].cur = Held(t), ![t].own = FALSE]
        /\ UNCHANGED <<held, conns, committed, answers>>
    BY <1>2 DEF Take
  <1>4. work'[t] = [work[t] EXCEPT !.step = "execute", !.cur = Held(t), !.own = FALSE]
        /\ \A u \in Threads : u # t => work'[u] = work[u]
    BY <1>0, <1>3
  <1>5. Op(t)' = Op(t)
    BY <1>0, <1>4 DEF Op, Work
  <1>6. Inside(t)' /\ HasFirst(t, work[t].outer, work[t].place - 1)'
    BY <1>0, <1>1, <1>2, <1>3, <1>4, <1>5 DEF Inside, Within, HasFirst, Held, Work
  <1>7. ThreadInv(t)'
    BY <1>0, <1>2, <1>4, <1>6 DEF ThreadInv, At, Work
  <1> QED
    BY <1>0, <1>1, <1>2, <1>3, <1>4, <1>7 DEF Leaves, Outcome, Ended, At, Work

\* A statement adds the next write of its operation, or fails.
LEMMA ExecuteKept ==
  ASSUME IInv, NEW t \in Threads, Execute(t)
  PROVE  Leaves(t) /\ ThreadInv(t)' /\ Outcome(t)
  <1> DEFINE c == work[t].cur
             n == work[t].place
  <1>0. /\ TypeInv /\ work[t] \in Work /\ Placed(work[t]) /\ ThreadInv(t)
        /\ Len(conns) \in Nat /\ work \in [Threads -> Work] /\ c <= Len(conns)
        /\ held \in [Handles -> 0..Len(conns)] /\ HandleOf[t] \in Handles
    BY ThreadFacts
  <1>1. At(t, "execute") /\ UNCHANGED <<held, committed>> /\ c \in Nat \ {0}
        /\ n \in Nat /\ n >= 1
    <2>1. At(t, "execute") /\ UNCHANGED <<held, committed>>
      BY DEF Execute
    <2>2. Count(work[t].kind) \in Nat
      BY <1>0, CountType DEF Work
    <2> QED
      BY <1>0, <2>1, <2>2 DEF Placed, At, Work
  <1>2. conns[c] \in Connection /\ conns \in Seq(Connection)
    BY <1>0, <1>1 DEF TypeInv, TypeOK
  <1>3. \/ Alone(t) /\ work[t].own = TRUE /\ HasFirst(t, c, 0)
        \/ Inside(t) /\ c = work[t].outer /\ HasFirst(t, c, n - 1)
    BY <1>0, <1>1 DEF ThreadInv
  <1>4. HasFirst(t, c, n - 1)
    BY <1>3 DEF Alone
  <1>5. CASE /\ conns' = [conns EXCEPT ![c].writes = @ \cup {<<Op(t), n>>}]
             /\ Go(t, "exit") /\ UNCHANGED answers
    <2> DEFINE e == [conns[c] EXCEPT !.writes = conns[c].writes \cup {<<Op(t), n>>}]
    <2>1. conns'[c] = e /\ \A d \in 1..Len(conns) : d # c => conns'[d] = conns[d]
      <3>1. conns \in [1..Len(conns) -> Connection] /\ conns' = [conns EXCEPT ![c] = e]
        BY <1>2, <1>5, LenProperties
      <3> HIDE DEF e
      <3> QED
        BY <1>0, <1>1, <3>1
    <2>2. e.open = TRUE /\ e.aborted = FALSE /\ e.writes = {Op(t)} \X (1..n)
      <3>1. (1..n - 1) \cup {n} = 1..n
        BY <1>1
      <3>2. ({Op(t)} \X (1..n - 1)) \cup {<<Op(t), n>>} = {Op(t)} \X (1..n)
        BY <3>1
      <3> QED
        BY <1>2, <1>4, <3>2 DEF HasFirst, Connection
    <2> HIDE DEF e
    <2>3. work'[t] = [work[t] EXCEPT !.step = "exit"]
          /\ \A u \in Threads : u # t => work'[u] = work[u]
      BY <1>0, <1>5 DEF Go
    <2>4. Op(t)' = Op(t) /\ Held(t)' = Held(t)
      BY <1>0, <1>1, <2>3 DEF Op, Held, Work
    <2>5. HasFirst(t, work[t].cur, work[t].place)'
      BY <1>0, <1>1, <2>1, <2>2, <2>3, <2>4 DEF HasFirst, Work
    <2>6. ThreadInv(t)'
      <3>1. CASE Alone(t) /\ work[t].own = TRUE
        <4>1. Alone(t)' /\ work'[t].own = TRUE /\ work'[t].place = 1
          BY <1>0, <2>3, <2>4, <3>1 DEF Alone, Work
        <4> QED
          BY <1>0, <2>3, <2>5, <4>1 DEF ThreadInv, At, Work
      <3>2. CASE Inside(t) /\ c = work[t].outer
        <4>1. Inside(t)' /\ work'[t].cur = work'[t].outer
          BY <1>0, <2>3, <2>4, <3>2 DEF Inside, Within, Work
        <4> QED
          BY <1>0, <2>3, <2>5, <4>1 DEF ThreadInv, At, Work
      <3> QED
        BY <1>3, <3>1, <3>2
    <2> QED
      BY <1>0, <1>1, <1>5, <2>1, <2>3, <2>6 DEF Leaves, Outcome, Ended, At, Work
  <1>6. CASE /\ conns' = [conns EXCEPT ![c].aborted = @ \/ conns[c].open,
                                       ![c].open = @ /\ ~ work[t].own]
             /\ Raise(t)
    <2>1. \A d \in 1..Len(conns) : d # c => conns'[d] = conns[d]
      BY <1>0, <1>2, <1>6
    <2>2. CASE Alone(t)
      <3>1. Answer(t, "raised") /\ Held(t)' = 0
        BY <1>1, <1>6, <2>2 DEF Raise, Alone, Held
      <3>2. /\ ThreadInv(t)' /\ work'[t].outer = 0 /\ work'[t].cur = 0
            /\ \A u \in Threads : u # t => work'[u] = work[u]
        BY <3>1, AnswerKept
      <3> QED
        BY <1>1, <2>1, <3>1, <3>2 DEF Leaves, Outcome, At
    <2>3. CASE Inside(t) /\ c = work[t].outer
      <3>1. work' = [work EXCEPT ![t].step = "release", ![t].raising = TRUE]
            /\ UNCHANGED answers
        BY <1>6, <2>3 DEF Raise, Inside, Within
      <3>2. work'[t] = [work[t] EXCEPT !.step = "release", !.raising = TRUE]
            /\ \A u \in Threads : u # t => work'[u] = work[u]
        BY <1>0, <3>1
      <3>3. Ending(t)' /\ Held(t)' = Held(t)
        BY <1>0, <1>1, <2>3, <3>2 DEF Ending, Inside, Within, Held, Work
      <3>4. ThreadInv(t)'
        BY <1>0, <2>3, <3>2, <3>3 DEF ThreadInv, At, Inside, Work
      <3> QED
        BY <1>0, <1>1, <2>1, <3>1, <3>2, <3>4 DEF Leaves, Outcome, Ended, At, Work
    <2> QED
      BY <1>3, <2>2, <2>3
  <1> QED
    BY <1>5, <1>6 DEF Execute

\* The block of a statement ends: its own connection commits and the operation
\* is answered, or the transaction goes on to its next write or its end.
LEMMA ExitKept ==
  ASSUME IInv, NEW t \in Threads, Exit(t)
  PROVE  Leaves(t) /\ ThreadInv(t)' /\ Outcome(t)
  <1> DEFINE c == work[t].cur
             n == work[t].place
  <1>0. /\ TypeInv /\ work[t] \in Work /\ Placed(work[t]) /\ ThreadInv(t)
        /\ Len(conns) \in Nat /\ work \in [Threads -> Work] /\ c <= Len(conns)
        /\ held \in [Handles -> 0..Len(conns)] /\ HandleOf[t] \in Handles
    BY ThreadFacts
  <1>1. At(t, "exit") /\ UNCHANGED held /\ c \in Nat \ {0} /\ n \in Nat
    BY <1>0 DEF Exit, At, Placed, Work
  <1>2. CASE Alone(t) /\ work[t].own = TRUE /\ HasFirst(t, c, 1)
    <2>1. Commit(c) /\ Answer(t, "done") /\ Held(t)' = 0
      BY <1>1, <1>2 DEF Exit, Alone, Count, Held
    <2>2. committed' = committed \cup WritesOf(Op(t))
      <3>1. WritesOf(Op(t)) = {Op(t)} \X (1..1)
        BY <1>2 DEF Alone, WritesOf, Count, Op
      <3> QED
        BY <1>2, <2>1, <3>1 DEF Commit, HasFirst
    <2>3. /\ ThreadInv(t)' /\ work'[t].outer = 0 /\ work'[t].cur = 0
          /\ \A u \in Threads : u # t => work'[u] = work[u]
      BY <2>1, AnswerKept
    <2>4. \A d \in 1..Len(conns) : d # c => conns'[d] = conns[d]
      BY <1>0, <1>1, <2>1, CommitType
    <2> QED
      BY <1>1, <2>1, <2>2, <2>3, <2>4 DEF Leaves, Outcome, At
  <1>3. CASE Inside(t) /\ c = work[t].outer /\ HasFirst(t, c, n)
    <2>1. UNCHANGED <<conns, committed, answers>> /\ work[t].outer # 0
          /\ work[t].kind = "transaction"
      BY <1>3 DEF Exit, Inside, Within
    <2>2. CASE n = Places
      <3>1. Go(t, "release")
        BY <2>1, <2>2 DEF Exit, Count
      <3>2. work'[t] = [work[t] EXCEPT !.step = "release"]
            /\ \A u \in Threads : u # t => work'[u] = work[u]
        BY <1>0, <3>1 DEF Go
      <3>3. Op(t)' = Op(t) /\ Held(t)' = Held(t)
        BY <1>0, <1>1, <3>2 DEF Op, Held, Work
      <3>4. HasFirst(t, work[t].outer, Places)' /\ Within(t)'
        BY <1>0, <1>3, <2>1, <2>2, <3>2, <3>3 DEF HasFirst, Inside, Within, Work
      <3>5. ThreadInv(t)'
        BY <1>0, <1>3, <3>2, <3>3, <3>4 DEF ThreadInv, At, Ending, Inside, Work
      <3> QED
        BY <1>0, <1>1, <2>1, <3>2, <3>5 DEF Leaves, Outcome, Ended, At, Work
    <2>3. CASE n # Places
      <3>1. work' = [work EXCEPT ![t].step = "begin", ![t].place = @ + 1,
                                 ![t].cur = 0, ![t].own = FALSE]
        BY <2>1, <2>3 DEF Exit, Count
      <3>2. work'[t] = [work[t] EXCEPT !.step = "begin", !.place = n + 1,
                                       !.cur = 0, !.own = FALSE]
            /\ \A u \in Threads : u # t => work'[u] = work[u]
        BY <1>0, <3>1
      <3>3. /\ Op(t)' = Op(t) /\ Held(t)' = Held(t) /\ work'[t].place - 1 = n
            /\ work'[t].cur = 0 /\ work'[t].outer = c /\ work'[t].step = "begin"
            /\ work'[t].op = work[t].op
        BY <1>0, <1>1, <1>3, <3>2 DEF Op, Held, Work
      <3>4. HasFirst(t, work[t].outer, work[t].place - 1)'
        BY <1>3, <2>1, <3>3 DEF HasFirst
      <3>5. Inside(t)'
        BY <1>0, <1>3, <3>2, <3>3 DEF Inside, Within, Work
      <3>6. ThreadInv(t)'
        BY <3>3, <3>4, <3>5 DEF ThreadInv, At
      <3> QED
        BY <1>1, <1>3, <2>1, <3>2, <3>3, <3>6 DEF Leaves, Outcome, Ended, At
    <2> QED
      BY <2>2, <2>3
  <1> QED
    BY <1>0, <1>1, <1>2, <1>3 DEF ThreadInv

\* A transaction ends: it commits every write of its operation, or none.
LEMMA SettleKept ==
  ASSUME IInv, NEW t \in Threads, Settle(t)
  PROVE  Leaves(t) /\ ThreadInv(t)' /\ Outcome(t)
  <1> DEFINE c == work[t].outer
  <1>0. /\ TypeInv /\ work[t] \in Work /\ Placed(work[t]) /\ ThreadInv(t)
        /\ Len(conns) \in Nat /\ work \in [Threads -> Work] /\ c <= Len(conns)
    BY ThreadFacts
  <1>1. /\ At(t, "settle") /\ UNCHANGED held /\ c \in Nat \ {0}
        /\ Ending(t) /\ Held(t) = 0 /\ Held(t)' = 0
    BY <1>0 DEF Settle, At, Placed, ThreadInv, Held, Work
  <1>2. \E answer \in {"done", "raised"} : Answer(t, answer)
    BY DEF Settle
  <1>3. /\ ThreadInv(t)' /\ work'[t].outer = 0 /\ work'[t].cur = 0
        /\ \A u \in Threads : u # t => work'[u] = work[u]
    BY <1>1, <1>2, AnswerKept
  <1>4. \A d \in 1..Len(conns) : d # c => conns'[d] = conns[d]
    BY <1>0, <1>1, CommitType DEF Settle
  <1>5. Leaves(t)
    BY <1>1, <1>3, <1>4 DEF Leaves
  <1>6. Outcome(t)
    <2>1. CASE work[t].raising
      BY <1>1, <2>1 DEF Settle, Outcome, Rollback, At
    <2>2. CASE ~ work[t].raising
      <3>1. Commit(c) /\ Answer(t, "done") /\ HasFirst(t, c, Places)
        BY <1>1, <2>2 DEF Settle, Ending
      <3>2. WritesOf(Op(t)) = {Op(t)} \X (1..Places)
        BY <1>1 DEF Ending, Within, WritesOf, Count, Op
      <3> QED
        BY <1>1, <3>1, <3>2 DEF Outcome, Commit, HasFirst, At
    <2> QED
      BY <2>1, <2>2
  <1> QED
    BY <1>3, <1>5, <1>6

LEMMA StepKept ==
  ASSUME IInv, NEW t \in Threads, Step(t)
  PROVE  Leaves(t) /\ ThreadInv(t)' /\ Outcome(t)
  BY QuietKept, OpenKept, TakeKept, ExecuteKept, ExitKept, SettleKept DEF Step, Begin

(***************************************************************************)
(* The invariant is kept, and what it says of the answers.                 *)
(***************************************************************************)

\* The operation a thread is in has not been answered.
LEMMA NotAnswered ==
  ASSUME IInv, NEW t \in Threads, ~ At(t, "idle")
  PROVE  Op(t) \in Ops /\ Op(t)[1] = t /\ Op(t)[2] = work[t].op /\ answers[Op(t)] = "none"
  <1>1. /\ Op(t) \in Ops /\ Op(t)[1] = t /\ Op(t)[2] = work[t].op /\ work[t].op \in Nat
    BY OpType, ThreadFacts, StorageAssumption DEF Work
  <1>2. Op(t)[2] > Ended(t)
    BY <1>1 DEF Ended
  <1> QED
    BY <1>1, <1>2 DEF IInv, PendingInv

LEMMA OutcomeKept ==
  ASSUME IInv, NEW t \in Threads, Leaves(t), Outcome(t)
  PROVE  PendingInv' /\ AnswersSayWhatIsStored'
  <1>0. /\ \A u \in Threads : u # t => Ended(u)' = Ended(u)
        /\ answers \in [Ops -> {"none", "done", "raised"}]
        /\ \A op \in Ops : op[1] \in Threads /\ op[2] \in Nat
        /\ PendingInv /\ AnswersSayWhatIsStored /\ MaxOps \in Nat
    BY StorageAssumption DEF Leaves, Ended, At, IInv, TypeInv, TypeOK, Ops
  <1>1. CASE UNCHANGED <<committed, answers>> /\ Ended(t)' = Ended(t)
    <2>1. \A u \in Threads : Ended(u)' = Ended(u)
      BY <1>0, <1>1
    <2>2. PendingInv'
      BY <1>0, <1>1, <2>1 DEF PendingInv
    <2>3. AnswersSayWhatIsStored'
      BY <1>0, <1>1 DEF AnswersSayWhatIsStored
    <2> QED
      BY <2>2, <2>3
  <1>2. ASSUME NEW answer \in {"done", "raised"}, ~ At(t, "idle"), Answer(t, answer),
               committed' = IF answer = "done" THEN committed \cup WritesOf(Op(t))
                            ELSE committed
        PROVE  PendingInv' /\ AnswersSayWhatIsStored'
    <2>1. /\ Op(t) \in Ops /\ Op(t)[1] = t /\ Op(t)[2] = work[t].op
          /\ answers[Op(t)] = "none"
      BY <1>2, NotAnswered
    <2>2. /\ work[t].op \in Nat /\ Ended(t) = work[t].op - 1 /\ Ended(t)' = work[t].op
      <3>1. work[t] \in Work /\ work \in [Threads -> Work]
        BY ThreadFacts
      <3>2. work'[t] = Idle(work[t].op)
        BY <1>2, <3>1 DEF Answer
      <3> QED
        BY <1>2, <3>1, <3>2, StorageAssumption DEF Ended, At, Idle, Work
    <2>3. /\ answers'[Op(t)] = answer
          /\ \A op \in Ops : op # Op(t) => answers'[op] = answers[op]
      BY <1>0, <1>2, <2>1 DEF Answer
    <2>4. PendingInv'
      <3> SUFFICES ASSUME NEW op \in Ops, op[2] > Ended(op[1])' PROVE answers'[op] = "none"
        BY DEF PendingInv
      <3>1. CASE op[1] = t
        <4>1. op[2] > work[t].op /\ op[2] > Ended(t)
          BY <1>0, <2>2, <3>1
        <4>2. op # Op(t)
          BY <2>1, <2>2, <4>1
        <4> QED
          BY <1>0, <2>3, <3>1, <4>1, <4>2 DEF PendingInv
      <3>2. CASE op[1] # t
        <4>1. op # Op(t) /\ op[2] > Ended(op[1])
          BY <1>0, <2>1, <3>2
        <4> QED
          BY <1>0, <2>3, <4>1 DEF PendingInv
      <3> QED
        BY <3>1, <3>2
    <2>5. AnswersSayWhatIsStored'
      <3> SUFFICES ASSUME NEW op \in Ops
                   PROVE  IF answers'[op] = "done" THEN WritesOf(op) \subseteq committed'
                                                   ELSE WritesOf(op) \cap committed' = {}
        BY DEF AnswersSayWhatIsStored
      <3>1. IF answers[op] = "done" THEN WritesOf(op) \subseteq committed
                                    ELSE WritesOf(op) \cap committed = {}
        BY <1>0 DEF AnswersSayWhatIsStored
      <3>2. CASE op = Op(t)
        BY <1>2, <2>1, <2>3, <3>1, <3>2
      <3>3. CASE op # Op(t)
        <4>1. WritesOf(op) \cap WritesOf(Op(t)) = {}
          BY <3>3 DEF WritesOf
        <4> QED
          BY <1>2, <2>3, <3>1, <3>3, <4>1
      <3> QED
        BY <3>2, <3>3
    <2> QED
      BY <2>4, <2>5
  <1>3. CASE /\ ~ At(t, "idle") /\ Answer(t, "done")
             /\ committed' = committed \cup WritesOf(Op(t))
    BY <1>2, <1>3
  <1>4. CASE ~ At(t, "idle") /\ Answer(t, "raised") /\ UNCHANGED committed
    BY <1>2, <1>4
  <1> QED
    BY <1>1, <1>3, <1>4 DEF Outcome

LEMMA ApartStep ==
  ASSUME Apart, IInv, [Next]_vars
  PROVE  IInv'
  <1>1. TypeInv'
    BY TypeStep DEF IInv
  <1>2. CASE UNCHANGED vars
    <2>1. ApartInv' /\ PendingInv' /\ AnswersSayWhatIsStored'
      BY <1>2 DEF IInv, ApartInv, PendingInv, AnswersSayWhatIsStored, Ended, At, vars
    <2>2. ASSUME NEW t \in Threads PROVE ThreadInv(t)'
      BY <1>2 DEF IInv, vars, ThreadInv, At, Bare, Alone, Within, Inside, Ending,
                  HasFirst, Held, Op
    <2> QED
      BY <1>1, <2>1, <2>2 DEF IInv
  <1>3. ASSUME NEW t \in Threads, Step(t) PROVE IInv'
    <2>1. Leaves(t) /\ ThreadInv(t)' /\ Outcome(t)
      BY <1>3, StepKept
    <2>2. ApartInv' /\ \A u \in Threads : u # t => ThreadInv(u)'
      BY <2>1, OthersKept
    <2>3. PendingInv' /\ AnswersSayWhatIsStored'
      BY <2>1, OutcomeKept
    <2> QED
      BY <1>1, <2>1, <2>2, <2>3 DEF IInv
  <1> QED
    BY <1>2, <1>3 DEF Next, Step

(***************************************************************************)
(* The theorems.                                                           *)
(***************************************************************************)

\* Where every thread has a handle of its own, an operation that was answered
\* has every one of its writes stored, and one that raised or still runs none:
\* what `transaction` and `begin` do to a handle never mixes two operations.
THEOREM AnswersAlwaysStored == Apart => (Spec => []AnswersSayWhatIsStored)
  <1> SUFFICES ASSUME Apart PROVE Spec => []AnswersSayWhatIsStored
    OBVIOUS
  <1>1. IInv /\ [Next]_vars => IInv'
    BY ApartStep
  <1>2. IInv => AnswersSayWhatIsStored
    BY DEF IInv
  <1> QED
    BY <1>1, <1>2, ApartInit, PTL DEF Spec

\* Every write inside a transaction commits together or not at all.
THEOREM AlwaysCommitsTogether == Apart => (Spec => []CommitsTogether)
  <1> SUFFICES ASSUME Apart PROVE Spec => []CommitsTogether
    OBVIOUS
  <1>1. IInv /\ [Next]_vars => IInv'
    BY ApartStep
  <1>2. IInv => CommitsTogether
    BY DEF IInv, AnswersSayWhatIsStored, CommitsTogether
  <1> QED
    BY <1>1, <1>2, ApartInit, PTL DEF Spec

\* The handle implements the promise: seen from the database and the answers,
\* an operation stores all its writes and is answered in one step, or raises.
THEOREM HandleKeepsPromise == Apart => (Spec => KeepsPromise)
  <1> SUFFICES ASSUME Apart PROVE Spec => KeepsPromise
    OBVIOUS
  <1>1. IInv /\ [Next]_vars => IInv'
    BY ApartStep
  <1>2. Init => Promise!Init
    BY DEF Init, Promise!Init
  <1>3. IInv /\ [Next]_vars => [Promise!Next]_(Promise!vars)
    <2> SUFFICES ASSUME IInv, [Next]_vars PROVE [Promise!Next]_(Promise!vars)
      OBVIOUS
    <2>1. CASE UNCHANGED vars
      BY <2>1 DEF vars, Promise!vars
    <2>2. ASSUME NEW t \in Threads, Step(t) PROVE [Promise!Next]_(Promise!vars)
      <3>1. Outcome(t)
        BY <2>2, StepKept
      <3>2. CASE UNCHANGED <<committed, answers>>
        BY <3>2 DEF Promise!vars
      <3>3. CASE /\ ~ At(t, "idle") /\ Answer(t, "done")
                 /\ committed' = committed \cup WritesOf(Op(t))
        <4>1. Promise!Done(Op(t)) /\ Op(t) \in Ops
          BY <3>3, NotAnswered DEF Promise!Done, Answer
        <4> QED
          BY <4>1 DEF Promise!Next
      <3>4. CASE ~ At(t, "idle") /\ Answer(t, "raised") /\ UNCHANGED committed
        <4>1. Promise!Raised(Op(t)) /\ Op(t) \in Ops
          BY <3>4, NotAnswered DEF Promise!Raised, Answer
        <4> QED
          BY <4>1 DEF Promise!Next
      <3> QED
        BY <3>1, <3>2, <3>3, <3>4 DEF Outcome
    <2> QED
      BY <2>1, <2>2 DEF Next, Step
  <1> QED
    BY <1>1, <1>2, <1>3, ApartInit, PTL DEF Spec, KeepsPromise, Promise!Spec
=============================================================================
