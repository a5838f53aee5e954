------------------------------- MODULE Storage -------------------------------
(***************************************************************************)
(* The database handle every store is built from (`Database`, storage.py)  *)
(* and the connections it opens.  A store's statement runs on a connection *)
(* of its own, or joins the one of the transaction its handle holds.       *)
(*                                                                         *)
(* A command of the terminal is one thread on a handle of its own, and the *)
(* API is a pool of threads on the handle its process made.  Each thread   *)
(* runs one operation after another: a store's write, which is a single    *)
(* statement block, or a transaction of several (`append_attempt`,         *)
(* `land`).  What the attributes of a handle hold may change between two   *)
(* reads of them; a connection itself answers one statement at a time.     *)
(***************************************************************************)
EXTENDS Naturals, Sequences

CONSTANTS
  Threads,
  Handles,
  HandleOf,  \* the handle each thread's stores are built from
  Places,    \* the writes of a transaction
  MaxOps     \* bound: the operations of a thread

ASSUME StorageAssumption ==
  /\ HandleOf \in [Threads -> Handles]
  /\ Places \in Nat \ {0}
  /\ MaxOps \in Nat

VARIABLES
  held,       \* `_held` of each handle: a connection, or zero
  conns,      \* the connections opened, each with what it has yet to commit
  work,       \* what each thread is doing
  committed,  \* the writes the database holds
  answers     \* what each operation was answered

vars == <<held, conns, work, committed, answers>>

Kinds == {"statement", "transaction"}

Ops == Threads \X (1..MaxOps) \X Kinds

\* The writes of an operation, numbered in their order.
Count(kind) == IF kind = "transaction" THEN Places ELSE 1

WritesOf(op) == {op} \X (1..Count(op[3]))

Writes == Ops \X (1..Places)

Connection == [open : BOOLEAN, aborted : BOOLEAN, writes : SUBSET Writes]

Opened == [open |-> TRUE, aborted |-> FALSE, writes |-> {}]

Steps == {"idle", "test", "open", "begin", "take", "execute", "exit",
          "release", "settle"}

\* `outer` is the connection of the transaction the thread opened, `cur` the
\* one its statement runs on and `own` whether it opened that one for it.
Work == [step : Steps, kind : Kinds, op : 0..MaxOps, place : 0..Places,
         outer : Nat, cur : Nat, own : BOOLEAN, raising : BOOLEAN]

Idle(op) == [step |-> "idle", kind |-> "statement", op |-> op, place |-> 0,
             outer |-> 0, cur |-> 0, own |-> FALSE, raising |-> FALSE]

Op(t) == <<t, work[t].op, work[t].kind>>

Held(t) == held[HandleOf[t]]

At(t, step) == work[t].step = step

Go(t, step) == work' = [work EXCEPT ![t].step = step]

\* The operation ends: its caller is handed an answer or an exception.
Answer(t, answer) ==
  /\ answers' = [answers EXCEPT ![Op(t)] = answer]
  /\ work' = [work EXCEPT ![t] = Idle(@.op)]

\* An exception leaves the body: through the transaction the thread opened, or
\* to the caller where it opened none.
Raise(t) ==
  IF work[t].outer # 0
  THEN /\ work' = [work EXCEPT ![t].step = "release", ![t].raising = TRUE]
       /\ UNCHANGED answers
  ELSE Answer(t, "raised")

\* A connection commits what it holds, unless a statement failed on it, and is
\* closed.  The server answers the commit of a failed one by rolling it back.
Commit(c) ==
  /\ committed' = IF conns[c].aborted THEN committed
                  ELSE committed \cup conns[c].writes
  /\ conns' = [conns EXCEPT ![c].open = FALSE]

Rollback(c) ==
  /\ conns' = [conns EXCEPT ![c].open = FALSE]
  /\ UNCHANGED committed

-----------------------------------------------------------------------------

Start(t, kind) ==
  /\ At(t, "idle") /\ work[t].op < MaxOps
  /\ work' = [work EXCEPT ![t] =
                [Idle(@.op + 1) EXCEPT !.kind = kind, !.place = 1,
                   !.step = IF kind = "transaction" THEN "test" ELSE "begin"]]
  /\ UNCHANGED <<held, conns, committed, answers>>

\* `transaction`: one already held is joined, and otherwise one is opened.
Test(t) ==
  /\ At(t, "test")
  /\ Go(t, IF Held(t) # 0 THEN "begin" ELSE "open")
  /\ UNCHANGED <<held, conns, committed, answers>>

Open(t) ==
  /\ At(t, "open")
  /\ conns' = Append(conns, Opened)
  /\ held' = [held EXCEPT ![HandleOf[t]] = Len(conns')]
  /\ work' = [work EXCEPT ![t].step = "begin", ![t].outer = Len(conns')]
  /\ UNCHANGED <<committed, answers>>

\* MUTANT: a statement opens a connection though a transaction is held.
BeginApart(t) ==
  /\ At(t, "begin")
  /\ conns' = Append(conns, Opened)
  /\ work' = [work EXCEPT ![t].step = "execute", ![t].cur = Len(conns'),
                          ![t].own = TRUE]
  /\ UNCHANGED <<held, committed, answers>>

\* `begin`: the held connection is tested for, and read again to be yielded.
Begin(t) ==
  /\ At(t, "begin")
  /\ \/ Held(t) # 0 /\ Go(t, "take") /\ UNCHANGED conns
     \/ /\ Held(t) = 0
        /\ conns' = Append(conns, Opened)
        /\ work' = [work EXCEPT ![t].step = "execute", ![t].cur = Len(conns'),
                                ![t].own = TRUE]
  /\ UNCHANGED <<held, committed, answers>>

Take(t) ==
  /\ At(t, "take")
  /\ \/ /\ Held(t) # 0
        /\ work' = [work EXCEPT ![t].step = "execute", ![t].cur = Held(t),
                                ![t].own = FALSE]
        /\ UNCHANGED answers
     \/ Held(t) = 0 /\ Raise(t)
  /\ UNCHANGED <<held, conns, committed>>

\* The statement runs, or fails and leaves its connection to be rolled back.
\* A closed connection, or one a statement failed on, refuses it.
Execute(t) ==
  LET c == work[t].cur IN
  /\ At(t, "execute")
  /\ \/ /\ conns[c].open /\ ~ conns[c].aborted
        /\ conns' = [conns EXCEPT ![c].writes = @ \cup {<<Op(t), work[t].place>>}]
        /\ Go(t, "exit")
        /\ UNCHANGED answers
     \/ /\ conns' = [conns EXCEPT ![c].aborted = @ \/ conns[c].open,
                                  ![c].open = @ /\ ~ work[t].own]
        /\ Raise(t)
  /\ UNCHANGED <<held, committed>>

\* MUTANT: the block after the last write is entered too.
ExitLate(t) ==
  LET last == work[t].place > Count(work[t].kind) IN
  /\ At(t, "exit")
  /\ IF work[t].own THEN Commit(work[t].cur) ELSE UNCHANGED <<conns, committed>>
  /\ \/ /\ ~ last
        /\ work' = [work EXCEPT ![t].step = "begin", ![t].place = @ + 1,
                                ![t].cur = 0, ![t].own = FALSE]
        /\ UNCHANGED answers
     \/ last /\ work[t].outer # 0 /\ Go(t, "release") /\ UNCHANGED answers
     \/ last /\ work[t].outer = 0 /\ Answer(t, "done")
  /\ UNCHANGED held

\* The statement block ends, committing the connection it opened, and the next
\* write of the operation follows.
Exit(t) ==
  LET last == work[t].place = Count(work[t].kind) IN
  /\ At(t, "exit")
  /\ IF work[t].own THEN Commit(work[t].cur) ELSE UNCHANGED <<conns, committed>>
  /\ \/ /\ ~ last
        /\ work' = [work EXCEPT ![t].step = "begin", ![t].place = @ + 1,
                                ![t].cur = 0, ![t].own = FALSE]
        /\ UNCHANGED answers
     \/ last /\ work[t].outer # 0 /\ Go(t, "release") /\ UNCHANGED answers
     \/ last /\ work[t].outer = 0 /\ Answer(t, "done")
  /\ UNCHANGED held

\* The transaction lets go of the handle before it commits or rolls back.
Release(t) ==
  /\ At(t, "release")
  /\ held' = [held EXCEPT ![HandleOf[t]] = 0]
  /\ Go(t, "settle")
  /\ UNCHANGED <<conns, committed, answers>>

\* MUTANT: a transaction commits what it holds though its body raised.
SettleAnyway(t) ==
  /\ At(t, "settle")
  /\ committed' = committed \cup conns[work[t].outer].writes
  /\ conns' = [conns EXCEPT ![work[t].outer].open = FALSE]
  /\ Answer(t, IF work[t].raising THEN "raised" ELSE "done")
  /\ UNCHANGED held

Settle(t) ==
  /\ At(t, "settle")
  /\ \/ work[t].raising /\ Rollback(work[t].outer) /\ Answer(t, "raised")
     \/ ~ work[t].raising /\ Commit(work[t].outer) /\ Answer(t, "done")
  /\ UNCHANGED held

Init ==
  /\ held = [h \in Handles |-> 0]
  /\ conns = <<>>
  /\ work = [t \in Threads |-> Idle(0)]
  /\ committed = {}
  /\ answers = [op \in Ops |-> "none"]

Next == \E t \in Threads :
  \/ \E kind \in Kinds : Start(t, kind)
  \/ Test(t) \/ Open(t) \/ Begin(t) \/ Take(t) \/ Execute(t) \/ Exit(t)
  \/ Release(t) \/ Settle(t)

Spec == Init /\ [][Next]_vars

-----------------------------------------------------------------------------

\* The handles, connections and operations are what the code can hold.
TypeOK ==
  /\ held \in [Handles -> 0..Len(conns)]
  /\ conns \in Seq(Connection)
  /\ work \in [Threads -> Work]
  /\ \A t \in Threads : work[t].outer <= Len(conns) /\ work[t].cur <= Len(conns)
  /\ committed \in SUBSET Writes
  /\ answers \in [Ops -> {"none", "done", "raised"}]

\* Every write inside a transaction commits together or not at all.
CommitsTogether ==
  \A op \in Ops :
    op[3] = "transaction" => committed \cap WritesOf(op) \in {{}, WritesOf(op)}

\* An operation that was answered has every write of its own stored, and one
\* that raised, or is still running, has none: neither another operation's
\* failure nor its rollback reaches it.
AnswersSayWhatIsStored ==
  \A op \in Ops :
    IF answers[op] = "done" THEN WritesOf(op) \subseteq committed
                            ELSE WritesOf(op) \cap committed = {}

\* What `transaction` promises its caller, as one step of the operation.
Promise == INSTANCE StoragePromise

KeepsPromise == Promise!Spec
=============================================================================
