------------------------------ MODULE UserLog ------------------------------
(***************************************************************************)
(* One user's log, while the engine and the classifier write it, one       *)
(* command erases it (erased in log/owned.py) and another prints it        *)
(* (whole_log).  The erasure is one transaction of many statements, each   *)
(* of which sees what committed before it; foreign keys refuse a row that  *)
(* names none, and a row a transaction deleted but did not commit makes    *)
(* whoever names it wait.  The print is a query per table, with no         *)
(* snapshot over them.                                                     *)
(*                                                                         *)
(* A row is its table, its id, the row it belongs to, and the call that    *)
(* wrote it.  Nothing appends a diagnosis, so the model has no such row.   *)
(* `left`, `named` and `wrote` are history the properties read; the code   *)
(* keeps `named` alone.                                                    *)
(***************************************************************************)
EXTENDS Naturals, Sequences, FiniteSets

CONSTANTS
    Attempts,   \* the submissions made, each the attempt it mints
    Calls,      \* bound: the calls the classifier makes
    Sitting,    \* the one sitting served
    MaxWriters, \* bound: the writers that act
    None

ASSUME UserLogAssumption ==
    /\ Sitting # None /\ None \notin Attempts \union Calls
    /\ Attempts \intersect {"serve", "pause", "hand", "classifier", "start", "recall"} = {}
    /\ MaxWriters \in Nat

VARIABLES
    rows,       \* what is committed
    gone,       \* of those, what the erasure deleted and did not commit
    step,       \* where each writer is
    command     \* the command the operator runs, bound: one at a time

vars == <<rows, gone, step, command>>

-----------------------------------------------------------------------------
Row(table, id, of, call) == [table |-> table, id |-> id, of |-> of, call |-> call]

\* The table a row's owner is in, a foreign key of each table.
Owner == [results |-> "verifications", verifications |-> "attempts", claims |-> "attempts",
          self_labels |-> "attempts", attempts |-> "sittings", pauses |-> "sittings",
          recall_results |-> "recalls", probes |-> "runs",
          sittings |-> None, recalls |-> None, runs |-> None, calls |-> None]

References(row, parent) ==
    \/ parent.table = Owner[row.table] /\ parent.id = row.of
    \/ parent.table = "calls" /\ parent.id = row.call

\* What a row has to find in place: its owner, and the call that wrote it.
Supported(row, S) ==
    /\ row.of # None => \E p \in S : p.table = Owner[row.table] /\ p.id = row.of
    /\ row.call # None => \E p \in S : p.table = "calls" /\ p.id = row.call

Waits(row) == \E p \in gone : References(row, p)

SittingRow == Row("sittings", Sitting, None, None)
PauseRow == Row("pauses", Sitting, Sitting, None)
AttemptRow(a) == Row("attempts", a, Sitting, None)
CallRow(k) == Row("calls", k, None, None)
ClaimRow(a, k) == Row("claims", a, a, k)

Of(table, S) == {row \in S : row.table = table}

Writers == Attempts \union {"serve", "pause", "hand", "classifier", "start", "recall"}

At(step_) == [step |-> step_]
Goto(w, to) ==
    /\ step' = [step EXCEPT ![w] = to]
    /\ Cardinality({v \in Writers : step'[v].step # "idle"}) <= MaxWriters

\* What is written since the command began, which it owes nothing.
Noticed(new) ==
    command' = IF command.state = "none" THEN command ELSE [command EXCEPT !.wrote = @ \union new]

Unwritten == UNCHANGED <<rows, gone, command>>

\* MUTANT: the tables hold no key to the row a record belongs to.
AcceptedAlways(new) == \A row \in new : row.call # None => Supported(row, rows \union new)

\* Whether the foreign keys take the rows.
Accepted(new) == \A row \in new : Supported(row, rows \union new)

\* An insert, once nothing it names is being deleted: it commits and the
\* writer moves on, or the keys refuse it and the writer's request fails.
Insert(w, new, to) ==
    /\ \A row \in new : ~Waits(row)
    /\ IF Accepted(new)
       THEN rows' = rows \union new /\ Noticed(new) /\ Goto(w, to)
       ELSE Goto(w, At("failed")) /\ UNCHANGED <<rows, command>>
    /\ UNCHANGED gone

Ended(state, wrote) == [state |-> state, wrote |-> wrote]

Init ==
    /\ rows = {} /\ gone = {}
    /\ step = [w \in Writers |-> At("idle")]
    /\ command = Ended("none", {})

-----------------------------------------------------------------------------
(* The engine: sittings, submissions and what a user says of one.  *)

\* A sitting's row and its pauses are written again whole, wherever the
\* sitting is: an erased one comes back.
Put(w, paused, to) ==
    LET new == {SittingRow} \union (IF paused THEN {PauseRow} ELSE {})
    IN /\ {SittingRow, PauseRow} \intersect gone = {}
       /\ rows' = (rows \ {PauseRow}) \union new /\ Noticed(new)
       /\ Goto(w, to)
       /\ UNCHANGED gone

Serve == step["serve"].step = "idle" /\ Put("serve", FALSE, At("done"))

\* A sitting is read, and written back by what was read.
Get(w) ==
    /\ w \in Attempts \union {"pause"} /\ step[w].step = "idle" /\ SittingRow \in rows
    /\ Goto(w, [step |-> "read", paused |-> PauseRow \in rows])
    /\ Unwritten

Pause == step["pause"].step = "read" /\ Put("pause", TRUE, At("done"))

Touch(a) ==
    /\ step[a].step = "read"
    /\ Put(a, step[a].paused, [step |-> "touched", paused |-> step[a].paused])

AppendAttempt(a) ==
    /\ step[a].step = "touched"
    /\ Insert(a, {AttemptRow(a)}, [step |-> "appended", paused |-> step[a].paused])

AppendVerification(a) ==
    /\ step[a].step = "appended"
    /\ Insert(a, {Row("verifications", a, a, None), Row("results", a, a, None)},
              [step |-> "verified", paused |-> step[a].paused])

\* A solve ends the sitting, by the record read before the run.
EndSolved(a) == step[a].step = "verified" /\ Put(a, step[a].paused, At("done"))

\* A claim or a label is of an attempt found first.
Find(a) ==
    /\ step["hand"].step = "idle" /\ AttemptRow(a) \in rows
    /\ Goto("hand", [step |-> "found", attempt |-> a])
    /\ Unwritten

Say ==
    /\ step["hand"].step = "found"
    /\ LET a == step["hand"].attempt
       IN \E row \in {ClaimRow(a, None), Row("self_labels", a, a, None)} :
            Insert("hand", {row}, At("done"))

\* A card's run and its first probe, and a recall and its results, are each
\* one transaction that names no other row of the log.
StartCard ==
    /\ step["start"].step = "idle"
    /\ Insert("start", {Row("runs", "run", None, None), Row("probes", "run", "run", None)}, At("done"))

AppendRecall ==
    /\ step["recall"].step = "idle"
    /\ Insert("recall", {Row("recalls", "recall", None, None),
                         Row("recall_results", "recall", "recall", None)}, At("done"))

-----------------------------------------------------------------------------
(* The classifier, a command of its own.  *)

\* An attempt no claim of the classifier's answers.
Ask(a) ==
    /\ step["classifier"].step = "idle" /\ AttemptRow(a) \in rows
    /\ ~\E row \in Of("claims", rows) : row.of = a /\ row.call # None
    /\ Goto("classifier", [step |-> "asking", attempt |-> a])
    /\ Unwritten

\* The call is logged whatever came of it, and a claim names it only where it
\* answered.
Logged(k) ==
    /\ step["classifier"].step = "asking"
    /\ CallRow(k) \notin rows \union gone
    /\ rows' = rows \union {CallRow(k)} /\ Noticed({CallRow(k)})
    /\ \E to \in {[step |-> "answered", attempt |-> step["classifier"].attempt, call |-> k],
                  At("idle")} : Goto("classifier", to)
    /\ UNCHANGED gone

AppendClaim ==
    /\ step["classifier"].step = "answered"
    /\ Insert("classifier",
              {ClaimRow(step["classifier"].attempt, step["classifier"].call)}, At("idle"))

\* A crash, a restart or a failed run: what was written stays.
Stop(w) ==
    /\ step[w].step \notin {"idle", "done", "failed"}
    /\ Goto(w, At(IF w = "classifier" THEN "idle" ELSE "failed"))
    /\ Unwritten

Write ==
    \/ Serve \/ Pause \/ Say \/ StartCard \/ AppendRecall \/ AppendClaim
    \/ \E a \in Attempts :
         Touch(a) \/ AppendAttempt(a) \/ AppendVerification(a) \/ EndSolved(a) \/ Find(a) \/ Ask(a)
    \/ \E k \in Calls : Logged(k)
    \/ \E w \in Writers : Get(w) \/ Stop(w)

-----------------------------------------------------------------------------
(* Erasing: one transaction, a statement a table, children before the rows *)
(* they name.                                                              *)

\* MUTANT: the sittings are deleted before the attempts that name them.
SittingsFirst == <<"results", "verifications", "claims", "self_labels", "sittings", "attempts",
                   "pauses", "recall_results", "recalls", "probes", "runs">>

Order == <<"results", "verifications", "claims", "self_labels", "attempts", "pauses", "sittings",
           "recall_results", "recalls", "probes", "runs">>

\* MUTANT: the attempts are read before what is said of them.
AttemptsFirst == <<"sittings", "attempts", "claims", "calls", "verifications", "self_labels">>

\* The tables a print queries, in whole_log's order.
Reads == <<"claims", "calls", "sittings", "attempts", "verifications", "self_labels">>

Visible == rows \ gone

\* The calls the user's claims name.
Named(S) == {row.call : row \in Of("claims", S)} \ {None}

Running == \/ command.state = "deleting"
           \/ command.state = "printing" /\ command.at \in DOMAIN Reads

\* The typed confirmation given, the erasure reads the calls it will delete.
Begin ==
    /\ ~Running
    /\ command' = [state |-> "deleting", at |-> 1, left |-> rows, named |-> Named(rows), wrote |-> {}]
    /\ UNCHANGED <<rows, gone, step>>

Deleting == command.state = "deleting" /\ command.at \in DOMAIN Order

\* Some writer holds the sitting's row and waits for its pause.
Crossed(w) ==
    /\ Deleting /\ Order[command.at] = "sittings" /\ PauseRow \in gone
    /\ step[w].step \in {"read", "verified"}

RolledBack ==
    /\ gone' = {} /\ command' = Ended("refused", command.wrote)
    /\ UNCHANGED <<rows, step>>

\* A row still named by another refuses the delete, and with it the erasure.
Delete ==
    /\ Deleting
    /\ LET deleted == Of(Order[command.at], Visible)
           rest == Visible \ deleted
       IN IF \A row \in rest : Supported(row, rest)
          THEN /\ gone' = gone \union deleted
               /\ command' = [command EXCEPT !.at = @ + 1]
               /\ UNCHANGED <<rows, step>>
          ELSE RolledBack

\* The writer and the erasure wait for each other, and the engine of the
\* database ends one.
Deadlock(w) ==
    /\ Crossed(w)
    /\ \/ Goto(w, At("failed")) /\ UNCHANGED <<rows, gone, command>>
       \/ RolledBack

\* Of the calls read at the start, those no other record names; then commit.
Commit ==
    /\ command.state = "deleting" /\ command.at = Len(Order) + 1
    /\ LET calls == {row \in Of("calls", Visible) :
                        /\ row.id \in command.named
                        /\ ~\E other \in Visible : other.call = row.id}
       IN rows' = Visible \ calls
    /\ gone' = {}
    /\ command' = Ended("erased", command.wrote)
    /\ UNCHANGED step

\* The command or its connection dies, and the transaction with it.
Interrupted ==
    /\ Deleting
    /\ gone' = {} /\ command' = Ended("none", {})
    /\ UNCHANGED <<rows, step>>

-----------------------------------------------------------------------------
(* Printing: a query a table, in whole_log's order.  *)

Export ==
    /\ ~Running
    /\ command' = [state |-> "printing", at |-> 1, held |-> {}, wrote |-> {}]
    /\ UNCHANGED <<rows, gone, step>>

\* The calls are those the claims read before them name.
Read ==
    /\ command.state = "printing" /\ command.at \in DOMAIN Reads
    /\ LET table == Reads[command.at]
           found == IF table = "calls"
                    THEN {row \in Of("calls", rows) : row.id \in Named(command.held)}
                    ELSE Of(table, rows)
       IN command' = [command EXCEPT !.at = @ + 1, !.held = @ \union found]
    /\ UNCHANGED <<rows, gone, step>>

-----------------------------------------------------------------------------
Next ==
    \/ Write
    \/ Begin \/ Delete \/ Commit \/ Interrupted
    \/ \E w \in Attempts \union {"pause"} : Deadlock(w)
    \/ Export \/ Read

Spec == Init /\ [][Next]_vars

-----------------------------------------------------------------------------
\* What is stored belongs to something stored, whoever writes while the log is
\* erased, and what is deleted is stored until the erasure commits.
TypeOK ==
    /\ gone \subseteq rows
    /\ \A row \in rows : Supported(row, rows)
    /\ command.state # "deleting" => gone = {}

\* An erasure that commits leaves nothing of the log it found, nor a call
\* that log named; and one that is refused met a row written since it began.
ErasureIsWhole ==
    [][/\ (command.state # "erased" /\ command'.state = "erased") =>
            /\ rows' \intersect command.left \subseteq Of("calls", rows)
            /\ \A row \in Of("claims", command.left) : row.call # None => CallRow(row.call) \notin rows'
       /\ (command.state # "refused" /\ command'.state = "refused") =>
            \/ command.wrote # {}
            \/ \E w \in Writers : Crossed(w)]_vars

\* A log printed while the engine writes names only what it holds or what was
\* written meanwhile; a claim it holds comes with its attempt and its call.
ExportIsClosed ==
    (command.state = "printing" /\ command.at = Len(Reads) + 1) =>
        \A row \in command.held :
            /\ row.table = "claims" => Supported(row, command.held)
            /\ ~Supported(row, command.held) => row \in command.wrote
=============================================================================
