---------------------------- MODULE UserLogProofs ----------------------------
(***************************************************************************)
(* Theorems about UserLog, for every number of submissions, calls and      *)
(* writers, and about Driver, whose runs write that log: for every         *)
(* configuration, question, budget and run asked for.                      *)
(***************************************************************************)
EXTENDS UserLog, Driver, FiniteSetTheorems, WellFoundedInduction, NaturalsInduction, TLAPS

-----------------------------------------------------------------------------
(* The inductive invariant.                                                *)

Ids == Attempts \union Calls \union {Sitting, "recall", "run"}

\* A sitting, its pauses, an attempt and a call are each one row by its id, and
\* a claim alone names a call.
Shaped(row) ==
    /\ row.table = "sittings" => row = SittingRow
    /\ row.table = "pauses" => row = PauseRow
    /\ row.table = "attempts" => row = AttemptRow(row.id) /\ row.id \in Attempts
    /\ row.table = "calls" => row = CallRow(row.id) /\ row.id \in Calls
    /\ row.table \in {"sittings", "recalls", "runs", "calls"} => row.of = None
    /\ row.call # None => row.table = "claims"

Rows == {row \in [table : DOMAIN Owner, id : Ids, of : Ids \union {None},
                  call : Calls \union {None}] : Shaped(row)}

Commands ==
    [state : {"none", "refused", "erased"}, wrote : SUBSET Rows]
      \union [state : {"deleting"}, at : 1..12, left : SUBSET Rows, named : SUBSET Calls,
              wrote : SUBSET Rows]
      \union [state : {"printing"}, at : 1..7, held : SUBSET Rows, wrote : SUBSET Rows]

\* What is stored belongs to something stored, and what an erasure has not
\* deleted belongs to something it has not deleted.
RowsInv ==
    /\ rows \subseteq Rows /\ gone \subseteq rows
    /\ \A row \in rows : Supported(row, rows)
    /\ \A row \in Visible : Supported(row, Visible)
    /\ command.state # "deleting" => gone = {}

\* A call that answered is named by no row yet, one being deleted included.
StepInv ==
    /\ step = [w \in Writers |-> step[w]]
    /\ step["hand"].step = "found" => step["hand"].attempt \in Attempts
    /\ step["classifier"].step \in {"asking", "answered"} =>
         step["classifier"].attempt \in Attempts
    /\ step["classifier"].step = "answered" =>
         /\ step["classifier"].call \in Calls
         /\ \A row \in rows : row.call # step["classifier"].call
         /\ command.state = "deleting" =>
              \A row \in command.left : row.call # step["classifier"].call

Passed(table) == \E i \in 1..11 : i < command.at /\ Order[i] = table

\* The log the erasure found is stored until it is deleted, but for a pause a
\* sitting's write takes away; no row written since names a call it found; and
\* where nothing was written since, what is deleted is the tables it passed.
ErasingInv ==
    command.state = "deleting" =>
      /\ \A row \in command.left : Supported(row, command.left)
      /\ command.named = Named(command.left)
      /\ \A row \in command.left : row # PauseRow => row \in rows
      /\ \A row \in rows \ command.left : row.call \notin command.named
      /\ \A row \in command.left : row # PauseRow /\ Passed(row.table) => row \in gone
      /\ PauseRow \in command.left /\ Passed("sittings") =>
           PauseRow \in gone \/ PauseRow \notin rows
      /\ command.wrote = {} =>
           /\ rows = command.left
           /\ \A row \in rows : row \in gone <=> Passed(row.table)

\* A row that a query past its table missed is named only by rows written since.
Kept(table) ==
    \A p \in rows : p.table = table =>
      p \in command.held \/ \A row \in rows : References(row, p) => row \in command.wrote

\* A print holds stored rows, a claim with its call once the calls are read and
\* with its attempt once the attempts are.
PrintingInv ==
    command.state = "printing" =>
      /\ command.held \subseteq rows
      /\ \A row \in command.held :
           row.table \in {"claims", "calls", "sittings", "attempts", "verifications", "self_labels"}
      /\ command.at > 2 => \A row \in Of("claims", command.held) :
           row.call # None => CallRow(row.call) \in command.held
      /\ command.at > 3 => Kept("sittings")
      /\ command.at > 4 =>
           /\ Kept("attempts")
           /\ \A row \in Of("claims", command.held) : 
                row.of # None => AttemptRow(row.of) \in command.held

IInv == RowsInv /\ command \in Commands /\ StepInv /\ ErasingInv /\ PrintingInv

-----------------------------------------------------------------------------
(* The rows, the tables and the command.                                   *)

LEMMA RowFields ==
  ASSUME NEW row \in Rows
  PROVE  /\ row.table \in DOMAIN Owner /\ row.id \in Ids
         /\ row.of \in Ids \union {None} /\ row.call \in Calls \union {None}
         /\ Shaped(row)
  BY DEF Rows

\* The tables of an erasure: children before the rows they name, no calls.
LEMMA OrderIs ==
  /\ DOMAIN Order = 1..11 /\ Len(Order) = 11
  /\ Order[6] = "pauses" /\ Order[7] = "sittings"
  /\ \A i \in 1..11 : Order[i] # "calls" /\ (Order[i] = "sittings" => i = 7)
  /\ \A table \in DOMAIN Owner : table # "calls" => \E i \in 1..11 : Order[i] = table
  <1>1. /\ DOMAIN Order = 1..11 /\ Len(Order) = 11
        /\ Order[1] = "results" /\ Order[2] = "verifications" /\ Order[3] = "claims"
        /\ Order[4] = "self_labels" /\ Order[5] = "attempts" /\ Order[6] = "pauses"
        /\ Order[7] = "sittings" /\ Order[8] = "recall_results" /\ Order[9] = "recalls"
        /\ Order[10] = "probes" /\ Order[11] = "runs"
    BY DEF Order
  <1>2. DOMAIN Owner = {"results", "verifications", "claims", "self_labels", "attempts", "pauses",
                        "sittings", "recall_results", "recalls", "probes", "runs", "calls"}
    BY DEF Owner
  <1>3. \A i \in 1..11 : i = 1 \/ i = 2 \/ i = 3 \/ i = 4 \/ i = 5 \/ i = 6 \/ i = 7 \/ i = 8
                         \/ i = 9 \/ i = 10 \/ i = 11
    OBVIOUS
  <1>4. \A i \in 1..11 : Order[i] # "calls" /\ (Order[i] = "sittings" => i = 7)
    BY <1>1, <1>3
  <1>5. \A table \in DOMAIN Owner : table # "calls" => \E i \in 1..11 : Order[i] = table
    BY <1>1, <1>2
  <1> QED
    BY <1>1, <1>4, <1>5

\* An owner's table comes after the tables of the rows it owns.
LEMMA ChildrenFirst ==
  ASSUME NEW row \in Rows, row.of # None, NEW i \in 1..11, Owner[row.table] = Order[i]
  PROVE  \E j \in 1..11 : j < i /\ Order[j] = row.table
  <1>1. /\ Order[1] = "results" /\ Order[2] = "verifications" /\ Order[3] = "claims"
        /\ Order[4] = "self_labels" /\ Order[5] = "attempts" /\ Order[6] = "pauses"
        /\ Order[7] = "sittings" /\ Order[8] = "recall_results" /\ Order[9] = "recalls"
        /\ Order[10] = "probes" /\ Order[11] = "runs"
    BY DEF Order
  <1>2. row.table \in {"results", "verifications", "claims", "self_labels", "attempts", "pauses",
                       "recall_results", "probes"}
    BY RowFields DEF Owner, Shaped
  <1>3. /\ Owner["results"] = "verifications" /\ Owner["verifications"] = "attempts"
        /\ Owner["claims"] = "attempts" /\ Owner["self_labels"] = "attempts"
        /\ Owner["attempts"] = "sittings" /\ Owner["pauses"] = "sittings"
        /\ Owner["recall_results"] = "recalls" /\ Owner["probes"] = "runs"
    BY DEF Owner
  <1>4. i = 1 \/ i = 2 \/ i = 3 \/ i = 4 \/ i = 5 \/ i = 6 \/ i = 7 \/ i = 8
        \/ i = 9 \/ i = 10 \/ i = 11
    OBVIOUS
  <1> HIDE DEF Owner, Order
  <1> QED
    BY <1>1, <1>2, <1>3, <1>4

\* A row's owner is neither a call nor a pause.
LEMMA OwnerIs ==
  ASSUME NEW row \in Rows, row.of # None
  PROVE  Owner[row.table] \in {"verifications", "attempts", "sittings", "recalls", "runs"}
  BY RowFields DEF Owner, Shaped

LEMMA CommandIs ==
  ASSUME command \in Commands
  PROVE  /\ command.wrote \in SUBSET Rows
         /\ command.state \in {"none", "refused", "erased", "deleting", "printing"}
         /\ command.state = "deleting" =>
              command \in [state : {"deleting"}, at : 1..12, left : SUBSET Rows,
                           named : SUBSET Calls, wrote : SUBSET Rows]
         /\ command.state = "printing" =>
              command \in [state : {"printing"}, at : 1..7, held : SUBSET Rows,
                           wrote : SUBSET Rows]
  BY DEF Commands

LEMMA NoticedIs ==
  ASSUME command \in Commands, NEW new \in SUBSET Rows, Noticed(new)
  PROVE  /\ command' \in Commands /\ command'.state = command.state
         /\ command.state # "none" => command'.wrote = command.wrote \union new
         /\ command.state = "deleting" =>
              /\ command'.at = command.at /\ command'.left = command.left
              /\ command'.named = command.named
         /\ command.state = "printing" =>
              command'.at = command.at /\ command'.held = command.held
  <1> DEFINE later == [command EXCEPT !.wrote = @ \union new]
  <1>1. CASE command.state = "none"
    BY <1>1 DEF Noticed
  <1>2. CASE command.state = "deleting"
    <2>1. /\ later \in [state : {"deleting"}, at : 1..12, left : SUBSET Rows,
                        named : SUBSET Calls, wrote : SUBSET Rows]
          /\ later.state = "deleting" /\ later.wrote = command.wrote \union new
          /\ later.at = command.at /\ later.left = command.left /\ later.named = command.named
      BY <1>2, CommandIs
    <2>2. command' = later
      BY <1>2 DEF Noticed
    <2> HIDE DEF later
    <2> QED
      BY <1>2, <2>1, <2>2 DEF Commands
  <1>3. CASE command.state = "printing"
    <2>1. /\ later \in [state : {"printing"}, at : 1..7, held : SUBSET Rows, wrote : SUBSET Rows]
          /\ later.state = "printing" /\ later.wrote = command.wrote \union new
          /\ later.at = command.at /\ later.held = command.held
      BY <1>3, CommandIs
    <2>2. command' = later
      BY <1>3 DEF Noticed
    <2> HIDE DEF later
    <2> QED
      BY <1>3, <2>1, <2>2 DEF Commands
  <1>4. CASE command.state \in {"refused", "erased"}
    <2>1. /\ later \in [state : {"none", "refused", "erased"}, wrote : SUBSET Rows]
          /\ later.state = command.state /\ later.wrote = command.wrote \union new
      BY <1>4 DEF Commands
    <2>2. command' = later
      BY <1>4 DEF Noticed
    <2> HIDE DEF later
    <2> QED
      BY <1>4, <2>1, <2>2 DEF Commands
  <1> QED
    BY <1>1, <1>2, <1>3, <1>4, CommandIs

-----------------------------------------------------------------------------
(* What supports a row.                                                    *)

\* The rows written, by what they are made of.
LEMMA RowIs ==
  ASSUME NEW table \in DOMAIN Owner, NEW id \in Ids, NEW of \in Ids \union {None},
         NEW call \in Calls \union {None}, Shaped(Row(table, id, of, call))
  PROVE  /\ Row(table, id, of, call) \in Rows
         /\ Row(table, id, of, call).table = table /\ Row(table, id, of, call).id = id
         /\ Row(table, id, of, call).of = of /\ Row(table, id, of, call).call = call
  BY DEF Rows, Row

LEMMA SittingRows ==
  /\ SittingRow \in Rows /\ SittingRow.table = "sittings" /\ SittingRow.id = Sitting
  /\ SittingRow.of = None /\ SittingRow.call = None
  /\ PauseRow \in Rows /\ PauseRow.table = "pauses" /\ PauseRow.of = Sitting
  /\ PauseRow.call = None /\ SittingRow # PauseRow
  BY DEF Rows, Shaped, SittingRow, PauseRow, Row, Ids, Owner

LEMMA AttemptRows ==
  ASSUME NEW a \in Attempts
  PROVE  /\ AttemptRow(a) \in Rows /\ AttemptRow(a).table = "attempts"
         /\ AttemptRow(a).id = a /\ AttemptRow(a).of = Sitting /\ AttemptRow(a).call = None
  BY DEF Rows, Shaped, AttemptRow, Row, Ids, Owner

LEMMA CallRows ==
  ASSUME NEW k \in Calls
  PROVE  /\ CallRow(k) \in Rows /\ CallRow(k).table = "calls" /\ CallRow(k).id = k
         /\ CallRow(k).of = None /\ CallRow(k).call = None
  BY DEF Rows, Shaped, CallRow, Row, Ids, Owner

LEMMA ClaimRows ==
  ASSUME NEW a \in Attempts, NEW k \in Calls \union {None}
  PROVE  /\ ClaimRow(a, k) \in Rows /\ ClaimRow(a, k).table = "claims"
         /\ ClaimRow(a, k).of = a /\ ClaimRow(a, k).call = k
  BY DEF Rows, Shaped, ClaimRow, Row, Ids, Owner

\* A row stays supported where nothing but a pause is taken away.
LEMMA StaysSupported ==
  ASSUME NEW row \in Rows, NEW S, NEW T, S \subseteq Rows,
         \A p \in S : p # PauseRow => p \in T, Supported(row, S)
  PROVE  Supported(row, T)
  <1>1. ASSUME row.of # None
        PROVE  \E p \in T : p.table = Owner[row.table] /\ p.id = row.of
    <2>1. PICK p \in S : p.table = Owner[row.table] /\ p.id = row.of
      BY <1>1 DEF Supported
    <2>2. p # PauseRow
      BY <1>1, <2>1, OwnerIs, SittingRows
    <2> QED
      BY <2>1, <2>2
  <1>2. ASSUME row.call # None
        PROVE  \E p \in T : p.table = "calls" /\ p.id = row.call
    <2>1. PICK p \in S : p.table = "calls" /\ p.id = row.call
      BY <1>2 DEF Supported
    <2>2. p # PauseRow
      BY <2>1, SittingRows
    <2> QED
      BY <2>1, <2>2
  <1> QED
    BY <1>1, <1>2 DEF Supported

\* An attempt and a pause are of the sitting; a claim's call is the call's row.
LEMMA SupportIs ==
  ASSUME NEW row \in Rows, NEW S, S \subseteq Rows, Supported(row, S)
  PROVE  /\ row.of # None /\ Owner[row.table] = "sittings" => SittingRow \in S
         /\ row.of # None /\ Owner[row.table] = "attempts" => AttemptRow(row.of) \in S
         /\ row.call # None => CallRow(row.call) \in S
  <1>1. ASSUME row.of # None, Owner[row.table] \in {"sittings", "attempts"}
        PROVE  /\ Owner[row.table] = "sittings" => SittingRow \in S
               /\ Owner[row.table] = "attempts" => AttemptRow(row.of) \in S
    <2>1. PICK p \in S : p.table = Owner[row.table] /\ p.id = row.of
      BY <1>1 DEF Supported
    <2>2. Shaped(p)
      BY <2>1, RowFields
    <2> QED
      BY <2>1, <2>2 DEF Shaped
  <1>2. ASSUME row.call # None
        PROVE  CallRow(row.call) \in S
    <2>1. PICK p \in S : p.table = "calls" /\ p.id = row.call
      BY <1>2 DEF Supported
    <2>2. Shaped(p)
      BY <2>1, RowFields
    <2> QED
      BY <2>1, <2>2 DEF Shaped
  <1> QED
    BY <1>1, <1>2

\* A sitting or an attempt that is not stored is named by no stored row.
LEMMA NamedByNone ==
  ASSUME RowsInv, NEW row \in rows, NEW p \in Rows,
         p.table \in {"sittings", "attempts"}, References(row, p)
  PROVE  p \in rows
  <1>1. Shaped(p) /\ row \in Rows /\ rows \subseteq Rows /\ Supported(row, rows)
    BY RowFields DEF RowsInv
  <1>2. p.table = Owner[row.table] /\ p.id = row.of
    BY DEF References
  <1>3. p.id # None
    BY <1>1, UserLogAssumption, SittingRows DEF Shaped
  <1>4. p = SittingRow \/ p = AttemptRow(row.of)
    BY <1>1, <1>2 DEF Shaped
  <1> QED
    BY <1>1, <1>2, <1>3, <1>4, SupportIs, SittingRows, AttemptRows DEF Shaped

-----------------------------------------------------------------------------
(* The writers.                                                            *)

LEMMA WriterNames ==
  /\ {"serve", "pause", "hand", "classifier", "start", "recall"} \subseteq Writers
  /\ Attempts \subseteq Writers
  /\ \A a \in Attempts : a # "hand" /\ a # "classifier"
  BY UserLogAssumption DEF Writers

\* A writer moves on: nothing is written that names the call a classifier
\* holds, and no erasure begins.
LEMMA StepsTo ==
  ASSUME StepInv, NEW w \in Writers, NEW to, Goto(w, to),
         w # "classifier" => \A row \in rows' : row \in rows \/ row.call = None,
         command'.state = "deleting" =>
           command.state = "deleting" /\ command'.left = command.left,
         w = "hand" /\ to.step = "found" => to.attempt \in Attempts,
         w = "classifier" =>
           /\ to.step \in {"asking", "answered"} => to.attempt \in Attempts
           /\ to.step = "answered" =>
                /\ to.call \in Calls
                /\ \A row \in rows' : row.call # to.call
                /\ command'.state = "deleting" =>
                     \A row \in command'.left : row.call # to.call
  PROVE  StepInv'
  <1>1. step = [v \in Writers |-> step[v]] /\ step' = [step EXCEPT ![w] = to]
    BY DEF StepInv, Goto
  <1>2. /\ step' = [v \in Writers |-> step'[v]]
        /\ \A v \in Writers : step'[v] = IF v = w THEN to ELSE step[v]
    BY <1>1
  <1>3. step'["hand"].step = "found" => step'["hand"].attempt \in Attempts
    BY <1>2, WriterNames DEF StepInv
  <1>4. step'["classifier"].step \in {"asking", "answered"} =>
          step'["classifier"].attempt \in Attempts
    BY <1>2, WriterNames DEF StepInv
  <1>5. ASSUME step'["classifier"].step = "answered"
        PROVE  /\ step'["classifier"].call \in Calls
               /\ \A row \in rows' : row.call # step'["classifier"].call
               /\ command'.state = "deleting" =>
                    \A row \in command'.left : row.call # step'["classifier"].call
    <2>1. CASE w = "classifier"
      BY <1>2, <1>5, <2>1
    <2>2. CASE w # "classifier"
      <3>1. step'["classifier"] = step["classifier"]
        BY <1>2, <2>2, WriterNames
      <3>2. /\ step["classifier"].call \in Calls /\ step["classifier"].call # None
            /\ \A row \in rows : row.call # step["classifier"].call
        BY <1>5, <3>1, UserLogAssumption DEF StepInv
      <3> QED
        BY <1>5, <2>2, <3>1, <3>2 DEF StepInv
    <2> QED
      BY <2>1, <2>2
  <1> QED
    BY <1>2, <1>3, <1>4, <1>5 DEF StepInv

\* A writer that writes nothing.
LEMMA UnwrittenSafe ==
  ASSUME IInv, UNCHANGED <<rows, gone, command>>, StepInv'
  PROVE  IInv'
  <1>1. RowsInv' /\ command' \in Commands
    BY DEF IInv, RowsInv, Visible
  <1>2. ErasingInv' /\ PrintingInv'
    BY DEF IInv, ErasingInv, PrintingInv, Passed, Kept
  <1> QED
    BY <1>1, <1>2 DEF IInv

\* Rows are written, each supported by what the erasure has not deleted, and a
\* pause by a sitting it has not; a pause alone may be taken away.
LEMMA WrittenSafe ==
  ASSUME IInv, NEW new \in SUBSET Rows, new # {}, NEW lost \in SUBSET {PauseRow},
         rows' = (rows \ lost) \union new, gone' = gone, Noticed(new), lost \intersect gone = {},
         \A row \in new : Supported(row, rows' \ gone),
         PauseRow \in new => SittingRow \notin gone,
         command.state = "deleting" => \A row \in new : row.call \notin command.named,
         StepInv'
  PROVE  IInv'
  <1>1. /\ rows \subseteq Rows /\ gone \subseteq rows /\ rows' \subseteq Rows
        /\ gone' \subseteq rows'
    BY DEF IInv, RowsInv
  <1>2. /\ command' \in Commands /\ command'.state = command.state
        /\ command.state # "none" => command'.wrote = command.wrote \union new
        /\ command.state = "deleting" =>
             /\ command'.at = command.at /\ command'.left = command.left
             /\ command'.named = command.named
        /\ command.state = "printing" =>
             command'.at = command.at /\ command'.held = command.held
    BY NoticedIs DEF IInv
  <1>3. \A p \in rows : p # PauseRow => p \in rows'
    OBVIOUS
  <1>4. \A p \in Visible : p # PauseRow => p \in Visible'
    BY DEF Visible
  <1>5. ASSUME NEW row \in rows'
        PROVE  Supported(row, rows')
    <2>1. CASE row \in new
      <3>1. Supported(row, rows' \ gone)
        BY <2>1
      <3> QED
        BY <3>1 DEF Supported
    <2>2. CASE row \in rows
      <3>1. row \in Rows /\ Supported(row, rows)
        BY <1>1, <2>2 DEF IInv, RowsInv
      <3> QED
        BY <1>1, <1>3, <3>1, StaysSupported
    <2> QED
      BY <2>1, <2>2
  <1>6. ASSUME NEW row \in Visible'
        PROVE  Supported(row, Visible')
    <2>1. CASE row \in new
      BY <2>1 DEF Visible
    <2>2. CASE row \notin new
      <3>1. row \in Visible /\ row \in Rows /\ Supported(row, Visible) /\ Visible \subseteq Rows
        BY <1>1, <2>2 DEF IInv, RowsInv, Visible
      <3> QED
        BY <1>4, <3>1, StaysSupported
    <2> QED
      BY <2>1, <2>2
  <1>7. RowsInv'
    BY <1>1, <1>2, <1>5, <1>6 DEF IInv, RowsInv
  <1>8. ErasingInv'
    <2> SUFFICES ASSUME command.state = "deleting" PROVE ErasingInv'
      BY <1>2 DEF ErasingInv
    <2>1. /\ ErasingInv /\ command'.wrote # {} /\ command.left \subseteq Rows
          /\ \A table : Passed(table)' <=> Passed(table)
      BY <1>2, CommandIs DEF IInv, Passed
    <2>2. \A row \in command.left : row # PauseRow => row \in rows'
      BY <2>1, <1>3 DEF ErasingInv
    <2>3. \A row \in rows' \ command.left : row.call \notin command.named
      BY <2>1 DEF ErasingInv
    <2>4. ASSUME PauseRow \in command.left, Passed("sittings"), PauseRow \notin gone
          PROVE  PauseRow \notin rows'
      <3>1. PauseRow \notin rows
        BY <2>1, <2>4 DEF ErasingInv
      <3>2. SittingRow \in command.left
        <4>1. Supported(PauseRow, command.left) /\ Owner["pauses"] = "sittings"
          BY <2>1, <2>4 DEF ErasingInv, Owner
        <4> QED
          BY <2>1, <4>1, SupportIs, SittingRows, UserLogAssumption
      <3>3. SittingRow \in gone
        BY <2>1, <2>4, <3>2, SittingRows DEF ErasingInv
      <3> QED
        BY <3>1, <3>3
    <2> QED
      BY <1>2, <2>1, <2>2, <2>3, <2>4 DEF ErasingInv
  <1>9. PrintingInv'
    <2> SUFFICES ASSUME command.state = "printing" PROVE PrintingInv'
      BY <1>2 DEF PrintingInv
    <2>1. PrintingInv /\ command.held \subseteq rows'
      <3>1. PrintingInv /\ PauseRow \notin command.held
        BY SittingRows DEF IInv, PrintingInv
      <3> QED
        BY <3>1 DEF PrintingInv
    <2>2. ASSUME NEW table \in {"sittings", "attempts"}, Kept(table)
          PROVE  Kept(table)'
      <3> SUFFICES ASSUME NEW p \in rows', p.table = table, p \notin command.held,
                          NEW row \in rows', References(row, p)
                   PROVE  row \in command.wrote \union new
        BY <1>2 DEF Kept
      <3>1. CASE row \in new
        BY <3>1
      <3>2. CASE row \notin new
        <4>1. row \in rows /\ p \in Rows
          BY <1>1, <3>2
        <4>2. p \in rows
          BY <4>1, NamedByNone DEF IInv
        <4> QED
          BY <2>2, <4>1, <4>2 DEF Kept
      <3> QED
        BY <3>1, <3>2
    <2> QED
      BY <1>2, <2>1, <2>2 DEF PrintingInv
  <1> QED
    BY <1>2, <1>7, <1>8, <1>9 DEF IInv

LEMMA AddedSafe ==
  ASSUME IInv, NEW new \in SUBSET Rows, new # {}, PauseRow \notin new,
         rows' = rows \union new, gone' = gone, Noticed(new),
         \A row \in new : Supported(row, rows' \ gone),
         command.state = "deleting" => \A row \in new : row.call \notin command.named,
         StepInv'
  PROVE  IInv'
  <1> DEFINE lost == {}
  <1>1. lost \in SUBSET {PauseRow} /\ lost \intersect gone = {}
        /\ rows' = (rows \ lost) \union new
    OBVIOUS
  <1> HIDE DEF lost
  <1> QED
    BY <1>1, WrittenSafe

\* A writer other than the classifier inserts, or its request fails.
LEMMA InsertSafe ==
  ASSUME IInv, NEW w \in Writers \ {"classifier"}, NEW new \in SUBSET Rows, new # {}, NEW to,
         Insert(w, new, to), PauseRow \notin new, \A row \in new : row.call = None,
         w = "hand" => to.step # "found"
  PROVE  IInv'
  <1>1. gone' = gone /\ StepInv /\ (\A row \in new : ~ Waits(row))
    BY DEF Insert, IInv
  <1>2. CASE Accepted(new)
    <2>1. rows' = rows \union new /\ Noticed(new) /\ Goto(w, to)
      BY <1>2 DEF Insert
    <2>2. StepInv'
      BY <1>1, <2>1, StepsTo, NoticedIs DEF IInv
    <2>3. ASSUME NEW row \in new
          PROVE  Supported(row, rows' \ gone)
      <3>1. Supported(row, rows') /\ \A p \in gone : ~ References(row, p)
        BY <1>1, <1>2, <2>1 DEF Accepted, Waits
      <3> QED
        BY <3>1 DEF Supported, References
    <2>4. command.state = "deleting" => \A row \in new : row.call \notin command.named
      BY CommandIs, UserLogAssumption DEF IInv
    <2> QED
      BY <1>1, <2>1, <2>2, <2>3, <2>4, AddedSafe
  <1>3. CASE ~ Accepted(new)
    <2>1. UNCHANGED <<rows, gone, command>> /\ Goto(w, At("failed"))
      BY <1>1, <1>3 DEF Insert
    <2>2. StepInv'
      BY <1>1, <2>1, StepsTo DEF At
    <2> QED
      BY <2>1, <2>2, UnwrittenSafe
  <1> QED
    BY <1>2, <1>3

\* The sitting is written whole.
LEMMA PutSafe ==
  ASSUME IInv, NEW w \in Writers \ {"classifier", "hand"}, NEW paused, NEW to,
         Put(w, paused, to)
  PROVE  IInv'
  <1> DEFINE new == {SittingRow} \union (IF paused THEN {PauseRow} ELSE {})
  <1>1. /\ SittingRow \notin gone /\ PauseRow \notin gone /\ gone' = gone /\ StepInv
        /\ rows' = (rows \ {PauseRow}) \union new /\ Noticed(new) /\ Goto(w, to)
    BY DEF Put, IInv
  <1>2. /\ new \in SUBSET Rows /\ new # {} /\ SittingRow \in new
        /\ \A row \in new : row.call = None /\ (row = SittingRow \/ row = PauseRow)
    BY SittingRows
  <1> HIDE DEF new
  <1>3. StepInv'
    BY <1>1, <1>2, StepsTo, NoticedIs DEF IInv
  <1>4. ASSUME NEW row \in new
        PROVE  Supported(row, rows' \ gone)
    <2>1. SittingRow \in rows' \ gone /\ Owner["pauses"] = "sittings"
      BY <1>1, <1>2 DEF Owner
    <2>2. CASE row = SittingRow
      BY <2>2, SittingRows DEF Supported
    <2>3. CASE row = PauseRow
      <3>1. \E p \in rows' \ gone : p.table = Owner[row.table] /\ p.id = row.of
        BY <2>1, <2>3, SittingRows
      <3> QED
        BY <2>3, <3>1, SittingRows DEF Supported
    <2> QED
      BY <1>2, <2>2, <2>3
  <1>5. command.state = "deleting" => \A row \in new : row.call \notin command.named
    BY <1>2, CommandIs, UserLogAssumption DEF IInv
  <1> DEFINE lost == {PauseRow}
  <1>6. lost \in SUBSET {PauseRow} /\ lost \intersect gone = {}
        /\ rows' = (rows \ lost) \union new
    BY <1>1
  <1> HIDE DEF lost
  <1> QED
    BY <1>1, <1>2, <1>3, <1>4, <1>5, <1>6, WrittenSafe

LEMMA LoggedSafe ==
  ASSUME IInv, NEW k \in Calls, Logged(k)
  PROVE  IInv'
  <1> DEFINE new == {CallRow(k)}
             a == step["classifier"].attempt
             answered == [step |-> "answered", attempt |-> a, call |-> k]
  <1>1. /\ StepInv /\ RowsInv /\ gone' = gone /\ rows' = rows \union new /\ Noticed(new)
        /\ CallRow(k) \notin rows /\ a \in Attempts
        /\ \E to \in {answered, At("idle")} : Goto("classifier", to)
    BY DEF Logged, IInv, StepInv
  <1>2. /\ new \in SUBSET Rows /\ new # {} /\ PauseRow \notin new
        /\ \A row \in new : row.call = None /\ row.of = None
    BY CallRows, SittingRows
  <1>3. \A row \in rows : row.call # k
    <2>1. ASSUME NEW row \in rows, row.call = k
          PROVE  FALSE
      <3>1. row \in Rows /\ rows \subseteq Rows /\ Supported(row, rows) /\ row.call # None
        BY <1>1, <2>1, UserLogAssumption DEF RowsInv
      <3> QED
        BY <1>1, <2>1, <3>1, SupportIs
    <2> QED
      BY <2>1
  <1>4. command.state = "deleting" => \A row \in command.left : row.call # k
    <2>1. ASSUME command.state = "deleting", NEW row \in command.left, row.call = k
          PROVE  FALSE
      <3>1. /\ ErasingInv /\ command.left \subseteq Rows /\ row \in Rows
            /\ row.call # None
        BY <2>1, CommandIs, UserLogAssumption DEF IInv
      <3>2. CallRow(k) \in command.left
        BY <2>1, <3>1, SupportIs DEF ErasingInv
      <3>3. CallRow(k) \in rows
        BY <2>1, <3>1, <3>2, CallRows, SittingRows DEF ErasingInv
      <3> QED
        BY <1>1, <3>3
    <2> QED
      BY <2>1
  <1>5. \A row \in rows' : row.call # k
    BY <1>1, <1>2, <1>3, UserLogAssumption
  <1>6. /\ command'.state = command.state
        /\ command.state = "deleting" => command'.left = command.left
    BY <1>1, <1>2, NoticedIs DEF IInv
  <1>7. StepInv'
    <2>1. PICK to \in {answered, At("idle")} : Goto("classifier", to)
      BY <1>1
    <2>2. /\ to.step \in {"asking", "answered"} => to.attempt \in Attempts
          /\ to.step = "answered" => to.call = k
      BY <1>1, <2>1 DEF At
    <2> HIDE DEF answered
    <2> QED
      BY <1>1, <1>4, <1>5, <1>6, <2>1, <2>2, StepsTo, WriterNames
  <1>8. \A row \in new : Supported(row, rows' \ gone)
    BY <1>2 DEF Supported
  <1>9. command.state = "deleting" => \A row \in new : row.call \notin command.named
    BY <1>2, CommandIs, UserLogAssumption DEF IInv
  <1> HIDE DEF new
  <1> QED
    BY <1>1, <1>2, <1>7, <1>8, <1>9, AddedSafe

LEMMA AppendClaimSafe ==
  ASSUME IInv, AppendClaim
  PROVE  IInv'
  <1> DEFINE a == step["classifier"].attempt
             k == step["classifier"].call
             new == {ClaimRow(a, k)}
  <1>1. /\ StepInv /\ gone' = gone /\ step["classifier"].step = "answered"
        /\ Insert("classifier", new, At("idle"))
    BY DEF AppendClaim, Insert, IInv
  <1>2. a \in Attempts /\ k \in Calls
    BY <1>1 DEF StepInv
  <1>3. /\ new \in SUBSET Rows /\ new # {} /\ PauseRow \notin new
        /\ \A row \in new : row.call = k
    BY <1>2, ClaimRows, SittingRows
  <1> HIDE DEF new
  <1>4. \A to : to = At("idle") => to.step = "idle"
    BY DEF At
  <1>5. CASE Accepted(new)
    <2>1. rows' = rows \union new /\ Noticed(new) /\ Goto("classifier", At("idle"))
      BY <1>1, <1>5 DEF Insert
    <2>2. StepInv'
      BY <1>1, <1>3, <1>4, <2>1, StepsTo, NoticedIs, WriterNames DEF IInv
    <2>3. ASSUME NEW row \in new
          PROVE  Supported(row, rows' \ gone)
      <3>1. Supported(row, rows') /\ \A p \in gone : ~ References(row, p)
        BY <1>1, <1>5, <2>1 DEF Accepted, Waits, Insert
      <3> QED
        BY <3>1 DEF Supported, References
    <2>4. command.state = "deleting" => \A row \in new : row.call \notin command.named
      <3>1. command.state = "deleting" =>
              command.named = Named(command.left) /\ \A row \in command.left : row.call # k
        BY <1>1 DEF IInv, ErasingInv, StepInv
      <3> QED
        BY <1>3, <3>1 DEF Named, Of
    <2> QED
      BY <1>1, <1>3, <2>1, <2>2, <2>3, <2>4, AddedSafe
  <1>6. CASE ~ Accepted(new)
    <2>1. UNCHANGED <<rows, gone, command>> /\ Goto("classifier", At("failed"))
      BY <1>1, <1>6 DEF Insert
    <2>2. StepInv'
      BY <1>1, <2>1, StepsTo, WriterNames DEF At
    <2> QED
      BY <2>1, <2>2, UnwrittenSafe
  <1> QED
    BY <1>5, <1>6

\* What the engine writes of a sitting, a card and a recall.
LEMMA EngineSafe ==
  ASSUME IInv, Serve \/ Pause \/ StartCard \/ AppendRecall
  PROVE  IInv'
  <1>1. {"serve", "pause", "start", "recall"} \subseteq Writers \ {"classifier", "hand"}
    BY WriterNames
  <1>2. CASE Serve
    BY <1>1, <1>2, PutSafe DEF Serve
  <1>3. CASE Pause
    BY <1>1, <1>3, PutSafe DEF Pause
  <1>4. CASE StartCard
    <2> DEFINE opened == Row("runs", "run", None, None)
                  probe == Row("probes", "run", "run", None)
    <2>1. opened \in Rows /\ probe \in Rows /\ opened.call = None /\ probe.call = None
          /\ opened # PauseRow /\ probe # PauseRow
      BY DEF Rows, Shaped, Row, Ids, Owner, PauseRow
    <2>2. PICK to : Insert("start", {opened, probe}, to)
      BY <1>4 DEF StartCard
    <2> HIDE DEF opened, probe
    <2> DEFINE new == {opened, probe}
    <2>3. /\ new \in SUBSET Rows /\ new # {} /\ PauseRow \notin new
          /\ \A row \in new : row.call = None
      BY <2>1
    <2>4. Insert("start", new, to)
      BY <2>2
    <2> HIDE DEF new
    <2> QED
      BY <1>1, <2>3, <2>4, InsertSafe
  <1>5. CASE AppendRecall
    <2> DEFINE recall == Row("recalls", "recall", None, None)
               result == Row("recall_results", "recall", "recall", None)
    <2>1. recall \in Rows /\ result \in Rows /\ recall.call = None /\ result.call = None
          /\ recall # PauseRow /\ result # PauseRow
      BY DEF Rows, Shaped, Row, Ids, Owner, PauseRow
    <2>2. PICK to : Insert("recall", {recall, result}, to)
      BY <1>5 DEF AppendRecall
    <2> HIDE DEF recall, result
    <2> DEFINE new == {recall, result}
    <2>3. /\ new \in SUBSET Rows /\ new # {} /\ PauseRow \notin new
          /\ \A row \in new : row.call = None
      BY <2>1
    <2>4. Insert("recall", new, to)
      BY <2>2
    <2> HIDE DEF new
    <2> QED
      BY <1>1, <2>3, <2>4, InsertSafe
  <1> QED
    BY <1>2, <1>3, <1>4, <1>5

\* And of an attempt.
LEMMA AttemptSafe ==
  ASSUME IInv, NEW a \in Attempts,
         Touch(a) \/ AppendAttempt(a) \/ AppendVerification(a) \/ EndSolved(a)
  PROVE  IInv'
  <1>1. a \in Writers \ {"classifier", "hand"}
    BY WriterNames
  <1>2. CASE Touch(a)
    BY <1>1, <1>2, PutSafe DEF Touch
  <1>3. CASE EndSolved(a)
    BY <1>1, <1>3, PutSafe DEF EndSolved
  <1>4. CASE AppendAttempt(a)
    <2> DEFINE new == {AttemptRow(a)}
    <2>1. /\ new \in SUBSET Rows /\ new # {} /\ PauseRow \notin new
          /\ \A row \in new : row.call = None
      BY AttemptRows, SittingRows
    <2>2. PICK to : Insert(a, new, to)
      BY <1>4 DEF AppendAttempt
    <2> HIDE DEF new
    <2> QED
      BY <1>1, <2>1, <2>2, InsertSafe
  <1>5. CASE AppendVerification(a)
    <2> DEFINE v == Row("verifications", a, a, None)
               result == Row("results", a, a, None)
    <2>1. v \in Rows /\ result \in Rows /\ v.call = None /\ result.call = None
          /\ v # PauseRow /\ result # PauseRow
      BY DEF Rows, Shaped, Row, Ids, Owner, PauseRow
    <2>2. PICK to : Insert(a, {v, result}, to)
      BY <1>5 DEF AppendVerification
    <2> HIDE DEF v, result
    <2> DEFINE new == {v, result}
    <2>3. /\ new \in SUBSET Rows /\ new # {} /\ PauseRow \notin new
          /\ \A row \in new : row.call = None
      BY <2>1
    <2>4. Insert(a, new, to)
      BY <2>2
    <2> HIDE DEF new
    <2> QED
      BY <1>1, <2>3, <2>4, InsertSafe
  <1> QED
    BY <1>2, <1>3, <1>4, <1>5

\* A writer that reads, or stops.
LEMMA ReadsSafe ==
  ASSUME IInv, \/ \E w \in Writers : Get(w) \/ Stop(w)
               \/ \E a \in Attempts : Find(a) \/ Ask(a)
  PROVE  IInv'
  <1>1. UNCHANGED <<rows, gone, command>> /\ StepInv
    BY DEF Get, Stop, Find, Ask, Unwritten, IInv
  <1>2. ASSUME NEW w \in Writers, Get(w)
        PROVE  StepInv'
    <2>1. PICK to : Goto(w, to) /\ to.step = "read"
      BY <1>2 DEF Get
    <2>2. w # "hand" /\ w # "classifier"
      BY <1>2, WriterNames DEF Get
    <2> QED
      BY <1>1, <2>1, <2>2, StepsTo
  <1>3. ASSUME NEW w \in Writers, Stop(w)
        PROVE  StepInv'
    <2>1. PICK to : Goto(w, to) /\ to.step \in {"idle", "failed"}
      BY <1>3 DEF Stop, At
    <2> QED
      BY <1>1, <2>1, StepsTo
  <1>4. ASSUME NEW a \in Attempts, Find(a)
        PROVE  StepInv'
    <2>1. PICK to : Goto("hand", to) /\ to.attempt = a
      BY <1>4 DEF Find
    <2> QED
      BY <1>1, <2>1, StepsTo, WriterNames
  <1>5. ASSUME NEW a \in Attempts, Ask(a)
        PROVE  StepInv'
    <2>1. PICK to : Goto("classifier", to) /\ to.attempt = a /\ to.step = "asking"
      BY <1>5 DEF Ask
    <2> QED
      BY <1>1, <2>1, StepsTo, WriterNames
  <1> QED
    BY <1>1, <1>2, <1>3, <1>4, <1>5, UnwrittenSafe

LEMMA SaySafe ==
  ASSUME IInv, Say
  PROVE  IInv'
  <1> DEFINE a == step["hand"].attempt
             claim == ClaimRow(a, None)
             label == Row("self_labels", a, a, None)
  <1>1. a \in Attempts /\ "hand" \in Writers \ {"classifier"}
    BY WriterNames DEF Say, IInv, StepInv
  <1>2. /\ claim \in Rows /\ claim.call = None /\ claim # PauseRow
        /\ label \in Rows /\ label.call = None /\ label # PauseRow
    BY <1>1 DEF ClaimRow, Rows, Shaped, Row, Ids, Owner, PauseRow
  <1>3. PICK row \in {claim, label} : Insert("hand", {row}, At("done"))
    BY DEF Say
  <1> HIDE DEF claim, label
  <1> DEFINE new == {row}
  <1>4. /\ new \in SUBSET Rows /\ new # {} /\ PauseRow \notin new
        /\ \A r \in new : r.call = None
    BY <1>2, <1>3
  <1>5. Insert("hand", new, At("done")) /\ At("done").step # "found"
    BY <1>3 DEF At
  <1> HIDE DEF new
  <1> QED
    BY <1>1, <1>4, <1>5, InsertSafe

LEMMA WriteSafe ==
  ASSUME IInv, Write
  PROVE  IInv'
  BY EngineSafe, AttemptSafe, SaySafe, AppendClaimSafe, LoggedSafe, ReadsSafe DEF Write

-----------------------------------------------------------------------------
(* The erasure.                                                            *)

\* The writers stay where they are, with the rows of a command that ended.
LEMMA StepsStay ==
  ASSUME StepInv, step' = step, rows' \subseteq rows, command'.state # "deleting"
  PROVE  StepInv'
  BY DEF StepInv

LEMMA RolledBackSafe ==
  ASSUME IInv, gone' = {}, UNCHANGED <<rows, step>>, NEW state \in {"none", "refused"},
         NEW wrote \in SUBSET Rows, command' = Ended(state, wrote)
  PROVE  IInv'
  <1>1. command' \in Commands /\ command'.state \notin {"deleting", "printing"}
    BY DEF Ended, Commands
  <1>2. RowsInv'
    BY <1>1 DEF IInv, RowsInv, Visible
  <1>3. StepInv'
    BY <1>1, StepsStay DEF IInv
  <1> QED
    BY <1>1, <1>2, <1>3 DEF IInv, ErasingInv, PrintingInv

LEMMA BeginSafe ==
  ASSUME IInv, Begin
  PROVE  IInv'
  <1>1. gone = {} /\ RowsInv /\ StepInv /\ UNCHANGED <<rows, gone, step>>
    BY DEF IInv, RowsInv, Begin, Running
  <1>2. /\ command'.state = "deleting" /\ command'.at = 1 /\ command'.left = rows
        /\ command'.named = Named(rows) /\ command'.wrote = {}
    BY DEF Begin
  <1>3. command' \in Commands
    <2>1. rows \in SUBSET Rows /\ Named(rows) \in SUBSET Calls
      BY <1>1, RowFields DEF RowsInv, Named, Of
    <2> QED
      BY <2>1 DEF Begin, Commands
  <1>4. RowsInv' /\ StepInv'
    BY <1>1, <1>2 DEF RowsInv, Visible, StepInv
  <1>5. \A table : ~ Passed(table)'
    BY <1>2 DEF Passed
  <1>6. ErasingInv'
    BY <1>1, <1>2, <1>5 DEF ErasingInv, RowsInv
  <1> QED
    BY <1>2, <1>3, <1>4, <1>6 DEF IInv, PrintingInv

LEMMA DeleteSafe ==
  ASSUME IInv, Delete
  PROVE  IInv'
  <1> DEFINE deleted == Of(Order[command.at], Visible)
             rest == Visible \ deleted
             later == [command EXCEPT !.at = @ + 1]
  <1>1. /\ RowsInv /\ StepInv /\ ErasingInv /\ command.state = "deleting"
        /\ command.at \in 1..11
        /\ command \in [state : {"deleting"}, at : 1..12, left : SUBSET Rows,
                        named : SUBSET Calls, wrote : SUBSET Rows]
    BY OrderIs, CommandIs DEF IInv, Delete, Deleting
  <1>2. CASE \A row \in rest : Supported(row, rest)
    <2>1. gone' = gone \union deleted /\ command' = later /\ UNCHANGED <<rows, step>>
      BY <1>2 DEF Delete
    <2>2. /\ later \in Commands /\ later.state = "deleting" /\ later.at = command.at + 1
          /\ later.left = command.left /\ later.named = command.named
          /\ later.wrote = command.wrote
      BY <1>1 DEF Commands
    <2> HIDE DEF later
    <2>3. Visible' = rest
      BY <2>1 DEF Visible
    <2>4. RowsInv'
      BY <1>1, <1>2, <2>1, <2>2, <2>3 DEF RowsInv, Visible, Of
    <2>5. StepInv'
      BY <1>1, <2>1, <2>2 DEF StepInv
    <2>6. \A table : Passed(table)' <=> Passed(table) \/ Order[command.at] = table
      BY <1>1, <2>1, <2>2 DEF Passed
    <2>7. \A row \in rows : row \in gone' <=> row \in gone \/ row.table = Order[command.at]
      BY <2>1 DEF Visible, Of
    <2>8. \A row \in command.left : row # PauseRow /\ Passed(row.table)' => row \in gone'
      BY <1>1, <2>6, <2>7 DEF ErasingInv
    <2>9. ASSUME PauseRow \in command.left, Passed("sittings")', PauseRow \notin gone'
          PROVE  PauseRow \notin rows
      <3>1. CASE Passed("sittings")
        BY <1>1, <2>1, <2>9, <3>1 DEF ErasingInv
      <3>2. SittingRow \in command.left
        <4>1. Supported(PauseRow, command.left) /\ Owner["pauses"] = "sittings"
          BY <1>1, <2>9 DEF ErasingInv, Owner
        <4> QED
          BY <1>1, <4>1, SupportIs, SittingRows, UserLogAssumption
      <3>3. SittingRow \in gone'
        BY <2>8, <2>9, <3>2, SittingRows
      <3>4. ASSUME PauseRow \in rows
            PROVE  FALSE
        <4>1. PauseRow \in rest /\ rest \subseteq Rows /\ SittingRow \notin rest
          BY <1>1, <2>1, <2>3, <2>9, <3>3, <3>4 DEF Visible, RowsInv
        <4>2. Supported(PauseRow, rest) /\ Owner["pauses"] = "sittings"
          BY <1>2, <4>1 DEF Owner
        <4> HIDE DEF rest
        <4> QED
          BY <4>1, <4>2, SupportIs, SittingRows, UserLogAssumption
      <3> QED
        BY <3>4
    <2>10. ASSUME command.wrote = {}
           PROVE  /\ rows = command.left
                  /\ \A row \in rows : row \in gone' <=> Passed(row.table)'
      BY <1>1, <2>6, <2>7, <2>10 DEF ErasingInv
    <2>11. ErasingInv'
      BY <1>1, <2>1, <2>2, <2>8, <2>9, <2>10 DEF ErasingInv
    <2> QED
      BY <2>1, <2>2, <2>4, <2>5, <2>11 DEF IInv, PrintingInv
  <1>3. CASE ~ \A row \in rest : Supported(row, rest)
    <2>1. RolledBack /\ command.wrote \in SUBSET Rows
      BY <1>1, <1>3 DEF Delete
    <2> QED
      BY <2>1, RolledBackSafe DEF RolledBack
  <1> QED
    BY <1>2, <1>3

LEMMA DeadlockSafe ==
  ASSUME IInv, NEW w \in Attempts \union {"pause"}, Deadlock(w)
  PROVE  IInv'
  <1>1. CASE Goto(w, At("failed")) /\ UNCHANGED <<rows, gone, command>>
    <2>1. StepInv'
      BY <1>1, StepsTo, WriterNames DEF IInv, At
    <2> QED
      BY <1>1, <2>1, UnwrittenSafe
  <1>2. CASE RolledBack
    BY <1>2, RolledBackSafe, CommandIs DEF RolledBack, IInv
  <1> QED
    BY <1>1, <1>2 DEF Deadlock

\* The calls the erasure deletes are those no row left names.
DeletedCalls == {row \in Of("calls", Visible) :
                   row.id \in command.named /\ ~ \E other \in Visible : other.call = row.id}

LEMMA CommitSafe ==
  ASSUME IInv, Commit
  PROVE  IInv'
  <1>1. /\ RowsInv /\ StepInv /\ rows' = Visible \ DeletedCalls /\ gone' = {}
        /\ command' = Ended("erased", command.wrote) /\ step' = step
        /\ command.wrote \in SUBSET Rows /\ rows \subseteq Rows
    BY CommandIs DEF IInv, Commit, DeletedCalls, RowsInv
  <1>2. command' \in Commands /\ command'.state = "erased"
    BY <1>1 DEF Ended, Commands
  <1>3. ASSUME NEW row \in rows'
        PROVE  Supported(row, rows')
    <2>1. row \in Visible /\ row \in Rows /\ Supported(row, Visible)
      BY <1>1 DEF RowsInv, Visible
    <2>2. ASSUME row.of # None
          PROVE  \E p \in rows' : p.table = Owner[row.table] /\ p.id = row.of
      <3>1. PICK p \in Visible : p.table = Owner[row.table] /\ p.id = row.of
        BY <2>1, <2>2 DEF Supported
      <3>2. p \notin DeletedCalls
        BY <2>1, <2>2, <3>1, OwnerIs DEF DeletedCalls, Of
      <3> QED
        BY <1>1, <3>1, <3>2
    <2>3. ASSUME row.call # None
          PROVE  \E p \in rows' : p.table = "calls" /\ p.id = row.call
      <3>1. PICK p \in Visible : p.table = "calls" /\ p.id = row.call
        BY <2>1, <2>3 DEF Supported
      <3>2. p \notin DeletedCalls
        BY <2>1, <3>1 DEF DeletedCalls
      <3> QED
        BY <1>1, <3>1, <3>2
    <2> QED
      BY <2>2, <2>3 DEF Supported
  <1>4. RowsInv'
    BY <1>1, <1>2, <1>3 DEF RowsInv, Visible
  <1>5. StepInv'
    BY <1>1, <1>2, StepsStay DEF Visible
  <1> QED
    BY <1>2, <1>4, <1>5 DEF IInv, ErasingInv, PrintingInv

LEMMA InterruptedSafe ==
  ASSUME IInv, Interrupted
  PROVE  IInv'
  <1>1. {} \in SUBSET Rows
    OBVIOUS
  <1> QED
    BY <1>1, RolledBackSafe DEF Interrupted

-----------------------------------------------------------------------------
(* The print.                                                              *)

LEMMA ReadsAre ==
  /\ DOMAIN Reads = 1..6 /\ Len(Reads) = 6 /\ Reads[1] = "claims" /\ Reads[2] = "calls"
  /\ Reads[3] = "sittings" /\ Reads[4] = "attempts" /\ Reads[5] = "verifications"
  /\ Reads[6] = "self_labels"
  BY DEF Reads

LEMMA ExportSafe ==
  ASSUME IInv, Export
  PROVE  IInv'
  <1>1. UNCHANGED <<rows, gone, step>> /\ gone = {} /\ RowsInv /\ StepInv
    BY DEF Export, Running, IInv, RowsInv
  <1>2. command'.state = "printing" /\ command'.at = 1 /\ command'.held = {}
    BY DEF Export
  <1>3. command' \in Commands
    BY DEF Export, Commands
  <1>4. RowsInv' /\ StepInv'
    BY <1>1, <1>2, StepsStay DEF RowsInv, Visible
  <1>5. PrintingInv'
    BY <1>1, <1>2 DEF PrintingInv
  <1> QED
    BY <1>2, <1>3, <1>4, <1>5 DEF IInv, ErasingInv

\* A query takes every row of its table, the calls' only what the claims name.
LEMMA ReadSafe ==
  ASSUME IInv, Read
  PROVE  IInv'
  <1> DEFINE table == Reads[command.at]
             found == IF table = "calls"
                      THEN {row \in Of("calls", rows) : row.id \in Named(command.held)}
                      ELSE Of(table, rows)
             later == [command EXCEPT !.at = @ + 1, !.held = @ \union found]
  <1>1. /\ RowsInv /\ StepInv /\ PrintingInv /\ UNCHANGED <<rows, gone, step>>
        /\ command.state = "printing" /\ command.at \in 1..6 /\ command' = later
        /\ rows \subseteq Rows
        /\ command \in [state : {"printing"}, at : 1..7, held : SUBSET Rows, wrote : SUBSET Rows]
    BY ReadsAre, CommandIs DEF IInv, Read, RowsInv
  <1>2. found \subseteq rows /\ \A row \in found : row.table = table
    BY DEF Of
  <1>3. /\ command.at = 1 => table = "claims" 
        /\ command.at = 2 => table = "calls" 
        /\ command.at = 3 => table = "sittings" 
        /\ command.at = 4 => table = "attempts" 
        /\ command.at = 5 => table = "verifications" 
        /\ command.at = 6 => table = "self_labels"
    BY ReadsAre
  <1>4. table \in {"claims", "calls", "sittings", "attempts", "verifications", "self_labels"}
    BY <1>1, <1>3
  <1>5. table = "claims" => command.at = 1
    BY <1>1, <1>3
  <1>6. /\ table # "calls" => found = Of(table, rows)
        /\ table = "calls" => found = {row \in Of("calls", rows) : row.id \in Named(command.held)}
    OBVIOUS
  <1> HIDE DEF found, table
  <1>7. /\ later \in Commands /\ later.state = "printing" /\ later.at = command.at + 1
        /\ later.held = command.held \union found /\ later.wrote = command.wrote
    <2>1. /\ command.at + 1 \in 1..7
          /\ command.held \union found \in SUBSET Rows
      BY <1>1, <1>2
    <2>2. later \in [state : {"printing"}, at : 1..7, held : SUBSET Rows, wrote : SUBSET Rows]
      BY <1>1, <2>1
    <2> QED
      BY <1>1, <2>2 DEF Commands
  <1> HIDE DEF later
  <1>8. RowsInv' /\ StepInv'
    BY <1>1, <1>7, StepsStay DEF RowsInv, Visible
  <1>9. command'.held \subseteq rows'
    BY <1>1, <1>2, <1>7 DEF PrintingInv
  <1>10. \A row \in command'.held :
           row.table \in {"claims", "calls", "sittings", "attempts", "verifications", "self_labels"}
    BY <1>1, <1>2, <1>4, <1>7 DEF PrintingInv
  <1>11. command.at > 1 => Of("claims", command'.held) = Of("claims", command.held)
    BY <1>1, <1>2, <1>5, <1>7 DEF Of
  <1>12. ASSUME command'.at > 2, NEW row \in Of("claims", command'.held), row.call # None
         PROVE  CallRow(row.call) \in command'.held
    <2>1. row \in Of("claims", command.held) /\ row \in Rows /\ row \in rows
      BY <1>1, <1>7, <1>11, <1>12 DEF Of, PrintingInv
    <2>2. CASE command.at = 2
      <3>1. CallRow(row.call) \in rows
        BY <1>1, <1>12, <2>1, SupportIs DEF RowsInv
      <3>2. row.call \in Calls /\ row.call \in Named(command.held)
        BY <1>12, <2>1, RowFields DEF Named
      <3>3. CallRow(row.call) \in found
        BY <1>3, <1>6, <2>2, <3>1, <3>2, CallRows DEF Of
      <3> QED
        BY <1>1, <1>7, <3>3
    <2>3. CASE command.at > 2
      BY <1>1, <1>7, <1>12, <2>1, <2>3 DEF PrintingInv
    <2> QED
      BY <1>1, <1>7, <1>12, <2>2, <2>3
  <1>13. ASSUME NEW named \in {"sittings", "attempts"}, Kept(named) \/ table = named
         PROVE  Kept(named)'
    <2>1. CASE Kept(named)
      BY <1>1, <1>7, <2>1 DEF Kept
    <2>2. CASE table = named
      BY <1>1, <1>6, <1>7, <2>2 DEF Kept, Of
    <2> QED
      BY <1>13, <2>1, <2>2
  <1>14. command'.at > 3 => Kept("sittings")'
    BY <1>1, <1>3, <1>7, <1>13 DEF PrintingInv
  <1>15. command'.at > 4 => Kept("attempts")'
    BY <1>1, <1>3, <1>7, <1>13 DEF PrintingInv
  <1>16. ASSUME command'.at > 4, NEW row \in Of("claims", command'.held), row.of # None
         PROVE  AttemptRow(row.of) \in command'.held
    <2>1. row \in Of("claims", command.held) /\ row \in Rows /\ row \in rows
      BY <1>1, <1>7, <1>11, <1>16 DEF Of, PrintingInv
    <2>2. CASE command.at = 4
      <3>1. Owner[row.table] = "attempts" /\ rows \subseteq Rows /\ Supported(row, rows)
        BY <1>1, <2>1 DEF Of, Owner, RowsInv
      <3>2. AttemptRow(row.of) \in rows
        BY <1>16, <2>1, <3>1, SupportIs
      <3>3. AttemptRow(row.of).table = "attempts"
        BY DEF AttemptRow, Row
      <3> QED
        BY <1>1, <1>3, <1>6, <1>7, <2>2, <3>2, <3>3 DEF Of
    <2>3. CASE command.at > 4
      BY <1>1, <1>7, <1>16, <2>1, <2>3 DEF PrintingInv
    <2> QED
      BY <1>1, <1>7, <1>16, <2>2, <2>3
  <1>17. PrintingInv'
    BY <1>9, <1>10, <1>12, <1>14, <1>15, <1>16 DEF PrintingInv
  <1> QED
    BY <1>1, <1>7, <1>8, <1>17 DEF IInv, ErasingInv

-----------------------------------------------------------------------------
(* The invariant, and what it gives.                                       *)

LEMMA InitSafe == Init => IInv
  <1> SUFFICES ASSUME Init PROVE IInv
    OBVIOUS
  <1>1. command.state = "none" /\ command \in Commands
    BY DEF Init, Ended, Commands
  <1>2. RowsInv
    BY DEF Init, RowsInv, Visible
  <1>3. StepInv
    <2>1. step = [w \in Writers |-> step[w]] /\ \A w \in Writers : step[w].step = "idle"
      BY DEF Init, At
    <2> QED
      BY <2>1, WriterNames DEF StepInv
  <1> QED
    BY <1>1, <1>2, <1>3 DEF IInv, ErasingInv, PrintingInv

LEMMA NextSafe == IInv /\ [Next]_vars => IInv'
  <1> SUFFICES ASSUME IInv, [Next]_vars PROVE IInv'
    OBVIOUS
  <1>1. CASE UNCHANGED vars
    <2>1. UNCHANGED <<rows, gone, step, command>>
      BY <1>1 DEF vars
    <2>2. StepInv'
      BY <2>1 DEF IInv, StepInv
    <2> QED
      BY <2>1, <2>2, UnwrittenSafe
  <1>2. CASE Next
    BY <1>2, WriteSafe, BeginSafe, DeleteSafe, CommitSafe, InterruptedSafe, DeadlockSafe,
       ExportSafe, ReadSafe DEF Next
  <1> QED
    BY <1>1, <1>2

\* The invariant the others rest on: the rows and their owners, the call a
\* classifier holds, what an erasure passed and what a print holds.
THEOREM UserLogSound == Spec => []IInv
  BY InitSafe, NextSafe, PTL DEF Spec

\* What is stored belongs to something stored, for every interleaving of the
\* writers with the erasure of log/owned.py.
THEOREM LogStaysWhole == Spec => []TypeOK
  <1>1. IInv => TypeOK
    BY DEF IInv, RowsInv, TypeOK
  <1> QED
    BY <1>1, UserLogSound, PTL

\* A log printed by whole_log while the engine writes names only what it holds
\* or what was written meanwhile.
THEOREM PrintIsClosed == Spec => []ExportIsClosed
  <1>1. IInv => ExportIsClosed
    <2> SUFFICES ASSUME IInv, command.state = "printing", command.at = 7, NEW row \in command.held
                 PROVE  /\ row.table = "claims" => Supported(row, command.held)
                        /\ ~ Supported(row, command.held) => row \in command.wrote
      BY ReadsAre DEF ExportIsClosed
    <2>1. /\ PrintingInv /\ RowsInv /\ row \in rows /\ row \in Rows /\ rows \subseteq Rows
          /\ Supported(row, rows) /\ Shaped(row)
      BY RowFields DEF IInv, PrintingInv, RowsInv
    <2>2. CASE row.table = "claims"
      <3>1. row.call # None => CallRow(row.call) \in command.held
        BY <2>1, <2>2 DEF PrintingInv, Of
      <3>2. row.of # None => AttemptRow(row.of) \in command.held
        BY <2>1, <2>2 DEF PrintingInv, Of
      <3>3. /\ CallRow(row.call).table = "calls" /\ CallRow(row.call).id = row.call
            /\ AttemptRow(row.of).table = "attempts" /\ AttemptRow(row.of).id = row.of
        BY DEF CallRow, AttemptRow, Row
      <3>4. Owner[row.table] = "attempts"
        BY <2>2 DEF Owner
      <3> QED
        BY <3>1, <3>2, <3>3, <3>4 DEF Supported
    <2>3. CASE row.table # "claims"
      <3>1. row.call = None
        BY <2>1, <2>3 DEF Shaped
      <3>2. CASE row.of = None
        BY <2>3, <3>1, <3>2 DEF Supported
      <3>3. CASE row.of # None
        <4>1. row.table \in {"attempts", "verifications", "self_labels"}
          BY <2>1, <2>3, <3>3 DEF PrintingInv, Shaped
        <4>2. Owner[row.table] \in {"sittings", "attempts"}
          BY <4>1 DEF Owner
        <4>3. PICK p \in rows : p.table = Owner[row.table] /\ p.id = row.of
          BY <2>1, <3>3 DEF Supported
        <4>4. References(row, p) /\ Kept(p.table)
          BY <2>1, <4>2, <4>3 DEF References, PrintingInv
        <4>5. CASE p \in command.held
          BY <2>3, <3>1, <4>3, <4>5 DEF Supported
        <4>6. CASE p \notin command.held
          BY <2>1, <2>3, <4>4, <4>6 DEF Kept
        <4> QED
          BY <4>5, <4>6
      <3> QED
        BY <3>2, <3>3
    <2> QED
      BY <2>2, <2>3
  <1> QED
    BY <1>1, UserLogSound, PTL

\* What a committed erasure leaves: of the log it found, at most calls, and of
\* these none its claims named.
LEMMA CommitLeavesNone ==
  ASSUME IInv, Commit
  PROVE  /\ rows' \intersect command.left \subseteq Of("calls", rows)
         /\ \A row \in Of("claims", command.left) :
              row.call # None => CallRow(row.call) \notin rows'
  <1>1. /\ RowsInv /\ ErasingInv /\ command.state = "deleting" /\ command.at = 12
        /\ rows' = Visible \ DeletedCalls /\ command.left \subseteq Rows
    BY OrderIs, CommandIs DEF IInv, Commit, DeletedCalls
  <1>2. \A table \in DOMAIN Owner : table # "calls" => Passed(table)
    BY <1>1, OrderIs DEF Passed
  <1>3. ASSUME NEW row \in command.left, row \in Visible
        PROVE  row.table = "calls"
    <2>1. row \in Rows /\ row.table \in DOMAIN Owner /\ row \in rows /\ row \notin gone
      BY <1>1, <1>3, RowFields DEF Visible
    <2>2. CASE row = PauseRow
      <3>1. Passed("sittings")
        BY <1>2 DEF Owner
      <3> QED
        BY <1>1, <2>1, <2>2, <3>1 DEF ErasingInv
    <2>3. CASE row # PauseRow
      BY <1>1, <1>2, <2>1, <2>3 DEF ErasingInv
    <2> QED
      BY <2>2, <2>3
  <1>4. rows' \intersect command.left \subseteq Of("calls", rows)
    BY <1>1, <1>3 DEF Of, Visible
  <1>5. ASSUME NEW row \in Of("claims", command.left), row.call # None,
               CallRow(row.call) \in rows'
        PROVE  FALSE
    <2>1. row \in Rows /\ row.call \in Calls /\ row.call \in command.named
      BY <1>1, <1>5, RowFields DEF Of, Named, ErasingInv
    <2>2. CallRow(row.call) \in Of("calls", Visible)
      BY <1>1, <1>5, <2>1, CallRows DEF Of
    <2>3. PICK other \in Visible : other.call = row.call
      BY <1>1, <1>5, <2>1, <2>2, CallRows DEF DeletedCalls
    <2>4. CASE other \in command.left
      BY <1>1, <1>3, <1>5, <2>3, <2>4, RowFields DEF Shaped
    <2>5. CASE other \notin command.left
      BY <1>1, <2>1, <2>3, <2>5 DEF ErasingInv, Visible
    <2> QED
      BY <2>4, <2>5
  <1> QED
    BY <1>4, <1>5

\* A delete is refused only over a row written since the erasure began.
LEMMA RefusedOverANewRow ==
  ASSUME IInv, Delete, command.wrote = {}
  PROVE  ~ RolledBack
  <1> DEFINE deleted == Of(Order[command.at], Visible)
             rest == Visible \ deleted
  <1>1. /\ RowsInv /\ ErasingInv /\ command.state = "deleting" /\ command.at \in 1..11
        /\ rows \subseteq Rows
    BY OrderIs DEF IInv, Delete, Deleting, RowsInv
  <1>2. \A row \in rows :
          row \in rest <=> ~ Passed(row.table) /\ row.table # Order[command.at]
    BY <1>1 DEF Visible, Of, ErasingInv
  <1>3. rest \subseteq rows
    BY DEF Visible
  <1> HIDE DEF rest
  <1>4. ASSUME NEW row \in rest
        PROVE  Supported(row, rest)
    <2>1. row \in rows /\ row \in Rows /\ Supported(row, rows)
      BY <1>1, <1>3 DEF RowsInv
    <2>2. ASSUME row.of # None
          PROVE  \E p \in rest : p.table = Owner[row.table] /\ p.id = row.of
      <3>1. PICK p \in rows : p.table = Owner[row.table] /\ p.id = row.of
        BY <2>1, <2>2 DEF Supported
      <3>2. ASSUME NEW i \in 1..11, i <= command.at, Order[i] = p.table
            PROVE  FALSE
        <4>1. PICK j \in 1..11 : j < i /\ Order[j] = row.table
          BY <2>1, <2>2, <3>1, <3>2, ChildrenFirst
        <4>2. Passed(row.table)
          BY <1>1, <3>2, <4>1 DEF Passed
        <4> QED
          BY <1>2, <2>1, <4>2
      <3>3. p \in rest
        BY <1>1, <1>2, <3>2 DEF Passed
      <3> QED
        BY <3>1, <3>3
    <2>3. ASSUME row.call # None
          PROVE  \E p \in rest : p.table = "calls" /\ p.id = row.call
      <3>1. PICK p \in rows : p.table = "calls" /\ p.id = row.call
        BY <2>1, <2>3 DEF Supported
      <3>2. ~ Passed("calls") /\ Order[command.at] # "calls"
        BY <1>1, OrderIs DEF Passed
      <3> QED
        BY <1>2, <3>1, <3>2
    <2> QED
      BY <2>2, <2>3 DEF Supported
  <1>5. command' = [command EXCEPT !.at = @ + 1]
    BY <1>4 DEF Delete, rest
  <1>6. command'.state = "deleting"
    BY <1>1, <1>5, CommandIs DEF IInv
  <1> QED
    BY <1>6 DEF RolledBack, Ended

\* A writer's row is noticed, and nothing else of the command.
LEMMA WriteKeepsTheCommand ==
  ASSUME command \in Commands, Write
  PROVE  command'.state = command.state
  <1>1. ASSUME NEW new, Noticed(new)
        PROVE  command'.state = command.state
    <2>1. "state" \in DOMAIN command
      BY DEF Commands
    <2> QED
      BY <1>1, <2>1 DEF Noticed
  <1>2. ASSUME NEW w, NEW paused, NEW to, Put(w, paused, to)
        PROVE  command'.state = command.state
    BY <1>1, <1>2 DEF Put
  <1>3. ASSUME NEW w, NEW new, NEW to, Insert(w, new, to)
        PROVE  command'.state = command.state
    BY <1>1, <1>3 DEF Insert
  <1>4. CASE Serve \/ Pause \/ \E a \in Attempts : Touch(a) \/ EndSolved(a)
    BY <1>2, <1>4 DEF Serve, Pause, Touch, EndSolved
  <1>5. CASE \E a \in Attempts : AppendAttempt(a) \/ AppendVerification(a)
    BY <1>3, <1>5 DEF AppendAttempt, AppendVerification
  <1>6. CASE Say \/ StartCard \/ AppendRecall \/ AppendClaim
    BY <1>3, <1>6 DEF Say, StartCard, AppendRecall, AppendClaim
  <1>7. CASE \E k \in Calls : Logged(k)
    BY <1>1, <1>7 DEF Logged
  <1>8. CASE \/ \E a \in Attempts : Find(a) \/ Ask(a)
             \/ \E w \in Writers : Get(w) \/ Stop(w)
    BY <1>8 DEF Find, Ask, Get, Stop, Unwritten
  <1> QED
    BY <1>4, <1>5, <1>6, <1>7, <1>8 DEF Write

\* An erasure that commits is whole, and one that is refused met a row written
\* since it began or a writer it deadlocked with (log/owned.py `erase`).
THEOREM ErasingIsWhole == Spec => ErasureIsWhole
  <1> DEFINE Whole ==
        /\ (command.state # "erased" /\ command'.state = "erased") =>
             /\ rows' \intersect command.left \subseteq Of("calls", rows)
             /\ \A row \in Of("claims", command.left) :
                  row.call # None => CallRow(row.call) \notin rows'
        /\ (command.state # "refused" /\ command'.state = "refused") =>
             \/ command.wrote # {}
             \/ \E w \in Writers : Crossed(w)
  <1>1. ASSUME IInv, Next
        PROVE  Whole
    <2>1. CASE Write \/ Read
      <3>1. command'.state = command.state
        <4>1. CASE Write
          BY <1>1, <4>1, WriteKeepsTheCommand DEF IInv
        <4>2. CASE Read
          BY <1>1, <4>2, CommandIs DEF IInv, Read
        <4> QED
          BY <2>1, <4>1, <4>2
      <3> QED
        BY <3>1
    <2>2. CASE Begin \/ Export
      BY <2>2 DEF Begin, Export
    <2>3. CASE Delete
      <3>1. command.state = "deleting"
        BY <2>3 DEF Delete, Deleting
      <3>2. CASE RolledBack
        <4>1. command.wrote # {}
          BY <1>1, <2>3, <3>2, RefusedOverANewRow
        <4>2. command'.state = "refused"
          BY <3>2 DEF RolledBack, Ended
        <4> QED
          BY <4>1, <4>2
      <3>3. CASE command' = [command EXCEPT !.at = @ + 1]
        <4>1. command'.state = "deleting"
          BY <1>1, <3>1, <3>3, CommandIs DEF IInv
        <4> QED
          BY <4>1
      <3> QED
        BY <2>3, <3>2, <3>3 DEF Delete
    <2>4. CASE Commit
      BY <1>1, <2>4, CommitLeavesNone DEF Commit, Ended
    <2>5. CASE Interrupted
      BY <2>5 DEF Interrupted, Ended
    <2>6. ASSUME NEW w \in Attempts \union {"pause"}, Deadlock(w)
          PROVE  Whole
      BY <2>6, WriterNames DEF Deadlock, RolledBack, Ended
    <2> QED
      BY <1>1, <2>1, <2>2, <2>3, <2>4, <2>5, <2>6 DEF Next
  <1>2. IInv /\ [Next]_vars => [Whole]_vars
    BY <1>1
  <1> QED
    BY <1>2, UserLogSound, PTL DEF Spec, ErasureIsWhole

-----------------------------------------------------------------------------
(* The runs that write the log.  Of Driver, for every configuration, item, *)
(* part and budget, and whatever is asked for.                             *)

LEMMA LeastNumber ==
  ASSUME NEW S \in SUBSET Nat, S # {}
  PROVE  \E x \in S : \A y \in S : x <= y
  <1>1. PICK x \in S : \A y \in S : ~ (<<y, x>> \in OpToRel(<, Nat))
    BY NatLessThanWellFounded, WFMin, Zenon
  <1>2. ASSUME NEW y \in S
        PROVE  x <= y
    <2>1. x \in Nat /\ y \in Nat /\ ~ (y < x)
      BY <1>1 DEF OpToRel
    <2> QED
      BY <2>1
  <1> QED
    BY <1>2

LEMMA OrderListsAll ==
  ASSUME NEW S, IsFiniteSet(S), S \subseteq Nat
  PROVE  /\ Cardinality(S) \in Nat
         /\ InOrder(S) \in [1..Cardinality(S) -> S]
         /\ \A i \in S : \E k \in 1..Cardinality(S) : InOrder(S)[k] = i
         /\ \A j, k \in 1..Cardinality(S) : j < k => InOrder(S)[j] < InOrder(S)[k]
  <1> DEFINE n == Cardinality(S)
             Below(i) == {j \in S : j <= i}
             rank == [i \in S |-> Cardinality(Below(i))]
  <1>1. n \in Nat
    BY FS_CardinalityType
  <1>2. ASSUME NEW i \in S
        PROVE  IsFiniteSet(Below(i)) /\ Cardinality(Below(i)) \in 1..n
    <2>1. Below(i) \in SUBSET S /\ i \in Below(i)
      OBVIOUS
    <2> HIDE DEF Below
    <2>2. IsFiniteSet(Below(i)) /\ Cardinality(Below(i)) <= n
      BY <2>1, FS_Subset
    <2>3. Cardinality(Below(i)) \in Nat
      BY <2>2, FS_CardinalityType
    <2>4. Cardinality(Below(i)) # 0
      BY <2>1, <2>2, FS_EmptySet
    <2> QED
      BY <1>1, <2>2, <2>3, <2>4
  <1>3. ASSUME NEW i \in S, NEW j \in S, i < j
        PROVE  Cardinality(Below(i)) < Cardinality(Below(j))
    <2>0. i \in Nat /\ j \in Nat
      OBVIOUS
    <2>1. Below(i) \in SUBSET Below(j) /\ j \in Below(j) /\ j \notin Below(i)
      <3>1. \A x \in S : x \in Nat
        OBVIOUS
      <3>2. \A x \in Below(i) : x \in S /\ x <= j
        BY <1>3, <2>0, <3>1
      <3>3. j \in Below(j) /\ j \notin Below(i)
        BY <1>3, <2>0
      <3>4. \A x \in Below(i) : x \in Below(j)
        BY <3>2
      <3> QED
        BY <3>3, <3>4
    <2> HIDE DEF Below
    <2>2. IsFiniteSet(Below(j)) /\ Cardinality(Below(j)) \in Nat /\ Cardinality(Below(i)) \in Nat
      BY <1>1, <1>2
    <2>3. /\ Cardinality(Below(i)) <= Cardinality(Below(j))
          /\ Cardinality(Below(j)) = Cardinality(Below(i)) => Below(j) = Below(i)
      BY <2>1, <2>2, FS_Subset
    <2> QED
      BY <2>1, <2>2, <2>3
  <1>4. \A i, j \in S : Cardinality(Below(i)) = Cardinality(Below(j)) => i = j
    <2>1. SUFFICES ASSUME NEW i \in S, NEW j \in S, i # j
                   PROVE  Cardinality(Below(i)) # Cardinality(Below(j))
      OBVIOUS
    <2>2. i < j \/ j < i
      BY <2>1
    <2>3. Cardinality(Below(i)) \in Nat /\ Cardinality(Below(j)) \in Nat
      BY <1>1, <1>2
    <2> HIDE DEF Below
    <2> QED
      BY <1>3, <2>2, <2>3
  <1>5. \A k \in 1..n : \E i \in S : Cardinality(Below(i)) = k
    <2>1. IsFiniteSet(1..n) /\ Cardinality(1..n) = n
      BY <1>1, FS_Interval
    <2>2. rank \in [S -> 1..n]
      BY <1>2
    <2>3. rank \in Injection(S, 1..n)
      BY <1>4, <2>2 DEF Injection, IsInjective
    <2>4. rank \in Surjection(S, 1..n)
      <3> HIDE DEF rank, n
      <3> QED
        BY <2>1, <2>3, FS_Injection DEF n
    <2>5. \A k \in 1..n : \E i \in S : rank[i] = k
      BY <2>4 DEF Surjection
    <2> QED
      BY <2>5
  <1>6. \A k \in 1..n : InOrder(S)[k] \in S /\ Cardinality(Below(InOrder(S)[k])) = k
    <2>1. InOrder(S) = [k \in 1..n |-> CHOOSE i \in S : Cardinality(Below(i)) = k]
      BY DEF InOrder
    <2>2. \A i : Cardinality(Below(i)) = Cardinality(Below(i))
      OBVIOUS
    <2> HIDE DEF Below, n
    <2>3. \A k \in 1..n : \E i \in S : Cardinality(Below(i)) = k
      BY <1>5, <2>2
    <2>4. \A k \in 1..n : InOrder(S)[k] = CHOOSE i \in S : Cardinality(Below(i)) = k
      BY <2>1
    <2> QED
      BY <2>2, <2>3, <2>4
  <1>7. InOrder(S) \in [1..n -> S]
    <2>1. InOrder(S) = [k \in 1..n |-> CHOOSE i \in S : Cardinality(Below(i)) = k]
      BY DEF InOrder
    <2> HIDE DEF Below, n
    <2> QED
      BY <1>6, <2>1
  <1>8. \A i \in S : \E k \in 1..n : InOrder(S)[k] = i
    <2> HIDE DEF Below
    <2> QED
      BY <1>2, <1>4, <1>6
  <1>9. ASSUME NEW j \in 1..n, NEW k \in 1..n, j < k
        PROVE  InOrder(S)[j] < InOrder(S)[k]
    <2> DEFINE a == InOrder(S)[j]
               b == InOrder(S)[k]
    <2>1. a \in S /\ b \in S /\ Cardinality(Below(a)) = j /\ Cardinality(Below(b)) = k
      BY <1>6
    <2>2. a \in Nat /\ b \in Nat
      BY <2>1
    <2> HIDE DEF a, b, Below
    <2>3. a # b /\ ~ (b < a)
      BY <1>1, <1>3, <1>9, <2>1
    <2>4. a < b
      BY <2>2, <2>3
    <2> QED
      BY <2>4 DEF a, b
  <1> QED
    BY <1>1, <1>7, <1>8, <1>9

\* What a sequence lists, and that it lists nothing twice.
Lists(s, i) == \E j \in DOMAIN s : s[j] = i
Once(s) == \A j, k \in DOMAIN s : s[j] = s[k] => j = k

LEMMA InOrderLists ==
  ASSUME NEW S, IsFiniteSet(S), S \subseteq Nat
  PROVE  /\ InOrder(S) \in Seq(S) /\ Len(InOrder(S)) = Cardinality(S)
         /\ \A i : Lists(InOrder(S), i) <=> i \in S
         /\ Once(InOrder(S))
  <1> DEFINE o == InOrder(S)
             n == Cardinality(S)
  <1>1. /\ n \in Nat /\ o \in [1..n -> S]
        /\ \A i \in S : \E k \in 1..n : o[k] = i
        /\ \A j, k \in 1..n : j < k => o[j] < o[k]
    BY OrderListsAll
  <1> HIDE DEF o, n
  <1>2. o \in Seq(S) /\ Len(o) = n /\ DOMAIN o = 1..n
    BY <1>1
  <1>3. \A i : Lists(o, i) <=> i \in S
    BY <1>1, <1>2 DEF Lists
  <1>4. Once(o)
    <2>1. SUFFICES ASSUME NEW j \in 1..n, NEW k \in 1..n, o[j] = o[k]
                   PROVE  j = k
      BY <1>2 DEF Once
    <2>2. o[j] \in Nat /\ o[k] \in Nat
      BY <1>1
    <2>3. ~ (o[j] < o[k]) /\ ~ (o[k] < o[j])
      BY <2>1, <2>2
    <2>4. ~ (j < k) /\ ~ (k < j)
      BY <1>1, <2>3
    <2> QED
      BY <1>1, <2>4
  <1> QED
    BY <1>2, <1>3, <1>4 DEF o, n

LEMMA CappedLists ==
  ASSUME NEW X, NEW s \in Seq(X), NEW n \in Nat
  PROVE  /\ Capped(s, n) \in Seq(X)
         /\ Once(s) => Once(Capped(s, n))
         /\ \A i : Lists(Capped(s, n), i) => Lists(s, i)
         /\ Len(s) <= n => Capped(s, n) = s
  <1> DEFINE m == IF n < Len(s) THEN n ELSE Len(s)
             t == Capped(s, n)
  <1>1. m \in 0..Len(s) /\ (Len(s) <= n => m = Len(s)) /\ t = SubSeq(s, 1, m)
    BY DEF Capped
  <1> HIDE DEF m, t
  <1>2. t \in Seq(X) /\ Len(t) = m /\ \A j \in 1..m : t[j] = s[j]
    BY <1>1
  <1>3. DOMAIN t = 1..m /\ DOMAIN s = 1..Len(s) /\ 1..m \subseteq 1..Len(s)
    BY <1>1, <1>2
  <1>4. Once(s) => Once(t)
    BY <1>2, <1>3 DEF Once
  <1>5. \A i : Lists(t, i) => Lists(s, i)
    BY <1>2, <1>3 DEF Lists
  <1>6. m = Len(s) => t = s
    BY <1>2
  <1> QED
    BY <1>1, <1>2, <1>4, <1>5, <1>6 DEF t

LEMMA JoinedLists ==
  ASSUME NEW X, NEW s \in Seq(X), NEW t \in Seq(X)
  PROVE  /\ s \o t \in Seq(X) /\ Len(s \o t) = Len(s) + Len(t)
         /\ \A i : Lists(s \o t, i) <=> Lists(s, i) \/ Lists(t, i)
         /\ Once(s) /\ Once(t) /\ (\A i : ~ (Lists(s, i) /\ Lists(t, i))) => Once(s \o t)
  <1> DEFINE u == s \o t
  <1>1. /\ u \in Seq(X) /\ Len(u) = Len(s) + Len(t)
        /\ \A j \in 1..Len(s) : u[j] = s[j]
        /\ \A j \in 1..Len(t) : u[Len(s) + j] = t[j]
        /\ \A j \in 1..Len(u) : j \in 1..Len(s) \/ j - Len(s) \in 1..Len(t)
        /\ DOMAIN u = 1..Len(u) /\ DOMAIN s = 1..Len(s) /\ DOMAIN t = 1..Len(t)
        /\ Len(s) \in Nat /\ Len(t) \in Nat
    OBVIOUS
  <1>2. \A j \in 1..Len(u) : j \notin 1..Len(s) => j - Len(s) \in 1..Len(t) /\ u[j] = t[j - Len(s)]
    <2>1. TAKE j \in 1..Len(u)
    <2>2. HAVE j \notin 1..Len(s)
    <2>3. j - Len(s) \in 1..Len(t)
      BY <1>1, <2>2
    <2>4. Len(s) + (j - Len(s)) = j
      BY <1>1
    <2> QED
      BY <1>1, <2>3, <2>4
  <1> HIDE DEF u
  <1>3. ASSUME NEW i
        PROVE  Lists(u, i) <=> Lists(s, i) \/ Lists(t, i)
    <2>1. Lists(u, i) => Lists(s, i) \/ Lists(t, i)
      BY <1>1, <1>2 DEF Lists
    <2>2. Lists(s, i) => Lists(u, i)
      BY <1>1 DEF Lists
    <2>3. Lists(t, i) => Lists(u, i)
      <3>1. SUFFICES ASSUME NEW j \in 1..Len(t), t[j] = i
                     PROVE  Lists(u, i)
        BY <1>1 DEF Lists
      <3>2. Len(s) + j \in 1..Len(u)
        BY <1>1
      <3> QED
        BY <1>1, <3>1, <3>2 DEF Lists
    <2> QED
      BY <2>1, <2>2, <2>3
  <1>4. ASSUME Once(s), Once(t), \A i : ~ (Lists(s, i) /\ Lists(t, i))
        PROVE  Once(u)
    <2>1. SUFFICES ASSUME NEW j \in 1..Len(u), NEW k \in 1..Len(u), u[j] = u[k]
                   PROVE  j = k
      BY <1>1 DEF Once
    <2>2. CASE j \in 1..Len(s) /\ k \in 1..Len(s)
      BY <1>1, <1>4, <2>1, <2>2 DEF Once
    <2>3. CASE j \notin 1..Len(s) /\ k \notin 1..Len(s)
      <3>1. t[j - Len(s)] = t[k - Len(s)] /\ j - Len(s) \in 1..Len(t) /\ k - Len(s) \in 1..Len(t)
        BY <1>2, <2>1, <2>3
      <3>2. j - Len(s) = k - Len(s)
        BY <1>1, <1>4, <3>1 DEF Once
      <3> QED
        BY <1>1, <3>2
    <2>4. CASE j \in 1..Len(s) /\ k \notin 1..Len(s)
      <3>1. Lists(s, u[j]) /\ Lists(t, u[k])
        BY <1>1, <1>2, <2>4 DEF Lists
      <3> QED
        BY <1>4, <2>1, <3>1
    <2>5. CASE j \notin 1..Len(s) /\ k \in 1..Len(s)
      <3>1. Lists(s, u[k]) /\ Lists(t, u[j])
        BY <1>1, <1>2, <2>5 DEF Lists
      <3> QED
        BY <1>4, <2>1, <3>1
    <2> QED
      BY <2>2, <2>3, <2>4, <2>5
  <1> QED
    BY <1>1, <1>3, <1>4 DEF u

LEMMA TailLists ==
  ASSUME NEW X, NEW s \in Seq(X), s # <<>>
  PROVE  /\ Head(s) \in X /\ Tail(s) \in Seq(X) /\ Len(Tail(s)) = Len(s) - 1
         /\ \A i : Lists(s, i) <=> i = Head(s) \/ Lists(Tail(s), i)
         /\ Once(s) => Once(Tail(s)) /\ ~ Lists(Tail(s), Head(s))
  <1> DEFINE t == Tail(s)
  <1>1. /\ Len(s) \in Nat \ {0} /\ t \in Seq(X) /\ Len(t) = Len(s) - 1 /\ Head(s) = s[1]
        /\ \A j \in 1..Len(t) : t[j] = s[j + 1]
        /\ DOMAIN t = 1..Len(t) /\ DOMAIN s = 1..Len(s) /\ 1 \in 1..Len(s) /\ s[1] \in X
    OBVIOUS
  <1> HIDE DEF t
  <1>2. \A j \in 1..Len(t) : j + 1 \in 1..Len(s) /\ j + 1 # 1
    BY <1>1
  <1>3. \A j \in 1..Len(s) : j # 1 => j - 1 \in 1..Len(t) /\ t[j - 1] = s[j]
    <2>1. TAKE j \in 1..Len(s)
    <2>2. HAVE j # 1
    <2>3. j - 1 \in 1..Len(t) /\ (j - 1) + 1 = j
      BY <1>1, <2>2
    <2> QED
      BY <1>1, <2>3
  <1>4. ASSUME NEW i
        PROVE  Lists(s, i) <=> i = Head(s) \/ Lists(t, i)
    BY <1>1, <1>2, <1>3, ZenonT(30) DEF Lists
  <1>5. ASSUME Once(s)
        PROVE  Once(t) /\ ~ Lists(t, Head(s))
    <2>1. ~ Lists(t, Head(s))
      BY <1>1, <1>2, <1>5 DEF Lists, Once
    <2>2. ASSUME NEW j \in 1..Len(t), NEW k \in 1..Len(t), t[j] = t[k]
          PROVE  j = k
      <3>1. j + 1 = k + 1
        BY <1>1, <1>2, <1>5, <2>2, SMTT(30) DEF Once
      <3> QED
        BY <1>1, <3>1
    <2> QED
      BY <1>1, <2>1, <2>2 DEF Once
  <1> QED
    BY <1>1, <1>4, <1>5 DEF t

LEMMA RotatedLists ==
  ASSUME NEW X, NEW s \in Seq(X), s # <<>>
  PROVE  /\ Rotated(s) \in Seq(X) /\ Len(Rotated(s)) = Len(s) /\ Len(s) \in Nat \ {0}
         /\ Rotated(s)[Len(s)] = s[1]
         /\ \A k \in 1..(Len(s) - 1) : Rotated(s)[k] = s[k + 1]
  <1> DEFINE t == Tail(s)
             u == t \o <<Head(s)>>
  <1>1. /\ Len(s) \in Nat \ {0} /\ t \in Seq(X) /\ Len(t) = Len(s) - 1 /\ Head(s) = s[1]
        /\ \A j \in 1..Len(t) : t[j] = s[j + 1]
        /\ s[1] \in X
    OBVIOUS
  <1> HIDE DEF t
  <1>2. /\ u \in Seq(X) /\ Len(u) = Len(t) + 1 /\ u[Len(t) + 1] = Head(s)
        /\ \A j \in 1..Len(t) : u[j] = t[j]
    BY <1>1
  <1>3. Rotated(s) = u
    BY DEF Rotated, t
  <1> HIDE DEF u
  <1> QED
    BY <1>1, <1>2, <1>3

\* The plans a stream may draw from keep the order of their turns.
LEMMA LivingKeepTheirOrder ==
  ASSUME NEW s \in Seq(Configs)
  PROVE  \E n \in Nat : \E at \in [1..n -> DOMAIN s] :
           /\ LivingOf(s) = [k \in 1..n |-> s[at[k]]]
           /\ \A j, k \in 1..n : j < k => at[j] < at[k]
           /\ \A k \in 1..n : Live(s[at[k]])
           /\ \A j \in DOMAIN s : Live(s[j]) => \E k \in 1..n : at[k] = j
  <1> DEFINE S == {j \in DOMAIN s : Live(s[j])}
             at == InOrder(S)
             n == Cardinality(S)
  <1>1. DOMAIN s = 1..Len(s) /\ Len(s) \in Nat
    OBVIOUS
  <1>2. IsFiniteSet(S) /\ S \subseteq Nat
    <2>1. IsFiniteSet(1..Len(s))
      BY <1>1, FS_Interval
    <2>2. S \in SUBSET (1..Len(s))
      BY <1>1
    <2> HIDE DEF S
    <2>3. IsFiniteSet(S)
      BY <2>1, <2>2, FS_Subset
    <2> QED
      BY <1>1, <2>2, <2>3
  <1>3. /\ n \in Nat /\ at \in [1..n -> S]
        /\ \A i \in S : \E k \in 1..n : at[k] = i
        /\ \A j, k \in 1..n : j < k => at[j] < at[k]
    <2> HIDE DEF S
    <2> QED
      BY <1>2, OrderListsAll
  <1>4. LivingOf(s) = [k \in DOMAIN at |-> s[at[k]]]
    BY DEF LivingOf
  <1> HIDE DEF at, n
  <1>5. DOMAIN at = 1..n /\ at \in [1..n -> DOMAIN s]
    BY <1>3
  <1>6. LivingOf(s) = [k \in 1..n |-> s[at[k]]]
    BY <1>4, <1>5
  <1>7. \A k \in 1..n : Live(s[at[k]])
    BY <1>3
  <1>8. \A j \in DOMAIN s : Live(s[j]) => \E k \in 1..n : at[k] = j
    BY <1>3
  <1> QED
    BY <1>3, <1>5, <1>6, <1>7, <1>8

\* The plans of a deployment are enlisted each once.
LEMMA EnlistedListsAll ==
  ASSUME NEW S, IsFiniteSet(S)
  PROVE  /\ Enlisted(S) \in Seq(S) /\ Once(Enlisted(S))
         /\ \A i : Lists(Enlisted(S), i) <=> i \in S
  <1> DEFINE n == Cardinality(S)
             e == Enlisted(S)
  <1>1. n \in Nat /\ ExistsBijection(1..n, S) /\ Cardinality(S) = n
    BY FS_CardinalityType
  <1>2. \E s \in [1..n -> S] : \A j, k \in DOMAIN s : s[j] = s[k] => j = k
    <2>1. PICK f \in Bijection(1..n, S) : TRUE
      BY <1>1 DEF ExistsBijection
    <2>2. f \in [1..n -> S] /\ DOMAIN f = 1..n /\ \A j, k \in 1..n : f[j] = f[k] => j = k
      BY <2>1 DEF Bijection, Injection, IsInjective
    <2> QED
      BY <2>2
  <1>3. e \in [1..n -> S] /\ \A j, k \in DOMAIN e : e[j] = e[k] => j = k
    <2>1. e = CHOOSE s \in [1..n -> S] : \A j, k \in DOMAIN s : s[j] = s[k] => j = k
      BY <1>1 DEF Enlisted
    <2> HIDE DEF e, n
    <2> QED
      BY <1>2, <2>1
  <1> HIDE DEF e, n
  <1>4. e \in Seq(S) /\ DOMAIN e = 1..n /\ Once(e)
    BY <1>1, <1>3 DEF Once
  <1>5. e \in Surjection(1..n, S)
    <2>1. e \in Injection(1..n, S)
      BY <1>3, <1>4 DEF Injection, IsInjective
    <2>2. Cardinality(1..n) = Cardinality(S)
      BY <1>1, FS_Interval DEF n
    <2> QED
      BY <2>1, <2>2, FS_Injection
  <1>6. \A i : Lists(e, i) <=> i \in S
    BY <1>3, <1>4, <1>5 DEF Lists, Surjection
  <1> QED
    BY <1>4, <1>6 DEF e

-----------------------------------------------------------------------------
(* The inductive invariant.                                                *)

\* A run as it holds what it read before asking.
RunOK(r) ==
  /\ r \in [kind : Kinds, configs : (SUBSET Configs) \ {{}}, fresh : BOOLEAN, redo : BOOLEAN,
            limit : Nat, asked : [Items -> 1..Edits + 1], hand : SUBSET Items]
  /\ LogOf(r.kind) = which
  /\ r.kind # "score" => \E c \in Configs : r.configs = {c}

Answers == [config : Configs, item : Items, parts : SUBSET PartsOf]

DriverTypes ==
  /\ asking \in [Configs -> Seq(Items)] /\ left \in [Configs -> Seq(Items)]
  /\ turn \in [Deployments -> Seq(Configs)] /\ owed \in [Deployments -> Nat]
  /\ consecutive \in [Configs -> Nat]
  /\ storing \in {Nothing} \cup Answers /\ IsFiniteSet(calls)
  /\ phase \in {"running", "done", "aborted"} => RunOK(run)
  /\ phase # "running" => Idle /\ left = Empty

\* What a stream turns through: its own plans, each once, and every one it may
\* draw from.
TurnInv ==
  phase = "running" =>
    /\ \A c \in Configs : left[c] # <<>> => c \in run.configs
    /\ \A d \in Deployments : \A j \in DOMAIN turn[d] : Deployment[turn[d][j]] = d
    /\ \A d \in Deployments : Once(turn[d])
    /\ \A c \in Configs : Live(c) => Lists(turn[Deployment[c]], c)

\* Those that come sooner have drawn no more than those after them, and no two
\* are more than one apart.
RoundInv ==
  phase = "running" =>
    \A d \in Deployments : \A j, k \in DOMAIN turn[d] :
      (j < k /\ Live(turn[d][j]) /\ Live(turn[d][k])) =>
        /\ Drawn(turn[d][j]) <= Drawn(turn[d][k])
        /\ Drawn(turn[d][k]) <= Drawn(turn[d][j]) + 1

\* A stream with something to draw is owed a draw, or has an answer to come.
BusyInv ==
  phase = "running" =>
    \A c \in Configs : Live(c) =>
      \/ owed[Deployment[c]] > 0
      \/ \E f \in calls : Deployment[f.config] = Deployment[c]
      \/ storing # Nothing /\ Deployment[storing.config] = Deployment[c]

Queued(c, i) == Lists(left[c], i)
Called(c, i) == \E f \in calls : f.config = c /\ f.item = i
Stored(c, i) == storing # Nothing /\ storing.config = c /\ storing.item = i

\* A question is asked once: waiting, called or being stored.
OnceInv ==
  phase = "running" =>
    /\ \A c \in Configs : Once(left[c])
    /\ \A c \in Configs : \A i \in Items :
         Queued(c, i) => ~ Called(c, i) /\ ~ Stored(c, i)

\* What was selected is still to be asked, where the run asks nothing afresh.
DueInv ==
  phase = "running" /\ ~ run.fresh /\ run.kind # "replay" =>
    \A c \in Configs : \A i \in Items : Queued(c, i) => ~ Settled(c, i)

\* Every question of a plan that goes on is settled, failed or on its way.
CoverInv ==
  phase = "running" /\ run.limit >= NItems =>
    \A c \in run.configs \ aborted : \A i \in Meant :
      \/ Settled(c, i) \/ <<c, i>> \in failed
      \/ Queued(c, i) \/ Called(c, i) \/ Stored(c, i)

\* An answer being stored has no stream drawing, its plan is the run's, and the
\* parts gone are recorded.
StoringInv ==
  storing # Nothing =>
    /\ phase = "running" /\ storing.config \in run.configs
    /\ \A d \in Deployments : owed[d] = 0
    /\ \A p \in PartsOf \ storing.parts :
         Record(storing.config, storing.item, p, run.asked[storing.item], FALSE) \in log

CallsInv == \A f \in calls : phase = "running" /\ f.config \in run.configs

DriverInv ==
  /\ DriverTypeOK /\ DriverTypes /\ TurnInv /\ RoundInv /\ BusyInv
  /\ OnceInv /\ DueInv /\ CoverInv /\ StoringInv /\ CallsInv /\ NothingIsDropped

-----------------------------------------------------------------------------
(* What a run selects.                                                     *)

LEMMA PartsAreOne ==
  /\ PartsOf \subseteq Parts /\ PartsOf # {}
  /\ which # "matches" => \E p \in Parts : PartsOf = {p}
  BY DriverAssumption DEF DriverAssumption, PartsOf

LEMMA ItemsAreNumbers ==
  /\ IsFiniteSet(Items) /\ Cardinality(Items) = NItems /\ NItems \in Nat
  /\ Items \subseteq Nat
  /\ \A S \in SUBSET Items : /\ IsFiniteSet(S) /\ S \subseteq Nat
                               /\ Cardinality(S) \in Nat /\ Cardinality(S) <= NItems
  <1>1. NItems \in Nat /\ Items = 1..NItems
    BY DriverAssumption DEF DriverAssumption, Items
  <1>2. IsFiniteSet(Items) /\ Cardinality(Items) = NItems
    <2>1. 1 \in Int /\ NItems \in Int
      BY <1>1
    <2>2. /\ IsFiniteSet(1..NItems)
          /\ Cardinality(1..NItems) = (IF 1 > NItems THEN 0 ELSE NItems - 1 + 1)
      BY <2>1, FS_Interval
    <2> QED
      BY <1>1, <2>2
  <1>3. Items \subseteq Nat
    BY <1>1
  <1>4. ASSUME NEW S \in SUBSET Items
        PROVE  /\ IsFiniteSet(S) /\ S \subseteq Nat
               /\ Cardinality(S) \in Nat /\ Cardinality(S) <= NItems
    BY <1>2, <1>3, FS_Subset, FS_CardinalityType
  <1> QED
    BY <1>1, <1>2, <1>3, <1>4

Selection(r, c) ==
  {i \in Items :
     CASE r.kind = "match" -> r.fresh \/ i \in Outstanding(c)
       [] r.kind = "replay" -> TRUE
       [] r.kind = "score" -> i \in hand /\ (r.fresh \/ i \in Unread(c))
       [] r.kind = "classify" ->
            \/ i \in Unclaimed
            \/ r.redo /\ r.fresh /\ i \notin hand /\ latest[i] # Nothing
            \/ r.redo /\ ~ r.fresh /\ i \in Stale(c)}

LEMMA OneOrder ==
  ASSUME NEW S \in SUBSET Items
  PROVE  /\ InOrder(S) \in Seq(Items) /\ Len(InOrder(S)) <= NItems
         /\ Once(InOrder(S)) /\ \A i : Lists(InOrder(S), i) <=> i \in S
  <1>1. IsFiniteSet(S) /\ S \subseteq Nat /\ Cardinality(S) <= NItems
    BY ItemsAreNumbers
  <1>2. InOrder(S) \in Seq(S)
    BY <1>1, InOrderLists
  <1>3. InOrder(S) \in Seq(Items)
    BY <1>2
  <1> QED
    BY <1>1, <1>3, InOrderLists

LEMMA TwoOrders ==
  ASSUME NEW S \in SUBSET Items, NEW T \in SUBSET Items,
         \A i : ~ (i \in S /\ i \in T)
  PROVE  /\ InOrder(S) \o InOrder(T) \in Seq(Items)
         /\ Len(InOrder(S) \o InOrder(T)) <= NItems
         /\ Once(InOrder(S) \o InOrder(T))
         /\ \A i : Lists(InOrder(S) \o InOrder(T), i) <=> i \in S \cup T
  <1> DEFINE s == InOrder(S)
             t == InOrder(T)
  <1>1. /\ s \in Seq(Items) /\ t \in Seq(Items) /\ Once(s) /\ Once(t)
        /\ \A i : Lists(s, i) <=> i \in S
        /\ \A i : Lists(t, i) <=> i \in T
    BY OneOrder
  <1>2. IsFiniteSet(S) /\ IsFiniteSet(T) /\ S \subseteq Nat /\ T \subseteq Nat
        /\ Cardinality(S) \in Nat /\ Cardinality(T) \in Nat
    BY ItemsAreNumbers
  <1>3. Len(s) = Cardinality(S) /\ Len(t) = Cardinality(T)
    BY <1>2, InOrderLists
  <1>4. Cardinality(S) + Cardinality(T) <= NItems
    <2>1. Cardinality(S \cup T) = Cardinality(S) + Cardinality(T) - Cardinality(S \cap T)
      BY <1>2, FS_Union
    <2>2. S \cap T = {} /\ S \cup T \in SUBSET Items
      OBVIOUS
    <2>3. /\ Cardinality({}) = 0 /\ Cardinality(S \cup T) <= NItems
          /\ Cardinality(S \cup T) \in Nat /\ NItems \in Nat
      BY <2>2, ItemsAreNumbers, FS_EmptySet
    <2>4. Cardinality(S \cap T) = 0
      BY <2>2, <2>3
    <2> QED
      BY ONLY <1>2, <2>1, <2>3, <2>4
  <1> HIDE DEF s, t
  <1>5. \A i : ~ (Lists(s, i) /\ Lists(t, i))
    BY <1>1
  <1>6. /\ s \o t \in Seq(Items) /\ Len(s \o t) = Len(s) + Len(t)
        /\ \A i : Lists(s \o t, i) <=> Lists(s, i) \/ Lists(t, i)
        /\ Once(s \o t)
    BY <1>1, <1>5, JoinedLists
  <1>7. Len(s \o t) <= NItems
    BY <1>3, <1>4, <1>6
  <1>8. \A i : Lists(s \o t, i) <=> i \in S \cup T
    BY <1>1, <1>6
  <1> QED
    BY <1>6, <1>7, <1>8 DEF s, t

\* What a run asks is what it selects, as far as its limit.
LEMMA AskedIsSelected ==
  ASSUME hand \subseteq Items, NEW r \in Requests, NEW c
  PROVE  /\ Asked(r, c) \in Seq(Items) /\ Once(Asked(r, c))
         /\ \A i : Lists(Asked(r, c), i) => i \in Selection(r, c)
         /\ r.limit >= NItems => \A i \in Selection(r, c) : Lists(Asked(r, c), i)
  <1>1. r.kind \in {"match", "classify", "score", "replay"} /\ r.limit \in Nat /\ NItems \in Nat
    BY DriverAssumption DEF DriverAssumption, RunsOf, Kinds
  <1> DEFINE Good(s) == /\ s \in Seq(Items) /\ Len(s) <= NItems /\ Once(s)
                        /\ \A i : Lists(s, i) <=> i \in Selection(r, c)
  <1>2. \E s : Good(s) /\ Asked(r, c) = Capped(s, r.limit)
    <2>1. CASE r.kind = "match"
      <3> DEFINE S == IF r.fresh THEN Items ELSE Outstanding(c)
      <3>1. Asked(r, c) = Capped(InOrder(S), r.limit)
        BY <2>1 DEF Asked
      <3>2. S \in SUBSET Items /\ S = Selection(r, c)
        BY <2>1 DEF Outstanding, Selection
      <3> HIDE DEF S
      <3>3. Good(InOrder(S))
        BY <3>2, OneOrder
      <3> QED
        BY <3>1, <3>3
    <2>2. CASE r.kind = "replay"
      <3>1. Asked(r, c) = Capped(InOrder(Items), r.limit)
        BY <2>2 DEF Asked
      <3>2. Items \in SUBSET Items /\ Items = Selection(r, c)
        BY <2>2 DEF Selection
      <3>3. Good(InOrder(Items))
        BY <3>2, OneOrder
      <3> QED
        BY <3>1, <3>3
    <2>3. CASE r.kind = "score"
      <3> DEFINE S == IF r.fresh THEN hand ELSE Unread(c)
      <3>1. Asked(r, c) = Capped(InOrder(S), r.limit)
        BY <2>3 DEF Asked
      <3>2. S \in SUBSET Items /\ S = Selection(r, c)
        BY <2>3 DEF Unread, Selection
      <3> HIDE DEF S
      <3>3. Good(InOrder(S))
        BY <3>2, OneOrder
      <3> QED
        BY <3>1, <3>3
    <2>4. CASE r.kind = "classify" /\ ~ r.redo
      <3>1. Asked(r, c) = Capped(InOrder(Unclaimed) \o <<>>, r.limit)
        BY <2>4 DEF Asked
      <3>2. Unclaimed \in SUBSET Items /\ Unclaimed = Selection(r, c)
        BY <2>4 DEF Unclaimed, Selection
      <3>3. Good(InOrder(Unclaimed))
        BY <3>2, OneOrder
      <3>4. InOrder(Unclaimed) \o <<>> = InOrder(Unclaimed)
        BY <3>3
      <3> QED
        BY <3>1, <3>3, <3>4
    <2>5. CASE r.kind = "classify" /\ r.redo
      <3> DEFINE T == IF r.fresh THEN {i \in Items \ hand : latest[i] # Nothing} ELSE Stale(c)
      <3>1. Asked(r, c) = Capped(InOrder(Unclaimed) \o InOrder(T), r.limit)
        BY <2>5 DEF Asked
      <3>2. /\ Unclaimed \in SUBSET Items /\ T \in SUBSET Items
            /\ \A i : ~ (i \in Unclaimed /\ i \in T)
            /\ Unclaimed \cup T = Selection(r, c)
        BY <2>5 DEF Unclaimed, Stale, Selection
      <3> HIDE DEF T
      <3>3. Good(InOrder(Unclaimed) \o InOrder(T))
        BY <3>2, TwoOrders
      <3> QED
        BY <3>1, <3>3
    <2> QED
      BY <1>1, <2>1, <2>2, <2>3, <2>4, <2>5
  <1>3. PICK s : Good(s) /\ Asked(r, c) = Capped(s, r.limit)
    BY <1>2
  <1>4. s \in Seq(Items) /\ Len(s) \in Nat
    BY <1>3
  <1>5. /\ Capped(s, r.limit) \in Seq(Items) /\ Once(Capped(s, r.limit))
        /\ \A i : Lists(Capped(s, r.limit), i) => Lists(s, i)
        /\ Len(s) <= r.limit => Capped(s, r.limit) = s
    BY <1>1, <1>3, <1>4, CappedLists
  <1> QED
    BY <1>1, <1>3, <1>4, <1>5

-----------------------------------------------------------------------------
(* What the invariant is made of.                                          *)

InFlight(C, d) == Cardinality({f \in C : Deployment[f.config] = d})

LEMMA InFlightCounts ==
  ASSUME NEW C, IsFiniteSet(C), NEW d
  PROVE  InFlight(C, d) \in Nat /\ InFlight({}, d) = 0
  <1> DEFINE S == {f \in C : Deployment[f.config] = d}
             T == {f \in {} : Deployment[f.config] = d}
  <1>1. InFlight(C, d) = Cardinality(S) /\ InFlight({}, d) = Cardinality(T)
    BY DEF InFlight
  <1>2. S \in SUBSET C /\ T = {}
    OBVIOUS
  <1> HIDE DEF S, T
  <1>3. Cardinality(S) \in Nat
    BY <1>2, FS_Subset, FS_CardinalityType
  <1> QED
    BY <1>1, <1>2, <1>3, FS_EmptySet

LEMMA OneMore ==
  ASSUME NEW C, IsFiniteSet(C), NEW f, NEW d
  PROVE  /\ InFlight(C, d) \in Nat /\ InFlight(C \cup {f}, d) \in Nat
         /\ Deployment[f.config] # d => InFlight(C \cup {f}, d) = InFlight(C, d)
         /\ Deployment[f.config] = d => InFlight(C \cup {f}, d) <= InFlight(C, d) + 1
  <1> DEFINE S == {g \in C : Deployment[g.config] = d}
             T == {g \in C \cup {f} : Deployment[g.config] = d}
  <1>1. InFlight(C, d) = Cardinality(S) /\ InFlight(C \cup {f}, d) = Cardinality(T)
    BY DEF InFlight
  <1>2. S \in SUBSET C
    OBVIOUS
  <1>3. Deployment[f.config] # d => T = S
    OBVIOUS
  <1>4. Deployment[f.config] = d => T = S \cup {f}
    OBVIOUS
  <1> HIDE DEF S, T
  <1>5. IsFiniteSet(S) /\ Cardinality(S) \in Nat
    BY <1>2, FS_Subset, FS_CardinalityType
  <1>6. Cardinality(S \cup {f}) = (IF f \in S THEN Cardinality(S) ELSE Cardinality(S) + 1)
    BY <1>5, FS_AddElement
  <1>7. Cardinality(S \cup {f}) \in Nat /\ Cardinality(S \cup {f}) <= Cardinality(S) + 1
    BY ONLY <1>5, <1>6
  <1> QED
    BY <1>1, <1>3, <1>4, <1>5, <1>7

LEMMA OneFewer ==
  ASSUME NEW C, IsFiniteSet(C), NEW f \in C, NEW d
  PROVE  /\ InFlight(C, d) \in Nat /\ InFlight(C \ {f}, d) \in Nat
         /\ Deployment[f.config] # d => InFlight(C \ {f}, d) = InFlight(C, d)
         /\ Deployment[f.config] = d => InFlight(C \ {f}, d) = InFlight(C, d) - 1
  <1> DEFINE S == {g \in C : Deployment[g.config] = d}
             T == {g \in C \ {f} : Deployment[g.config] = d}
  <1>1. InFlight(C, d) = Cardinality(S) /\ InFlight(C \ {f}, d) = Cardinality(T)
    BY DEF InFlight
  <1>2. S \in SUBSET C /\ T \in SUBSET C
    OBVIOUS
  <1>3. Deployment[f.config] # d => T = S
    OBVIOUS
  <1>4. Deployment[f.config] = d => f \in S /\ T = S \ {f}
    OBVIOUS
  <1> HIDE DEF S, T
  <1>5. IsFiniteSet(S) /\ Cardinality(S) \in Nat /\ Cardinality(T) \in Nat
    BY <1>2, FS_Subset, FS_CardinalityType
  <1>6. f \in S => Cardinality(S \ {f}) = Cardinality(S) - 1
    BY <1>5, FS_RemoveElement
  <1> QED
    BY <1>1, <1>3, <1>4, <1>5, <1>6

\* What a deployment has in flight, owed and being stored.
Budget(C, o, s) ==
  \A d \in Deployments :
    InFlight(C, d) + o[d] + (IF s # Nothing /\ Deployment[s.config] = d THEN 1 ELSE 0) <= Concurrency

BasicTypes ==
  /\ which \in Logs /\ log \subseteq Records
  /\ latest \in [Items -> {Nothing} \cup (Configs \X (1..Edits + 1))]
  /\ hand \subseteq Items /\ version \in [Items -> 1..Edits + 1]
  /\ phase \in {"none", "running", "done", "aborted", "stopped"} /\ runs \in 0..MaxRuns
  /\ calls \subseteq Questions /\ batch \subseteq calls /\ raised \subseteq batch
  /\ aborted \subseteq Configs /\ failed \subseteq Configs \X Items

LEMMA TypesAre ==
  ASSUME DriverTypeOK
  PROVE  BasicTypes /\ Budget(calls, owed, storing)
  <1>1. Budget(calls, owed, storing)
    BY DEF DriverTypeOK, Budget, InFlight
  <1>2. BasicTypes
    BY DEF DriverTypeOK, BasicTypes
  <1> QED
    BY <1>1, <1>2

LEMMA TypesMake ==
  ASSUME BasicTypes', DriverTypes', Budget(calls', owed', storing')
  PROVE  DriverTypeOK'
  <1>1. \A d \in Deployments :
          /\ Cardinality({f \in calls' : Deployment[f.config] = d}) + owed'[d]
               + (IF storing' # Nothing /\ Deployment[storing'.config] = d THEN 1 ELSE 0) <= Concurrency
          /\ owed'[d] \in 0..Concurrency /\ turn'[d] \in Seq(Configs)
    <2>1. TAKE d \in Deployments
    <2>2. InFlight(calls', d) \in Nat /\ owed'[d] \in Nat /\ Concurrency \in Nat
      BY DriverAssumption, InFlightCounts DEF DriverTypes, DriverAssumption
    <2>3. InFlight(calls', d) = Cardinality({f \in calls' : Deployment[f.config] = d})
      BY DEF InFlight
    <2>4. InFlight(calls', d) + owed'[d]
            + (IF storing' # Nothing /\ Deployment[storing'.config] = d THEN 1 ELSE 0) <= Concurrency
      BY DEF Budget
    <2>5. owed'[d] <= Concurrency
      BY <2>2, <2>4
    <2> QED
      BY <2>2, <2>3, <2>4, <2>5 DEF DriverTypes
  <1>2. \A c \in Configs : asking'[c] \in Seq(Items) /\ left'[c] \in Seq(Items)
    BY DEF DriverTypes
  <1> QED
    BY <1>1, <1>2 DEF DriverTypeOK, BasicTypes

LEMMA ConfigsHaveDeployments ==
  ASSUME NEW c \in Configs
  PROVE  Deployment[c] \in Deployments
  BY DEF Deployments

LEMMA AnswersAreNotNone ==
  ASSUME NEW c \in Configs, NEW i \in Items, NEW S \in SUBSET PartsOf
  PROVE  /\ [config |-> c, item |-> i, parts |-> S] # Nothing
         /\ [config |-> c, item |-> i, parts |-> S] \in Answers
  <1>1. S \in SUBSET Parts
    BY PartsAreOne
  <1> QED
    BY DriverAssumption, <1>1 DEF DriverAssumption, Answers

\* Nothing but the text, what the user claimed and the batch may change.
LEMMA OnlyTheWorldMoves ==
  ASSUME DriverInv, BasicTypes',
         UNCHANGED <<which, log, latest, run, phase, asking, left, turn, owed, calls, storing,
                     consecutive, aborted, failed>>,
         phase # "running" => batch' = batch /\ raised' = raised
  PROVE  DriverInv'
  <1>1. /\ which' = which /\ log' = log /\ latest' = latest /\ run' = run /\ phase' = phase
        /\ asking' = asking /\ left' = left /\ turn' = turn /\ owed' = owed /\ calls' = calls
        /\ storing' = storing /\ consecutive' = consecutive /\ aborted' = aborted
        /\ failed' = failed
    OBVIOUS
  <1>2. DriverTypes'
    <2>1. phase' # "running" => Idle' /\ left' = Empty'
      BY <1>1 DEF DriverInv, DriverTypes, Idle, Empty
    <2>2. phase' \in {"running", "done", "aborted"} => RunOK(run)'
      BY <1>1 DEF DriverInv, DriverTypes, RunOK
    <2> QED
      BY <1>1, <2>1, <2>2 DEF DriverInv, DriverTypes, Answers, PartsOf
  <1>3. DriverTypeOK'
    <2>1. Budget(calls', owed', storing')
      BY <1>1, TypesAre DEF DriverInv
    <2> QED
      BY <1>2, <2>1, TypesMake
  <1>4. TurnInv' /\ RoundInv' /\ BusyInv'
    BY <1>1, ZenonT(30) DEF DriverInv, TurnInv, RoundInv, BusyInv, Live, Drawn
  <1>5. OnceInv' /\ StoringInv' /\ CallsInv'
    BY <1>1 DEF DriverInv, OnceInv, StoringInv, CallsInv, Queued, Called, Stored, PartsOf
  <1>6. \A c, i : Settled(c, i)' <=> Settled(c, i)
    BY <1>1 DEF Settled, AnsweredBy, PartsOf
  <1>7. DueInv'
    BY <1>1, <1>6 DEF DriverInv, DueInv, Queued
  <1>8. Meant' = Meant
    BY <1>1 DEF Meant
  <1>9. CoverInv'
    <2>1. \A c, i : /\ Queued(c, i)' <=> Queued(c, i)
                    /\ Called(c, i)' <=> Called(c, i)
                    /\ Stored(c, i)' <=> Stored(c, i)
      BY <1>1 DEF Queued, Called, Stored
    <2> QED
      BY <1>1, <1>6, <1>8, <2>1, Zenon DEF DriverInv, CoverInv
  <1>10. NothingIsDropped'
    BY <1>1, <1>6, <1>8, Zenon DEF DriverInv, NothingIsDropped
  <1> QED
    BY <1>2, <1>3, <1>4, <1>5, <1>7, <1>9, <1>10 DEF DriverInv

-----------------------------------------------------------------------------
(* Each step.                                                              *)

\* A run that lets go leaves nothing under way.
LEMMA NothingUnderWay ==
  ASSUME DriverInv, LetGo, phase' \in {"done", "aborted", "stopped"},
         UNCHANGED <<which, log, latest, hand, version, runs>>,
         aborted' \subseteq Configs, failed' \subseteq Configs \X Items,
         phase' # "stopped" => RunOK(run)', NothingIsDropped'
  PROVE  DriverInv'
  <1>1. /\ which' = which /\ log' = log /\ latest' = latest /\ hand' = hand /\ version' = version
        /\ runs' = runs
        /\ calls' = {} /\ batch' = {} /\ raised' = {} /\ storing' = Nothing
        /\ asking' = Empty /\ left' = Empty
        /\ turn' = [d \in Deployments |-> <<>>] /\ owed' = [d \in Deployments |-> 0]
        /\ consecutive' = [c \in Configs |-> 0]
    BY DEF LetGo
  <1>2. BasicTypes'
    <2>1. BasicTypes
      BY TypesAre DEF DriverInv
    <2> QED
      BY <1>1, <2>1 DEF BasicTypes
  <1>3. DriverTypes'
    <2>1. Empty \in [Configs -> Seq(Items)] /\ turn' \in [Deployments -> Seq(Configs)]
      BY <1>1 DEF Empty
    <2>2. owed' \in [Deployments -> Nat] /\ consecutive' \in [Configs -> Nat]
      BY <1>1
    <2>3. IsFiniteSet(calls') /\ Idle' /\ left' = Empty'
      BY <1>1, FS_EmptySet DEF Idle, Empty
    <2>4. storing' \in ({Nothing} \cup Answers)'
      BY <1>1
    <2> QED
      BY <1>1, <2>1, <2>2, <2>3, <2>4 DEF DriverTypes
  <1>4. DriverTypeOK'
    <2>1. Budget(calls', owed', storing')
      <3>1. \A d \in Deployments : InFlight(calls', d) = 0 /\ owed'[d] = 0
        BY <1>1, InFlightCounts, FS_EmptySet
      <3>2. Concurrency \in Nat
        BY DriverAssumption DEF DriverAssumption
      <3> QED
        BY <1>1, <3>1, <3>2 DEF Budget
    <2> QED
      BY <1>2, <1>3, <2>1, TypesMake
  <1>5. TurnInv' /\ RoundInv' /\ BusyInv' /\ OnceInv' /\ DueInv' /\ CoverInv'
    BY DEF TurnInv, RoundInv, BusyInv, OnceInv, DueInv, CoverInv
  <1>6. StoringInv' /\ CallsInv'
    BY <1>1 DEF StoringInv, CallsInv
  <1> QED
    BY <1>3, <1>4, <1>5, <1>6 DEF DriverInv

LEMMA StopKeeps ==
  ASSUME DriverInv, StopRun
  PROVE  DriverInv'
  <1>1. /\ phase' = "stopped" /\ aborted' = {} /\ failed' = {} /\ LetGo
        /\ UNCHANGED <<which, log, latest, hand, version, runs>>
    BY DEF StopRun, stored
  <1>2. NothingIsDropped'
    BY <1>1 DEF NothingIsDropped
  <1> QED
    BY <1>1, <1>2, NothingUnderWay

\* With nothing running and no draw owed, no plan has anything left.
LEMMA FinishKeeps ==
  ASSUME DriverInv, Finish
  PROVE  DriverInv'
  <1>1. /\ phase = "running" /\ calls = {} /\ storing = Nothing /\ phase' = "done" /\ LetGo
        /\ UNCHANGED <<which, log, latest, hand, version, runs>>
        /\ run' = run /\ aborted' = aborted /\ failed' = failed
        /\ \A d \in Deployments : owed[d] = 0
    BY DEF Finish, stored, Idle
  <1>2. RunOK(run) /\ BasicTypes
    BY <1>1, TypesAre DEF DriverInv, DriverTypes
  <1>3. RunOK(run)'
    BY <1>1, <1>2 DEF RunOK
  <1>4. aborted' \subseteq Configs /\ failed' \subseteq Configs \X Items
    BY <1>1, <1>2 DEF BasicTypes
  <1>5. \A c \in Configs : ~ Live(c)
    <2>1. \A c \in Configs : owed[Deployment[c]] = 0
      BY <1>1, ConfigsHaveDeployments
    <2> QED
      BY <1>1, <2>1 DEF DriverInv, BusyInv
  <1>6. ASSUME run.limit >= NItems, NEW c \in run.configs \ aborted, NEW i \in Meant
        PROVE  Settled(c, i) \/ <<c, i>> \in failed
    <2>1. c \in Configs
      BY <1>2 DEF RunOK
    <2>2. left[c] = <<>>
      BY <1>5, <1>6, <2>1 DEF Live
    <2>3. ~ Queued(c, i) /\ ~ Called(c, i) /\ ~ Stored(c, i)
      BY <1>1, <2>2 DEF Queued, Called, Stored, Lists
    <2> QED
      BY <1>1, <1>6, <2>3 DEF DriverInv, CoverInv
  <1>7. NothingIsDropped'
    <2>1. \A c, i : Settled(c, i)' <=> Settled(c, i)
      BY <1>1 DEF Settled, AnsweredBy, PartsOf
    <2>2. Meant' = Meant
      BY <1>1 DEF Meant
    <2> QED
      BY <1>1, <1>6, <2>1, <2>2, Zenon DEF NothingIsDropped
  <1> QED
    BY <1>1, <1>3, <1>4, <1>7, NothingUnderWay

LEMMA NewestIsAText ==
  ASSUME version \in [Items -> 1..Edits + 1], Items # {}
  PROVE  Newest \in 1..Edits + 1
  <1> DEFINE V == {version[i] : i \in Items}
             Over(v) == \A i \in Items : version[i] <= v
             gaps == {n \in Nat : \E v \in V : n = Edits + 1 - v}
  <1>1. Edits \in Nat /\ V \subseteq 1..Edits + 1 /\ V # {}
    BY DriverAssumption DEF DriverAssumption
  <1>2. \E v \in V : Over(v)
    <2>1. gaps \in SUBSET Nat /\ gaps # {}
      <3>1. PICK v \in V : v \in 1..Edits + 1
        BY <1>1
      <3> HIDE DEF V
      <3>2. Edits + 1 - v \in Nat
        BY <1>1, <3>1
      <3> QED
        BY <3>1, <3>2
    <2>2. PICK n \in gaps : \A m \in gaps : n <= m
      <3> HIDE DEF gaps
      <3> QED
        BY <2>1, LeastNumber
    <2>3. PICK v \in V : n = Edits + 1 - v
      BY <2>2
    <2>4. ASSUME NEW i \in Items
          PROVE  version[i] <= v
      <3>1. version[i] \in V /\ version[i] \in 1..Edits + 1 /\ v \in 1..Edits + 1
        BY <1>1, <2>3
      <3>2. Edits + 1 - version[i] \in gaps
        <4> HIDE DEF V
        <4>1. Edits + 1 - version[i] \in Nat
          BY <1>1, <3>1
        <4> QED
          BY <3>1, <4>1
      <3>3. n <= Edits + 1 - version[i]
        BY <2>2, <3>2
      <3> QED
        BY <1>1, <2>3, <3>1, <3>3
    <2> QED
      BY <2>4
  <1>3. Newest \in V
    <2>1. Newest = CHOOSE v \in V : Over(v)
      BY DEF Newest
    <2> HIDE DEF V, Over
    <2> QED
      BY <1>2, <2>1
  <1> QED
    BY <1>1, <1>3

LEMMA WorldMovesKeep ==
  ASSUME DriverInv,
         \/ \E i \in Editable : Edit(i)
         \/ \E S \in Passes : Claim(S)
         \/ \E S \in SUBSET calls : \E R \in SUBSET S : Wake(S, R)
  PROVE  DriverInv'
  <1>1. BasicTypes
    BY TypesAre DEF DriverInv
  <1>2. CASE \E i \in Editable : Edit(i)
    <2>1. PICK i \in Editable : Edit(i)
      BY <1>2
    <2>2. i \in Items /\ version \in [Items -> 1..Edits + 1] /\ Edits \in Nat
      BY DriverAssumption, <1>1 DEF BasicTypes, DriverAssumption
    <2>3. Newest \in 1..Edits + 1
      BY <2>2, NewestIsAText
    <2>4. Newest + 1 \in 1..Edits + 1
      BY <2>1, <2>2, <2>3 DEF Edit
    <2>5. version' \in [Items -> 1..Edits + 1]
      BY <2>1, <2>2, <2>4 DEF Edit
    <2>6. /\ UNCHANGED <<which, log, latest, run, phase, asking, left, turn, owed, calls, storing,
                         consecutive, aborted, failed>>
          /\ batch' = batch /\ raised' = raised /\ hand' = hand /\ runs' = runs
      BY <2>1 DEF Edit, stored, plans, pool, folded
    <2>7. BasicTypes'
      BY <1>1, <2>5, <2>6 DEF BasicTypes
    <2> QED
      BY <2>6, <2>7, OnlyTheWorldMoves
  <1>3. CASE \E S \in Passes : Claim(S)
    <2>1. PICK S \in Passes : Claim(S)
      BY <1>3
    <2>2. hand' = S /\ S \subseteq Items
      BY DriverAssumption, <2>1 DEF Claim, DriverAssumption
    <2>3. /\ UNCHANGED <<which, log, latest, run, phase, asking, left, turn, owed, calls, storing,
                         consecutive, aborted, failed>>
          /\ batch' = batch /\ raised' = raised /\ version' = version /\ runs' = runs
      BY <2>1 DEF Claim, stored, plans, pool, folded
    <2>4. BasicTypes'
      BY <1>1, <2>2, <2>3 DEF BasicTypes
    <2> QED
      BY <2>3, <2>4, OnlyTheWorldMoves
  <1>4. CASE \E S \in SUBSET calls : \E R \in SUBSET S : Wake(S, R)
    <2>0. PICK S \in SUBSET calls : \E R \in SUBSET S : Wake(S, R)
      BY <1>4
    <2>1. PICK R \in SUBSET S : Wake(S, R)
      BY <2>0
    <2>2. /\ UNCHANGED <<which, log, latest, run, phase, asking, left, turn, owed, calls, storing,
                         consecutive, aborted, failed>>
          /\ phase = "running" /\ batch' = S /\ raised' = R /\ version' = version /\ runs' = runs
          /\ hand' = hand
      BY <2>1 DEF Wake, stored, plans, folded
    <2>3. BasicTypes'
      BY <1>1, <2>1, <2>2 DEF BasicTypes
    <2> QED
      BY <2>2, <2>3, OnlyTheWorldMoves
  <1> QED
    BY <1>2, <1>3, <1>4

\* The answer being stored, and what committing one part of it changes.
LEMMA StoreMoves ==
  ASSUME DriverInv, NEW p, NEW later \in BOOLEAN, StorePart(p, later)
  PROVE  /\ which' = which /\ hand' = hand /\ version' = version /\ run' = run /\ phase' = phase
         /\ runs' = runs /\ asking' = asking /\ left' = left /\ turn' = turn /\ calls' = calls
         /\ batch' = batch /\ raised' = raised /\ consecutive' = consecutive /\ aborted' = aborted
         /\ failed' = failed
         /\ phase = "running" /\ RunOK(run) /\ storing # Nothing /\ storing \in Answers
         /\ p \in storing.parts /\ storing.parts \subseteq PartsOf
         /\ storing.config \in run.configs /\ storing.config \in Configs /\ storing.item \in Items
         /\ later => run.kind = "replay" /\ storing.item \in Looped
         /\ log' = log \cup {Record(storing.config, storing.item, p, run.asked[storing.item], later)}
         /\ latest' = IF which = "claims"
                      THEN [latest EXCEPT ![storing.item] = <<storing.config, run.asked[storing.item]>>]
                      ELSE latest
  <1>1. /\ phase = "running" /\ storing # Nothing /\ p \in storing.parts
        /\ later => run.kind = "replay" /\ storing.item \in Looped
    BY DEF StorePart, OfARound
  <1>2. storing \in Answers /\ RunOK(run) /\ storing.config \in run.configs
    BY <1>1 DEF DriverInv, DriverTypes, StoringInv
  <1>3. /\ storing.parts \subseteq PartsOf /\ storing.config \in Configs /\ storing.item \in Items
    BY <1>2 DEF Answers
  <1>4. /\ which' = which /\ hand' = hand /\ version' = version /\ run' = run /\ phase' = phase
        /\ runs' = runs /\ asking' = asking /\ left' = left /\ turn' = turn /\ calls' = calls
        /\ batch' = batch /\ raised' = raised /\ consecutive' = consecutive /\ aborted' = aborted
        /\ failed' = failed
    BY DEF StorePart, OfARound, pool, folded
  <1>5. /\ log' = log \cup {Record(storing.config, storing.item, p, run.asked[storing.item], later)}
        /\ latest' = IF which = "claims"
                     THEN [latest EXCEPT ![storing.item] = <<storing.config, run.asked[storing.item]>>]
                     ELSE latest
    BY DEF StorePart, OfARound
  <1> QED
    BY <1>1, <1>2, <1>3, <1>4, <1>5

\* Committing a part settles nothing but the question it answers, unsettles
\* none, and the last part settles it.
LEMMA StoringSettles ==
  ASSUME DriverInv, NEW p, NEW later \in BOOLEAN, StorePart(p, later),
         NEW c \in run.configs, NEW i \in Items
  PROVE  /\ Settled(c, i) => Settled(c, i)'
         /\ Settled(c, i)' => Settled(c, i) \/ Stored(c, i)
         /\ Stored(c, i) /\ storing.parts = {p} => Settled(c, i)'
  <1> DEFINE sc == storing.config
             si == storing.item
             v == run.asked[si]
  <1>1. /\ which' = which /\ run' = run /\ RunOK(run) /\ storing # Nothing
        /\ sc \in run.configs /\ sc \in Configs /\ si \in Items
        /\ later => run.kind = "replay" /\ si \in Looped
        /\ log' = log \cup {Record(sc, si, p, v, later)}
        /\ latest' = IF which = "claims" THEN [latest EXCEPT ![si] = <<sc, v>>] ELSE latest
    BY StoreMoves
  <1>2. /\ \A q \in PartsOf \ storing.parts : Record(sc, si, q, v, FALSE) \in log
    BY <1>1 DEF DriverInv, StoringInv
  <1>3. latest \in [Items -> {Nothing} \cup (Configs \X (1..Edits + 1))]
        /\ v \in 1..Edits + 1 /\ Nothing \notin Configs \X (1..Edits + 1)
    <2>1. BasicTypes
      BY TypesAre DEF DriverInv
    <2> QED
      BY DriverAssumption, <1>1, <2>1 DEF BasicTypes, RunOK, DriverAssumption
  <1>4. Stored(c, i) <=> sc = c /\ si = i
    BY <1>1 DEF Stored
  <1>5. run.kind \in {"match", "score", "replay", "classify"}
    BY <1>1 DEF RunOK, Kinds
  <1>6. CASE run.kind \in {"match", "score", "replay"}
    <2> DEFINE All(l, k) == \A q \in PartsOf : Record(c, i, q, run.asked[i], k) \in l
    <2>1. /\ run.kind # "replay" => (Settled(c, i) <=> All(log, FALSE))
          /\ run.kind = "replay" =>
               (Settled(c, i) <=> i \in Unasked \/ All(log, FALSE) \/ All(log, TRUE))
      BY <1>6 DEF Settled, AnsweredBy
    <2>2. /\ run.kind # "replay" => (Settled(c, i)' <=> All(log', FALSE))
          /\ run.kind = "replay" =>
               (Settled(c, i)' <=> i \in Unasked \/ All(log', FALSE) \/ All(log', TRUE))
      BY <1>1, <1>6 DEF Settled, AnsweredBy, PartsOf
    <2>3. \A k \in BOOLEAN : All(log, k) => All(log', k)
      BY <1>1
    <2>4. \A k \in BOOLEAN : All(log', k) => All(log, k) \/ Stored(c, i)
      <3>1. CASE Stored(c, i)
        BY <3>1
      <3>2. CASE ~ Stored(c, i)
        <4>1. \A q, k : Record(c, i, q, run.asked[i], k) # Record(sc, si, p, v, later)
          BY <1>4, <3>2 DEF Record
        <4> HIDE DEF v, sc, si
        <4> QED
          BY <1>1, <4>1
      <3> QED
        BY <3>1, <3>2
    <2>5. Stored(c, i) /\ storing.parts = {p} => All(log', later)
      <3>1. CASE run.kind = "replay"
        <4>1. which # "matches" /\ p \in PartsOf
          BY <1>1, <3>1, StoreMoves DEF RunOK, LogOf
        <4>2. PartsOf = {p}
          BY <4>1, PartsAreOne
        <4> QED
          BY <1>1, <1>4, <4>2
      <3>2. CASE run.kind # "replay"
        <4>1. later = FALSE
          BY <1>1, <3>2
        <4> QED
          BY <1>1, <1>2, <1>4, <4>1
      <3> QED
        BY <3>1, <3>2
    <2>6. run.kind # "replay" => later = FALSE
      BY <1>1
    <2> HIDE DEF All
    <2>7. later \in BOOLEAN /\ (later = TRUE \/ later = FALSE)
      OBVIOUS
    <2> QED
      BY <2>1, <2>2, <2>3, <2>4, <2>5, <2>6, <2>7
  <1>7. CASE run.kind = "classify"
    <2>1. which = "claims" /\ c = sc
      <3>1. \E x \in Configs : run.configs = {x}
        BY <1>1, <1>7 DEF RunOK
      <3>2. which = "claims"
        BY <1>1, <1>7 DEF RunOK, LogOf
      <3> QED
        BY <1>1, <3>1, <3>2
    <2>2. latest' = [latest EXCEPT ![si] = <<sc, v>>]
      BY <1>1, <2>1
    <2>3. /\ i # si => latest'[i] = latest[i]
          /\ i = si => latest'[i] = <<c, run.asked[i]>> /\ latest'[i] # Nothing
      <3>1. <<sc, v>> \in Configs \X (1..Edits + 1)
        BY <1>1, <1>3
      <3>2. <<sc, v>> # Nothing
        BY <1>3, <3>1
      <3> QED
        BY <1>3, <2>1, <2>2, <3>2
    <2>4. /\ Settled(c, i) <=>
               i \in run.hand \/ (latest[i] # Nothing /\ (run.redo => latest[i] = <<c, run.asked[i]>>))
          /\ Settled(c, i)' <=>
               i \in run.hand \/ (latest'[i] # Nothing /\ (run.redo => latest'[i] = <<c, run.asked[i]>>))
      BY <1>1, <1>7 DEF Settled, AnsweredBy
    <2> HIDE DEF sc, si, v
    <2>5. CASE i = si
      BY <1>4, <2>1, <2>3, <2>4, <2>5
    <2>6. CASE i # si
      BY <1>4, <2>3, <2>4, <2>6
    <2> QED
      BY <2>5, <2>6
  <1> QED
    BY <1>5, <1>6, <1>7

LEMMA StorePartKeeps ==
  ASSUME DriverInv, NEW p, NEW later \in BOOLEAN, StorePart(p, later)
  PROVE  DriverInv'
  <1> DEFINE c == storing.config
             i == storing.item
             d == Deployment[c]
             rest == storing.parts \ {p}
             v == run.asked[i]
  <1>1. /\ which' = which /\ hand' = hand /\ version' = version /\ run' = run /\ phase' = phase
        /\ runs' = runs /\ asking' = asking /\ left' = left /\ turn' = turn /\ calls' = calls
        /\ batch' = batch /\ raised' = raised /\ consecutive' = consecutive /\ aborted' = aborted
        /\ failed' = failed
        /\ phase = "running" /\ RunOK(run) /\ storing # Nothing /\ storing \in Answers
        /\ p \in storing.parts /\ storing.parts \subseteq PartsOf
        /\ c \in run.configs /\ c \in Configs /\ i \in Items
        /\ later => run.kind = "replay" /\ i \in Looped
        /\ log' = log \cup {Record(c, i, p, v, later)}
        /\ latest' = IF which = "claims" THEN [latest EXCEPT ![i] = <<c, v>>] ELSE latest
    BY StoreMoves
  <1>2. BasicTypes /\ Budget(calls, owed, storing) /\ DriverTypes /\ d \in Deployments
    BY <1>1, TypesAre, ConfigsHaveDeployments DEF DriverInv
  <1>3. \/ rest = {} /\ storing' = Nothing /\ owed' = [owed EXCEPT ![d] = 1]
        \/ /\ rest # {} /\ storing' = [config |-> c, item |-> i, parts |-> rest]
           /\ storing' # Nothing /\ storing' \in Answers /\ owed' = owed
    <2>1. CASE rest = {}
      BY <2>1 DEF StorePart, OfARound
    <2>2. CASE rest # {}
      <3>1. storing' = [storing EXCEPT !.parts = rest] /\ owed' = owed
        BY <2>2 DEF StorePart, OfARound
      <3>2. storing' = [config |-> c, item |-> i, parts |-> rest]
        BY <1>1, <3>1 DEF Answers
      <3>3. rest \in SUBSET PartsOf
        BY <1>1
      <3>4. storing' # Nothing /\ storing' \in Answers
        BY <1>1, <3>2, <3>3, AnswersAreNotNone
      <3> QED
        BY <2>2, <3>1, <3>2, <3>4
    <2> QED
      BY <2>1, <2>2
  <1>4. owed \in [Deployments -> Nat] /\ \A e \in Deployments : owed[e] = 0
    BY <1>1, <1>2 DEF DriverInv, StoringInv, DriverTypes
  <1>5. /\ rest = {} => storing.parts = {p}
        /\ PartsOf \ rest = (PartsOf \ storing.parts) \cup {p}
        /\ p \in Parts
    BY <1>1, PartsAreOne
  <1>6. v \in 1..Edits + 1
    BY <1>1 DEF RunOK
  <1> HIDE DEF c, i, d, rest, v
  <1>7. BasicTypes'
    <2>1. log' \subseteq Records
      BY <1>1, <1>2, <1>5, <1>6 DEF BasicTypes, Records, Record
    <2>2. latest' \in [Items -> {Nothing} \cup (Configs \X (1..Edits + 1))]
      BY <1>1, <1>2, <1>6 DEF BasicTypes
    <2> QED
      BY <1>1, <1>2, <2>1, <2>2 DEF BasicTypes
  <1>8. owed' \in [Deployments -> Nat]
    BY <1>3, <1>4
  <1>9. DriverTypes'
    <2>1. RunOK(run)'
      BY <1>1 DEF RunOK
    <2>2. storing' \in {Nothing} \cup Answers
      BY <1>3
    <2>3. Answers' = Answers
      BY <1>1 DEF Answers, PartsOf
    <2> QED
      BY <1>1, <1>2, <1>8, <2>1, <2>2, <2>3 DEF DriverTypes
  <1>10. DriverTypeOK'
    <2>1. Budget(calls', owed', storing')
      <3>1. SUFFICES ASSUME NEW e \in Deployments
                     PROVE  InFlight(calls', e) + owed'[e]
                              + (IF storing' # Nothing /\ Deployment[storing'.config] = e THEN 1 ELSE 0)
                            <= Concurrency
        BY DEF Budget
      <3>2. InFlight(calls, e) \in Nat /\ Concurrency \in Nat
        BY DriverAssumption, <1>2, InFlightCounts DEF DriverTypes, DriverAssumption
      <3>3. InFlight(calls, e) + owed[e] + (IF d = e THEN 1 ELSE 0) <= Concurrency
        BY <1>1, <1>2 DEF Budget, c, d
      <3>4. CASE rest = {}
        <4>1. storing' = Nothing /\ owed'[e] = (IF d = e THEN 1 ELSE 0)
          BY <1>3, <1>4, <3>4
        <4> QED
          BY <1>1, <1>4, <3>2, <3>3, <4>1
      <3>5. CASE rest # {}
        <4>1. storing' # Nothing /\ storing'.config = c /\ owed' = owed
          BY <1>3, <3>5
        <4> QED
          BY <1>1, <1>4, <3>2, <3>3, <4>1 DEF d
      <3> QED
        BY <3>4, <3>5
    <2> QED
      BY <1>7, <1>9, <2>1, TypesMake
  <1>11. TurnInv' /\ RoundInv'
    BY <1>1, ZenonT(30) DEF DriverInv, TurnInv, RoundInv, Live, Drawn
  <1>12. BusyInv'
    <2>1. SUFFICES ASSUME NEW x \in Configs, Live(x)
                   PROVE  \/ owed'[Deployment[x]] > 0
                          \/ \E f \in calls' : Deployment[f.config] = Deployment[x]
                          \/ storing' # Nothing /\ Deployment[storing'.config] = Deployment[x]
      BY <1>1 DEF BusyInv, Live
    <2>2. Deployment[x] \in Deployments
      BY ConfigsHaveDeployments
    <2>3. CASE d = Deployment[x]
      BY <1>2, <1>3, <1>4, <2>3 DEF d
    <2>4. CASE d # Deployment[x]
      <3>1. \E f \in calls : Deployment[f.config] = Deployment[x]
        BY <1>1, <1>4, <2>1, <2>2, <2>4 DEF DriverInv, BusyInv, c, d
      <3> QED
        BY <1>1, <3>1
    <2> QED
      BY <2>3, <2>4
  <1>13. \A x, y : /\ Queued(x, y)' <=> Queued(x, y)
                   /\ Called(x, y)' <=> Called(x, y)
                   /\ Stored(x, y)' => Stored(x, y)
                   /\ Stored(x, y) => Stored(x, y)' \/ storing.parts = {p}
    <2>1. \A x, y : (Queued(x, y)' <=> Queued(x, y)) /\ (Called(x, y)' <=> Called(x, y))
      BY <1>1 DEF Queued, Called
    <2>2. \A x, y : Stored(x, y) <=> x = c /\ y = i
      BY <1>1 DEF Stored, c, i
    <2>3. CASE rest = {}
      BY <1>3, <1>5, <2>1, <2>2, <2>3 DEF Stored
    <2>4. CASE rest # {}
      BY <1>3, <2>1, <2>2, <2>4 DEF Stored
    <2> QED
      BY <2>3, <2>4
  <1>14. OnceInv'
    BY <1>1, <1>13 DEF DriverInv, OnceInv
  <1>15. \A x \in run.configs : \A y \in Items :
           /\ Settled(x, y) => Settled(x, y)'
           /\ Settled(x, y)' => Settled(x, y) \/ Stored(x, y)
           /\ Stored(x, y) /\ storing.parts = {p} => Settled(x, y)'
    BY StoringSettles
  <1>16. DueInv'
    <2>1. SUFFICES ASSUME ~ run.fresh, run.kind # "replay", NEW x \in Configs, NEW y \in Items,
                          Queued(x, y), Settled(x, y)'
                   PROVE  FALSE
      BY <1>1, <1>13 DEF DueInv
    <2>2. x \in run.configs
      <3>1. left[x] # <<>>
        BY <2>1 DEF Queued, Lists
      <3> QED
        BY <1>1, <3>1 DEF DriverInv, TurnInv
    <2>3. Settled(x, y) \/ Stored(x, y)
      BY <1>15, <2>1, <2>2
    <2> QED
      BY <1>1, <2>1, <2>3 DEF DriverInv, DueInv, OnceInv
  <1>17. CoverInv'
    <2>1. Meant' = Meant /\ Meant \subseteq Items
      BY <1>1 DEF Meant, RunOK
    <2>2. SUFFICES ASSUME run.limit >= NItems, NEW x \in run.configs \ aborted, NEW y \in Meant
                   PROVE  \/ Settled(x, y)' \/ <<x, y>> \in failed
                          \/ Queued(x, y)' \/ Called(x, y)' \/ Stored(x, y)'
      BY <1>1, <2>1, Zenon DEF CoverInv
    <2>3. \/ Settled(x, y) \/ <<x, y>> \in failed
          \/ Queued(x, y) \/ Called(x, y) \/ Stored(x, y)
      BY <1>1, <2>2 DEF DriverInv, CoverInv
    <2> QED
      BY <1>13, <1>15, <2>1, <2>3
  <1>18. StoringInv'
    <2>1. SUFFICES ASSUME storing' # Nothing
                   PROVE  /\ phase' = "running" /\ storing'.config \in run'.configs
                          /\ \A e \in Deployments : owed'[e] = 0
                          /\ \A q \in PartsOf \ storing'.parts :
                               Record(storing'.config, storing'.item, q,
                                        run'.asked[storing'.item], FALSE) \in log'
      BY <1>1 DEF StoringInv, PartsOf
    <2>2. storing'.config = c /\ storing'.item = i /\ storing'.parts = rest /\ owed' = owed
      BY <1>3, <2>1
    <2>3. \A q \in PartsOf \ storing.parts : Record(c, i, q, v, FALSE) \in log
      BY <1>1 DEF DriverInv, StoringInv, c, i, v
    <2>4. later = FALSE
      <3>1. rest # {}
        BY <1>3, <2>1
      <3>2. which = "matches"
        BY <1>1, <3>1, PartsAreOne DEF rest
      <3> QED
        BY <1>1, <3>2 DEF RunOK, LogOf
    <2>5. \A q \in PartsOf \ rest : Record(c, i, q, v, FALSE) \in log'
      BY <1>1, <1>5, <2>3, <2>4
    <2> QED
      BY <1>1, <1>4, <2>2, <2>5 DEF v
  <1>19. CallsInv' /\ NothingIsDropped'
    BY <1>1 DEF DriverInv, CallsInv, NothingIsDropped
  <1> QED
    BY <1>9, <1>10, <1>11, <1>12, <1>14, <1>16, <1>17, <1>18, <1>19 DEF DriverInv

\* What the consumer finds when it takes up a call.
LEMMA ReadyMeans ==
  ASSUME DriverInv, NEW f, Ready(f)
  PROVE  /\ phase = "running" /\ storing = Nothing /\ f \in batch /\ f \in calls /\ RunOK(run)
         /\ f.config \in Configs /\ f.item \in Items /\ f.config \in run.configs
         /\ Deployment[f.config] \in Deployments
         /\ owed \in [Deployments -> Nat] /\ \A d \in Deployments : owed[d] = 0
         /\ BasicTypes /\ Budget(calls, owed, storing) /\ DriverTypes
  <1>1. phase = "running" /\ storing = Nothing /\ f \in batch /\ \A d \in Deployments : owed[d] = 0
    BY DEF Ready
  <1>2. BasicTypes /\ Budget(calls, owed, storing) /\ DriverTypes
    BY TypesAre DEF DriverInv
  <1>3. f \in calls /\ f.config \in Configs /\ f.item \in Items
    BY <1>1, <1>2 DEF BasicTypes, Questions
  <1>4. f.config \in run.configs
    BY <1>3 DEF DriverInv, CallsInv
  <1>5. RunOK(run) /\ owed \in [Deployments -> Nat]
    BY <1>1, <1>2 DEF DriverTypes
  <1> QED
    BY <1>1, <1>2, <1>3, <1>4, <1>5, ConfigsHaveDeployments

LEMMA FoldAnswerKeeps ==
  ASSUME DriverInv, NEW f, FoldAnswer(f)
  PROVE  DriverInv'
  <1>1. Ready(f)
    BY DEF FoldAnswer
  <1>2. /\ phase = "running" /\ storing = Nothing /\ f \in batch /\ f \in calls /\ RunOK(run)
        /\ f.config \in Configs /\ f.item \in Items /\ f.config \in run.configs
        /\ Deployment[f.config] \in Deployments
        /\ owed \in [Deployments -> Nat] /\ \A d \in Deployments : owed[d] = 0
        /\ BasicTypes /\ Budget(calls, owed, storing) /\ DriverTypes
    BY <1>1, ReadyMeans
  <1>3. /\ which' = which /\ log' = log /\ latest' = latest /\ hand' = hand /\ version' = version
        /\ run' = run /\ phase' = phase /\ runs' = runs /\ asking' = asking /\ left' = left
        /\ turn' = turn /\ owed' = owed /\ aborted' = aborted /\ failed' = failed
        /\ calls' = calls \ {f} /\ batch' = batch \ {f} /\ raised' = raised \ {f}
        /\ consecutive' = [consecutive EXCEPT ![f.config] = 0]
        /\ storing' = [config |-> f.config, item |-> f.item, parts |-> PartsOf]
        /\ f \notin raised
    BY DEF FoldAnswer, Folded, stored, plans
  <1>4. storing' # Nothing /\ storing' \in Answers
    BY <1>2, <1>3, AnswersAreNotNone
  <1>5. storing'.config = f.config /\ storing'.item = f.item /\ storing'.parts = PartsOf
    BY <1>3
  <1>6. BasicTypes'
    BY <1>2, <1>3 DEF BasicTypes
  <1>7. DriverTypes'
    <2>1. consecutive' \in [Configs -> Nat]
      BY <1>2, <1>3 DEF DriverTypes
    <2>2. IsFiniteSet(calls')
      BY <1>2, <1>3, FS_RemoveElement DEF DriverTypes
    <2>3. RunOK(run)' /\ Answers' = Answers
      BY <1>2, <1>3 DEF RunOK, Answers, PartsOf
    <2> QED
      BY <1>2, <1>3, <1>4, <2>1, <2>2, <2>3 DEF DriverTypes
  <1>8. DriverTypeOK'
    <2>1. Budget(calls', owed', storing')
      <3>1. SUFFICES ASSUME NEW e \in Deployments
                     PROVE  InFlight(calls', e) + owed'[e]
                              + (IF storing' # Nothing /\ Deployment[storing'.config] = e THEN 1 ELSE 0)
                            <= Concurrency
        BY DEF Budget
      <3>2. /\ InFlight(calls, e) \in Nat /\ InFlight(calls \ {f}, e) \in Nat /\ Concurrency \in Nat
            /\ Deployment[f.config] # e => InFlight(calls \ {f}, e) = InFlight(calls, e)
            /\ Deployment[f.config] = e => InFlight(calls \ {f}, e) = InFlight(calls, e) - 1
        <4>1. IsFiniteSet(calls) /\ f \in calls /\ Concurrency \in Nat
          BY DriverAssumption, <1>2 DEF DriverTypes, DriverAssumption
        <4> QED
          BY ONLY <4>1, OneFewer, Zenon
      <3>3. InFlight(calls, e) + 0 + 0 <= Concurrency
        <4>1. owed[e] = 0 /\ ~ (storing # Nothing /\ Deployment[storing.config] = e)
          BY <1>2
        <4> QED
          BY <1>2, <4>1 DEF Budget
      <3>4. owed'[e] = 0
        BY <1>2, <1>3
      <3>5. CASE Deployment[f.config] = e
        BY <1>3, <1>4, <1>5, <3>2, <3>3, <3>4, <3>5
      <3>6. CASE Deployment[f.config] # e
        BY <1>3, <1>4, <1>5, <3>2, <3>3, <3>4, <3>6
      <3> QED
        BY <3>5, <3>6
    <2> QED
      BY <1>6, <1>7, <2>1, TypesMake
  <1>9. TurnInv' /\ RoundInv'
    BY <1>3, ZenonT(30) DEF DriverInv, TurnInv, RoundInv, Live, Drawn
  <1>10. BusyInv'
    <2>1. SUFFICES ASSUME NEW x \in Configs, Live(x)
                   PROVE  \/ \E g \in calls' : Deployment[g.config] = Deployment[x]
                          \/ storing' # Nothing /\ Deployment[storing'.config] = Deployment[x]
      BY <1>3 DEF BusyInv, Live
    <2>2. Deployment[x] \in Deployments
      BY ConfigsHaveDeployments
    <2>3. PICK g \in calls : Deployment[g.config] = Deployment[x]
      BY <1>2, <2>1, <2>2 DEF DriverInv, BusyInv
    <2>4. CASE g = f
      BY <1>4, <1>5, <2>3, <2>4
    <2>5. CASE g # f
      BY <1>3, <2>3, <2>5
    <2> QED
      BY <2>4, <2>5
  <1>11. \A x, y : /\ Queued(x, y)' <=> Queued(x, y)
                   /\ Called(x, y)' => Called(x, y)
                   /\ Stored(x, y)' => Called(x, y)
                   /\ Called(x, y) => Called(x, y)' \/ Stored(x, y)'
                   /\ ~ Stored(x, y)
                   /\ Settled(x, y)' <=> Settled(x, y)
    <2>1. \A x, y : (Queued(x, y)' <=> Queued(x, y)) /\ (Settled(x, y)' <=> Settled(x, y))
      BY <1>3 DEF Queued, Settled, AnsweredBy, PartsOf
    <2>2. \A x, y : Stored(x, y)' <=> x = f.config /\ y = f.item
      BY <1>4, <1>5 DEF Stored
    <2>3. \A x, y : ~ Stored(x, y)
      BY <1>2 DEF Stored
    <2>4. \A x, y : Called(x, y)' => Called(x, y)
      BY <1>3 DEF Called
    <2>5. \A x, y : Called(x, y) => Called(x, y)' \/ (x = f.config /\ y = f.item)
      BY <1>3 DEF Called
    <2>6. Called(f.config, f.item)
      BY <1>2 DEF Called
    <2> QED
      BY <2>1, <2>2, <2>3, <2>4, <2>5, <2>6
  <1>12. OnceInv'
    BY <1>2, <1>3, <1>11 DEF DriverInv, OnceInv
  <1>13. DueInv'
    BY <1>2, <1>3, <1>11 DEF DriverInv, DueInv
  <1>14. CoverInv'
    <2>1. Meant' = Meant
      BY <1>3 DEF Meant
    <2> QED
      BY <1>2, <1>3, <1>11, <2>1, Zenon DEF DriverInv, CoverInv
  <1>15. StoringInv'
    <2>1. PartsOf' \ storing'.parts = {}
      BY <1>3, <1>5 DEF PartsOf
    <2>2. \A d \in Deployments : owed'[d] = 0
      BY <1>2, <1>3
    <2> QED
      BY <1>2, <1>3, <1>5, <2>1, <2>2 DEF StoringInv
  <1>16. CallsInv' /\ NothingIsDropped'
    BY <1>2, <1>3 DEF DriverInv, CallsInv, NothingIsDropped
  <1> QED
    BY <1>7, <1>8, <1>9, <1>10, <1>12, <1>13, <1>14, <1>15, <1>16 DEF DriverInv

LEMMA FoldFailureKeeps ==
  ASSUME DriverInv, NEW f, FoldFailure(f)
  PROVE  DriverInv'
  <1>1. Ready(f)
    BY DEF FoldFailure
  <1>2. /\ phase = "running" /\ storing = Nothing /\ f \in batch /\ f \in calls /\ RunOK(run)
        /\ f.config \in Configs /\ f.item \in Items /\ f.config \in run.configs
        /\ Deployment[f.config] \in Deployments
        /\ owed \in [Deployments -> Nat] /\ \A d \in Deployments : owed[d] = 0
        /\ BasicTypes /\ Budget(calls, owed, storing) /\ DriverTypes
    BY <1>1, ReadyMeans
  <1>3. /\ which' = which /\ log' = log /\ latest' = latest /\ hand' = hand /\ version' = version
        /\ run' = run /\ runs' = runs
        /\ failed' = failed \cup {<<f.config, f.item>>}
        /\ aborted' = aborted \/ aborted' = aborted \cup {f.config}
    BY DEF FoldFailure, stored
  <1>4. aborted' \subseteq Configs /\ failed' \subseteq Configs \X Items /\ aborted \subseteq aborted'
    BY <1>2, <1>3 DEF BasicTypes
  <1>5. RunOK(run)'
    BY <1>2, <1>3 DEF RunOK
  <1>6. CASE Bounded /\ f.config \in aborted'
    <2>1. LetGo /\ phase' = "aborted"
      BY <1>6 DEF FoldFailure
    <2>2. NothingIsDropped'
      BY <2>1 DEF NothingIsDropped
    <2> QED
      BY <1>3, <1>4, <1>5, <2>1, <2>2, NothingUnderWay
  <1>7. CASE ~ (Bounded /\ f.config \in aborted')
    <2>1. /\ calls' = calls \ {f} /\ batch' = batch \ {f} /\ raised' = raised \ {f}
          /\ owed' = [owed EXCEPT ![Deployment[f.config]] = 1]
          /\ consecutive' = [consecutive EXCEPT ![f.config] = @ + 1]
          /\ storing' = storing /\ asking' = asking /\ left' = left /\ turn' = turn
          /\ phase' = phase
      BY <1>7 DEF FoldFailure, Folded
    <2>2. BasicTypes'
      BY <1>2, <1>3, <1>4, <2>1 DEF BasicTypes
    <2>3. DriverTypes'
      <3>1. consecutive' \in [Configs -> Nat] /\ owed' \in [Deployments -> Nat]
        BY <1>2, <2>1 DEF DriverTypes
      <3>2. IsFiniteSet(calls')
        BY <1>2, <2>1, FS_RemoveElement DEF DriverTypes
      <3>3. storing' = Nothing
        BY <1>2, <2>1
      <3> QED
        BY <1>2, <1>3, <1>5, <2>1, <3>1, <3>2, <3>3 DEF DriverTypes
    <2>4. DriverTypeOK'
      <3>1. Budget(calls', owed', storing')
        <4>1. SUFFICES ASSUME NEW e \in Deployments
                       PROVE  InFlight(calls', e) + owed'[e] + 0 <= Concurrency
          BY <1>2, <2>1 DEF Budget
        <4>2. /\ InFlight(calls, e) \in Nat /\ InFlight(calls \ {f}, e) \in Nat
              /\ Concurrency \in Nat
              /\ Deployment[f.config] # e => InFlight(calls \ {f}, e) = InFlight(calls, e)
              /\ Deployment[f.config] = e => InFlight(calls \ {f}, e) = InFlight(calls, e) - 1
          <5>1. IsFiniteSet(calls) /\ f \in calls /\ Concurrency \in Nat
            BY DriverAssumption, <1>2 DEF DriverTypes, DriverAssumption
          <5> QED
            BY ONLY <5>1, OneFewer, Zenon
        <4>3. InFlight(calls, e) + 0 + 0 <= Concurrency
          <5>1. owed[e] = 0 /\ ~ (storing # Nothing /\ Deployment[storing.config] = e)
            BY <1>2
          <5> QED
            BY <1>2, <5>1 DEF Budget
        <4>4. owed'[e] = (IF Deployment[f.config] = e THEN 1 ELSE 0)
          BY <1>2, <2>1
        <4>5. CASE Deployment[f.config] = e
          BY <2>1, <4>2, <4>3, <4>4, <4>5
        <4>6. CASE Deployment[f.config] # e
          BY <2>1, <4>2, <4>3, <4>4, <4>6
        <4> QED
          BY <4>5, <4>6
      <3> QED
        BY <2>2, <2>3, <3>1, TypesMake
    <2>5. \A x \in Configs : Live(x)' => Live(x)
      BY <1>4, <2>1 DEF Live
    <2>6. TurnInv'
      BY <1>2, <1>3, <2>1, <2>5 DEF DriverInv, TurnInv
    <2>7. RoundInv'
      <3>1. \A d \in Deployments : \A j \in DOMAIN turn[d] : turn[d][j] \in Configs
        BY <1>2 DEF DriverTypes
      <3>2. \A x : Drawn(x)' = Drawn(x)
        BY <2>1 DEF Drawn
      <3> QED
        BY <1>2, <2>1, <2>5, <3>1, <3>2 DEF DriverInv, RoundInv
    <2>8. BusyInv'
      <3>1. SUFFICES ASSUME NEW x \in Configs, Live(x)
                     PROVE  \/ owed'[Deployment[x]] > 0
                            \/ \E g \in calls' : Deployment[g.config] = Deployment[x]
        BY <2>5 DEF BusyInv
      <3>2. Deployment[x] \in Deployments
        BY ConfigsHaveDeployments
      <3>3. PICK g \in calls : Deployment[g.config] = Deployment[x]
        BY <1>2, <3>1, <3>2 DEF DriverInv, BusyInv
      <3>4. CASE g = f
        <4>1. owed'[Deployment[x]] = 1
          BY <1>2, <2>1, <3>2, <3>3, <3>4
        <4> QED
          BY <4>1
      <3>5. CASE g # f
        BY <2>1, <3>3, <3>5
      <3> QED
        BY <3>4, <3>5
    <2>9. \A x, y : /\ Queued(x, y)' <=> Queued(x, y)
                    /\ Called(x, y)' => Called(x, y)
                    /\ Called(x, y) => Called(x, y)' \/ <<x, y>> \in failed'
                    /\ Stored(x, y)' <=> Stored(x, y)
                    /\ Settled(x, y)' <=> Settled(x, y)
      <3>1. \A x, y : /\ Queued(x, y)' <=> Queued(x, y)
                      /\ Stored(x, y)' <=> Stored(x, y)
                      /\ Settled(x, y)' <=> Settled(x, y)
        BY <1>3, <2>1 DEF Queued, Stored, Settled, AnsweredBy, PartsOf
      <3>2. \A x, y : Called(x, y)' => Called(x, y)
        BY <2>1 DEF Called
      <3>3. \A x, y : Called(x, y) => Called(x, y)' \/ <<x, y>> \in failed'
        BY <1>3, <2>1 DEF Called
      <3> QED
        BY <3>1, <3>2, <3>3, Zenon
    <2>10. OnceInv'
      BY <1>2, <2>1, <2>9 DEF DriverInv, OnceInv
    <2>11. DueInv'
      BY <1>2, <1>3, <2>9 DEF DriverInv, DueInv
    <2>12. CoverInv'
      <3>1. Meant' = Meant
        BY <1>3 DEF Meant
      <3>2. SUFFICES ASSUME run.limit >= NItems, NEW x \in run.configs \ aborted', NEW y \in Meant
                     PROVE  \/ Settled(x, y)' \/ <<x, y>> \in failed'
                            \/ Queued(x, y)' \/ Called(x, y)' \/ Stored(x, y)'
        BY <1>3, <3>1, Zenon DEF CoverInv
      <3>3. x \in run.configs \ aborted
        BY <1>4, <3>2
      <3>4. \/ Settled(x, y) \/ <<x, y>> \in failed
            \/ Queued(x, y) \/ Called(x, y) \/ Stored(x, y)
        BY <1>2, <3>2, <3>3 DEF DriverInv, CoverInv
      <3> QED
        BY <1>3, <2>9, <3>4
    <2>13. StoringInv' /\ CallsInv' /\ NothingIsDropped'
      BY <1>2, <1>3, <2>1 DEF DriverInv, StoringInv, CallsInv, NothingIsDropped
    <2> QED
      BY <2>3, <2>4, <2>6, <2>7, <2>8, <2>10, <2>11, <2>12, <2>13 DEF DriverInv
  <1> QED
    BY <1>6, <1>7

\* The plans a stream may draw from, in the order of their turns: every one of
\* its deployment, each once, and those sooner in turn have drawn no more.
LEMMA LivingAre ==
  ASSUME DriverInv, phase = "running", NEW d \in Deployments
  PROVE  /\ LivingOf(turn[d]) \in Seq(Configs) /\ Once(LivingOf(turn[d]))
         /\ \A k \in 1..Len(LivingOf(turn[d])) :
              Live(LivingOf(turn[d])[k]) /\ Deployment[LivingOf(turn[d])[k]] = d
         /\ \A x \in Configs : Live(x) /\ Deployment[x] = d => Lists(LivingOf(turn[d]), x)
         /\ \A j, k \in 1..Len(LivingOf(turn[d])) : j < k =>
              /\ Drawn(LivingOf(turn[d])[j]) <= Drawn(LivingOf(turn[d])[k])
              /\ Drawn(LivingOf(turn[d])[k]) <= Drawn(LivingOf(turn[d])[j]) + 1
  <1> DEFINE s == turn[d]
             live == LivingOf(s)
  <1>1. s \in Seq(Configs)
    BY DEF DriverInv, DriverTypes
  <1>2. \E n \in Nat : \E at \in [1..n -> DOMAIN s] :
           /\ live = [k \in 1..n |-> s[at[k]]]
           /\ \A j, k \in 1..n : j < k => at[j] < at[k]
           /\ \A k \in 1..n : Live(s[at[k]])
           /\ \A j \in DOMAIN s : Live(s[j]) => \E k \in 1..n : at[k] = j
    BY <1>1, LivingKeepTheirOrder
  <1>3. /\ \A j \in DOMAIN s : s[j] \in Configs /\ Deployment[s[j]] = d
        /\ DOMAIN s \subseteq Nat /\ Once(s)
        /\ \A x \in Configs : Live(x) /\ Deployment[x] = d => Lists(s, x)
        /\ \A j, k \in DOMAIN s : j < k /\ Live(s[j]) /\ Live(s[k]) =>
             Drawn(s[j]) <= Drawn(s[k]) /\ Drawn(s[k]) <= Drawn(s[j]) + 1
    BY <1>1 DEF DriverInv, TurnInv, RoundInv
  <1> HIDE DEF s, live
  <1>4. PICK n \in Nat : \E at \in [1..n -> DOMAIN s] :
           /\ live = [k \in 1..n |-> s[at[k]]]
           /\ \A j, k \in 1..n : j < k => at[j] < at[k]
           /\ \A k \in 1..n : Live(s[at[k]])
           /\ \A j \in DOMAIN s : Live(s[j]) => \E k \in 1..n : at[k] = j
    BY <1>2
  <1>5. PICK at \in [1..n -> DOMAIN s] :
           /\ live = [k \in 1..n |-> s[at[k]]]
           /\ \A j, k \in 1..n : j < k => at[j] < at[k]
           /\ \A k \in 1..n : Live(s[at[k]])
           /\ \A j \in DOMAIN s : Live(s[j]) => \E k \in 1..n : at[k] = j
    BY <1>4
  <1>6. /\ \A k \in 1..n : live[k] = s[at[k]] /\ at[k] \in DOMAIN s
        /\ live \in [1..n -> Configs]
    BY <1>3, <1>5
  <1>7. live \in Seq(Configs) /\ Len(live) = n /\ DOMAIN live = 1..n
    BY <1>6
  <1>8. Once(live)
    <2>1. SUFFICES ASSUME NEW j \in 1..n, NEW k \in 1..n, live[j] = live[k], j # k
                   PROVE  FALSE
      BY <1>7 DEF Once
    <2>2. at[j] = at[k]
      BY <1>3, <1>6, <2>1 DEF Once
    <2>3. at[j] \in Nat /\ at[k] \in Nat
      BY <1>3, <1>6
    <2>4. j < k \/ k < j
      BY <2>1
    <2> QED
      BY <1>5, <2>2, <2>3, <2>4
  <1>9. \A k \in 1..n : Live(live[k]) /\ Deployment[live[k]] = d
    BY <1>3, <1>5, <1>6
  <1>10. \A x \in Configs : Live(x) /\ Deployment[x] = d => Lists(live, x)
    <2>1. SUFFICES ASSUME NEW x \in Configs, Live(x), Deployment[x] = d
                   PROVE  Lists(live, x)
      OBVIOUS
    <2>2. PICK j \in DOMAIN s : s[j] = x
      BY <1>3, <2>1 DEF Lists
    <2>3. PICK k \in 1..n : at[k] = j
      BY <1>5, <2>1, <2>2
    <2> QED
      BY <1>6, <1>7, <2>2, <2>3 DEF Lists
  <1>11. \A j, k \in 1..n : j < k =>
           Drawn(live[j]) <= Drawn(live[k]) /\ Drawn(live[k]) <= Drawn(live[j]) + 1
    <2>1. SUFFICES ASSUME NEW j \in 1..n, NEW k \in 1..n, j < k
                   PROVE  /\ Drawn(s[at[j]]) <= Drawn(s[at[k]])
                          /\ Drawn(s[at[k]]) <= Drawn(s[at[j]]) + 1
      BY <1>6
    <2>2. at[j] < at[k] /\ at[j] \in DOMAIN s /\ at[k] \in DOMAIN s
          /\ Live(s[at[j]]) /\ Live(s[at[k]])
      BY <1>5, <1>6, <2>1
    <2> QED
      BY <1>3, <2>2
  <1> QED
    BY <1>7, <1>8, <1>9, <1>10, <1>11 DEF s, live

\* A draw leaves the log, the run and the consumer alone.
LEMMA DrawLeaves ==
  ASSUME DriverInv, NEW d \in Deployments, Draw(d)
  PROVE  /\ phase = "running" /\ storing = Nothing /\ owed[d] > 0 /\ owed \in [Deployments -> Nat]
         /\ BasicTypes /\ Budget(calls, owed, storing) /\ DriverTypes /\ RunOK(run)
         /\ which' = which /\ log' = log /\ latest' = latest /\ hand' = hand /\ version' = version
         /\ run' = run /\ phase' = phase /\ runs' = runs /\ asking' = asking /\ batch' = batch
         /\ raised' = raised /\ storing' = storing /\ aborted' = aborted /\ failed' = failed
         /\ \A x, y : Settled(x, y)' <=> Settled(x, y)
         /\ Meant' = Meant /\ PartsOf' = PartsOf
  <1>1. phase = "running" /\ storing = Nothing /\ owed[d] > 0
    BY DEF Draw
  <1>2. /\ which' = which /\ log' = log /\ latest' = latest /\ hand' = hand /\ version' = version
        /\ run' = run /\ phase' = phase /\ runs' = runs /\ asking' = asking /\ batch' = batch
        /\ raised' = raised /\ storing' = storing /\ aborted' = aborted /\ failed' = failed
    BY DEF Draw, stored
  <1>3. BasicTypes /\ Budget(calls, owed, storing) /\ DriverTypes
    BY TypesAre DEF DriverInv
  <1>4. RunOK(run) /\ owed \in [Deployments -> Nat]
    BY <1>1, <1>3 DEF DriverTypes
  <1>5. \A x, y : Settled(x, y)' <=> Settled(x, y)
    BY <1>2 DEF Settled, AnsweredBy, PartsOf
  <1>6. Meant' = Meant /\ PartsOf' = PartsOf
    BY <1>2 DEF Meant, PartsOf
  <1> QED
    BY <1>1, <1>2, <1>3, <1>4, <1>5, <1>6

\* A stream with nothing more to draw is owed nothing.
LEMMA DrawNoneKeeps ==
  ASSUME DriverInv, NEW d \in Deployments, Draw(d),
         LivingOf(turn[d]) = <<>>
  PROVE  DriverInv'
  <1>1. /\ phase = "running" /\ storing = Nothing /\ owed[d] > 0 /\ owed \in [Deployments -> Nat]
        /\ BasicTypes /\ Budget(calls, owed, storing) /\ DriverTypes /\ RunOK(run)
        /\ which' = which /\ log' = log /\ latest' = latest /\ hand' = hand /\ version' = version
        /\ run' = run /\ phase' = phase /\ runs' = runs /\ asking' = asking /\ batch' = batch
        /\ raised' = raised /\ storing' = storing /\ aborted' = aborted /\ failed' = failed
        /\ \A x, y : Settled(x, y)' <=> Settled(x, y)
        /\ Meant' = Meant /\ PartsOf' = PartsOf
    BY DrawLeaves
  <1>2. /\ owed' = [owed EXCEPT ![d] = 0] /\ turn' = [turn EXCEPT ![d] = <<>>]
        /\ left' = left /\ calls' = calls /\ consecutive' = consecutive
    BY DEF Draw
  <1>3. \A x \in Configs : Live(x) => Deployment[x] # d
    <2>1. \A x \in Configs : Live(x) /\ Deployment[x] = d => Lists(<<>>, x)
      BY <1>1, LivingAre
    <2> QED
      BY <2>1 DEF Lists
  <1>4. turn \in [Deployments -> Seq(Configs)]
    BY <1>1 DEF DriverTypes
  <1>5. BasicTypes'
    BY <1>1, <1>2 DEF BasicTypes
  <1>6. DriverTypes'
    <2>1. owed' \in [Deployments -> Nat] /\ turn' \in [Deployments -> Seq(Configs)]
      BY <1>1, <1>2, <1>4
    <2>2. RunOK(run)' /\ storing' = Nothing
      BY <1>1 DEF RunOK
    <2> QED
      BY <1>1, <1>2, <2>1, <2>2 DEF DriverTypes
  <1>7. DriverTypeOK'
    <2>1. Budget(calls', owed', storing')
      <3>1. SUFFICES ASSUME NEW e \in Deployments
                     PROVE  InFlight(calls, e) + owed'[e] + 0 <= Concurrency
        BY <1>1, <1>2 DEF Budget
      <3>2. InFlight(calls, e) \in Nat /\ Concurrency \in Nat
        BY DriverAssumption, <1>1, InFlightCounts DEF DriverTypes, DriverAssumption
      <3>3. InFlight(calls, e) + owed[e] + 0 <= Concurrency
        BY <1>1 DEF Budget
      <3>4. owed[e] \in Nat /\ (owed'[e] = owed[e] \/ owed'[e] = 0)
        BY <1>1, <1>2
      <3> QED
        BY <3>2, <3>3, <3>4
    <2> QED
      BY <1>5, <1>6, <2>1, TypesMake
  <1>8. /\ \A x : Live(x)' <=> Live(x)
        /\ \A x : Drawn(x)' = Drawn(x)
        /\ turn'[d] = <<>> /\ \A e \in Deployments : e # d => turn'[e] = turn[e]
    BY <1>1, <1>2, <1>4 DEF Live, Drawn
  <1>9. TurnInv'
    <2>1. \A e \in Deployments : /\ \A j \in DOMAIN turn'[e] : Deployment[turn'[e][j]] = e
                                   /\ Once(turn'[e])
      <3>1. TAKE e \in Deployments
      <3>2. CASE e = d
        BY <1>8, <3>2 DEF Once
      <3>3. CASE e # d
        BY <1>1, <1>8, <3>3 DEF DriverInv, TurnInv
      <3> QED
        BY <3>2, <3>3
    <2>2. \A x \in Configs : Live(x) => Lists(turn'[Deployment[x]], x)
      BY <1>1, <1>3, <1>8, ConfigsHaveDeployments DEF DriverInv, TurnInv
    <2>3. \A x \in Configs : left[x] # <<>> => x \in run.configs
      BY <1>1 DEF DriverInv, TurnInv
    <2> QED
      BY <1>1, <1>2, <1>8, <2>1, <2>2, <2>3 DEF TurnInv, Once, Lists
  <1>10. RoundInv'
    <2>1. SUFFICES ASSUME NEW e \in Deployments, NEW j \in DOMAIN turn'[e], NEW k \in DOMAIN turn'[e],
                          j < k, Live(turn'[e][j]), Live(turn'[e][k])
                   PROVE  /\ Drawn(turn'[e][j]) <= Drawn(turn'[e][k])
                          /\ Drawn(turn'[e][k]) <= Drawn(turn'[e][j]) + 1
      BY <1>8 DEF RoundInv
    <2>2. e # d
      BY <1>8
    <2>3. turn'[e] = turn[e]
      BY <1>8, <2>2
    <2> QED
      BY <1>1, <2>1, <2>3 DEF DriverInv, RoundInv
  <1>11. BusyInv'
    <2>1. \A x \in Configs : Live(x) => owed'[Deployment[x]] = owed[Deployment[x]]
      BY <1>1, <1>2, <1>3, ConfigsHaveDeployments
    <2> QED
      BY <1>1, <1>2, <1>8, <2>1 DEF DriverInv, BusyInv
  <1>12. \A x, y : /\ Queued(x, y)' <=> Queued(x, y)
                   /\ Called(x, y)' <=> Called(x, y)
                   /\ Stored(x, y)' <=> Stored(x, y)
    BY <1>1, <1>2 DEF Queued, Called, Stored
  <1>13. OnceInv' /\ DueInv'
    BY <1>1, <1>2, <1>12 DEF DriverInv, OnceInv, DueInv
  <1>14. CoverInv'
    BY <1>1, <1>12, Zenon DEF DriverInv, CoverInv
  <1>15. StoringInv' /\ CallsInv' /\ NothingIsDropped'
    BY <1>1, <1>2 DEF DriverInv, StoringInv, CallsInv, NothingIsDropped
  <1> QED
    BY <1>6, <1>7, <1>9, <1>10, <1>11, <1>13, <1>14, <1>15 DEF DriverInv

\* A site a replay passes over is settled: it has nothing to ask about, or this
\* configuration answered it, and outcomes are one record each.
LEMMA PassedOverIsSettled ==
  ASSUME RunOK(run), NEW c, NEW i, PassedOver(c, i)
  PROVE  Settled(c, i) /\ run.kind = "replay"
  <1>1. run.kind = "replay"
    BY DEF PassedOver
  <1>2. CASE i \in Unasked
    BY <1>1, <1>2 DEF Settled, AnsweredBy
  <1>3. CASE i \notin Unasked
    <2>1. Recorded(c, i, run.asked[i]) # {}
      BY <1>3 DEF PassedOver, AskedAlready
    <2>2. which # "matches"
      BY <1>1 DEF RunOK, LogOf
    <2>3. PICK p \in Parts : PartsOf = {p}
      BY <2>2, PartsAreOne
    <2>4. \A q \in PartsOf : Record(c, i, q, run.asked[i], FALSE) \in log
      BY <2>1, <2>3 DEF Recorded
    <2> QED
      BY <1>1, <2>4 DEF Settled, AnsweredBy
  <1> QED
    BY <1>1, <1>2, <1>3

\* The plan that draws next, its question, and what the draw does.
LEMMA DrawMoves ==
  ASSUME DriverInv, NEW d \in Deployments, Draw(d),
         LivingOf(turn[d]) # <<>>
  PROVE  \E live \in Seq(Configs) : \E c \in Configs : \E i \in Items :
           /\ Len(live) # 0 /\ live[1] = c /\ Once(live)
           /\ \A k \in 1..Len(live) : Live(live[k]) /\ Deployment[live[k]] = d
           /\ \A x \in Configs : Live(x) /\ Deployment[x] = d => Lists(live, x)
           /\ \A j, k \in 1..Len(live) : j < k =>
                Drawn(live[j]) <= Drawn(live[k]) /\ Drawn(live[k]) <= Drawn(live[j]) + 1
           /\ turn' = [turn EXCEPT ![d] = Rotated(live)]
           /\ left' = [left EXCEPT ![c] = Tail(@)]
           /\ left[c] \in Seq(Items) /\ left[c] # <<>> /\ i = Head(left[c])
           /\ c \in run.configs /\ c \notin aborted
           /\ \/ /\ PassedOver(c, i) /\ owed' = owed /\ calls' = calls
                 /\ consecutive' = [consecutive EXCEPT ![c] = 0]
              \/ /\ owed' = [owed EXCEPT ![d] = @ - 1]
                 /\ calls' = calls \cup {[config |-> c, item |-> i]}
                 /\ consecutive' = consecutive /\ ~ PassedOver(c, i)
  <1> DEFINE live == LivingOf(turn[d])
             c == Head(live)
             i == Head(left[c])
  <1>1. phase = "running"
    BY DEF Draw
  <1>2. /\ live \in Seq(Configs) /\ Once(live)
        /\ \A k \in 1..Len(live) : Live(live[k]) /\ Deployment[live[k]] = d
        /\ \A x \in Configs : Live(x) /\ Deployment[x] = d => Lists(live, x)
        /\ \A j, k \in 1..Len(live) : j < k =>
             Drawn(live[j]) <= Drawn(live[k]) /\ Drawn(live[k]) <= Drawn(live[j]) + 1
    BY <1>1, LivingAre
  <1>3. /\ turn' = [turn EXCEPT ![d] = Rotated(live)]
        /\ left' = [left EXCEPT ![c] = Tail(@)]
        /\ \/ /\ PassedOver(c, i) /\ owed' = owed /\ calls' = calls
              /\ consecutive' = [consecutive EXCEPT ![c] = 0]
           \/ /\ owed' = [owed EXCEPT ![d] = @ - 1]
              /\ calls' = calls \cup {[config |-> c, item |-> i]}
              /\ consecutive' = consecutive /\ ~ PassedOver(c, i)
    BY DEF Draw, PassOver, AskNext
  <1> HIDE DEF live, c, i
  <1>4. live # <<>>
    BY DEF live
  <1>5. Len(live) \in Nat \ {0} /\ c = live[1] /\ c \in Configs
    BY <1>2, <1>4 DEF c
  <1>6. Live(c)
    BY <1>2, <1>5
  <1>7. left[c] \in Seq(Items) /\ left[c] # <<>> /\ c \notin aborted
    BY <1>5, <1>6 DEF Live, DriverInv, DriverTypes
  <1>8. i \in Items /\ i = Head(left[c])
    BY <1>7 DEF i
  <1>9. c \in run.configs
    BY <1>1, <1>5, <1>7 DEF DriverInv, TurnInv
  <1>10. Len(live) # 0
    BY <1>5, SMTT(30)
  <1> QED
    BY <1>2, <1>3, <1>5, <1>7, <1>8, <1>9, <1>10

LEMMA TurnGoesRound ==
  ASSUME NEW s \in Seq(Configs), Len(s) # 0, Once(s)
  PROVE  /\ Rotated(s) \in Seq(Configs) /\ Len(Rotated(s)) = Len(s) /\ Len(s) \in Nat \ {0}
         /\ Once(Rotated(s)) /\ \A x : Lists(Rotated(s), x) <=> Lists(s, x)
         /\ Rotated(s)[Len(s)] = s[1]
         /\ \A k \in 1..Len(s) : k # Len(s) =>
              Rotated(s)[k] = s[k + 1] /\ k + 1 \in 1..Len(s) /\ s[k + 1] # s[1]
  <1>1. s # <<>> /\ Len(s) \in Nat \ {0} /\ DOMAIN s = 1..Len(s)
    OBVIOUS
  <1>2. /\ Rotated(s) \in Seq(Configs) /\ Len(Rotated(s)) = Len(s)
        /\ Rotated(s)[Len(s)] = s[1]
        /\ \A k \in 1..(Len(s) - 1) : Rotated(s)[k] = s[k + 1]
    BY <1>1, RotatedLists
  <1> DEFINE t == Tail(s)
             h == <<Head(s)>>
  <1>3. /\ Head(s) \in Configs /\ t \in Seq(Configs)
        /\ \A x : Lists(s, x) <=> x = Head(s) \/ Lists(t, x)
        /\ Once(t) /\ ~ Lists(t, Head(s))
    BY <1>1, TailLists
  <1>4. h \in Seq(Configs) /\ Once(h) /\ \A x : Lists(h, x) <=> x = Head(s)
    BY <1>3 DEF Once, Lists
  <1>5. Rotated(s) = t \o h
    BY DEF Rotated
  <1> HIDE DEF t, h
  <1>6. /\ \A x : Lists(t \o h, x) <=> Lists(t, x) \/ Lists(h, x)
        /\ Once(t \o h)
    <2>1. \A x : ~ (Lists(t, x) /\ Lists(h, x))
      BY <1>3, <1>4
    <2> QED
      BY <1>3, <1>4, <2>1, JoinedLists
  <1>7. \A k \in 1..Len(s) : k # Len(s) =>
          Rotated(s)[k] = s[k + 1] /\ k + 1 \in 1..Len(s) /\ s[k + 1] # s[1]
    <2>1. TAKE k \in 1..Len(s)
    <2>2. HAVE k # Len(s)
    <2>3. k \in 1..(Len(s) - 1) /\ k + 1 \in 1..Len(s) /\ k + 1 # 1 /\ 1 \in 1..Len(s)
      <3> DEFINE n == Len(s)
      <3>1. n \in Nat \ {0} /\ k \in 1..n /\ k # n
        BY <1>1, <2>2, Zenon
      <3> HIDE DEF n
      <3>2. k \in 1..(n - 1) /\ k + 1 \in 1..n /\ k + 1 # 1 /\ 1 \in 1..n
        BY <3>1
      <3> QED
        BY <3>2 DEF n
    <2>4. s[k + 1] # s[1]
      BY <1>1, <2>3 DEF Once
    <2> QED
      BY <1>2, <2>3, <2>4
  <1> QED
    BY <1>1, <1>2, <1>3, <1>4, <1>5, <1>6, <1>7, Zenon

\* The plan that draws goes to the back of its stream, one question further on.
LEMMA DrawOneKeeps ==
  ASSUME DriverInv, NEW d \in Deployments, Draw(d),
         LivingOf(turn[d]) # <<>>
  PROVE  DriverInv'
  <1>1. /\ phase = "running" /\ storing = Nothing /\ owed[d] > 0 /\ owed \in [Deployments -> Nat]
        /\ BasicTypes /\ Budget(calls, owed, storing) /\ DriverTypes /\ RunOK(run)
        /\ which' = which /\ log' = log /\ latest' = latest /\ hand' = hand /\ version' = version
        /\ run' = run /\ phase' = phase /\ runs' = runs /\ asking' = asking /\ batch' = batch
        /\ raised' = raised /\ storing' = storing /\ aborted' = aborted /\ failed' = failed
        /\ \A x, y : Settled(x, y)' <=> Settled(x, y)
        /\ Meant' = Meant /\ PartsOf' = PartsOf
    BY DrawLeaves
  <1> DEFINE Moves(live, c, i) ==
               /\ Len(live) # 0 /\ live[1] = c /\ Once(live)
               /\ \A k \in 1..Len(live) : Live(live[k]) /\ Deployment[live[k]] = d
               /\ \A x \in Configs : Live(x) /\ Deployment[x] = d => Lists(live, x)
               /\ \A j, k \in 1..Len(live) : j < k =>
                    Drawn(live[j]) <= Drawn(live[k]) /\ Drawn(live[k]) <= Drawn(live[j]) + 1
               /\ turn' = [turn EXCEPT ![d] = Rotated(live)]
               /\ left' = [left EXCEPT ![c] = Tail(@)]
               /\ left[c] \in Seq(Items) /\ left[c] # <<>> /\ i = Head(left[c])
               /\ c \in run.configs /\ c \notin aborted
               /\ \/ /\ PassedOver(c, i) /\ owed' = owed /\ calls' = calls
                     /\ consecutive' = [consecutive EXCEPT ![c] = 0]
                  \/ /\ owed' = [owed EXCEPT ![d] = @ - 1]
                     /\ calls' = calls \cup {[config |-> c, item |-> i]}
                     /\ consecutive' = consecutive /\ ~ PassedOver(c, i)
  <1>2. \E live \in Seq(Configs) : \E c \in Configs : \E i \in Items : Moves(live, c, i)
    BY DrawMoves
  <1>3. PICK live \in Seq(Configs) : \E c \in Configs : \E i \in Items : Moves(live, c, i)
    BY <1>2
  <1>4. PICK c \in Configs : \E i \in Items : Moves(live, c, i)
    BY <1>3
  <1>5. PICK i \in Items : Moves(live, c, i)
    BY <1>4
  <1> DEFINE r == Rotated(live)
             n == Len(live)
             f == [config |-> c, item |-> i]
  <1>6. /\ r \in Seq(Configs) /\ Len(r) = n /\ n \in Nat \ {0} /\ DOMAIN r = 1..n
        /\ Once(r) /\ \A x : Lists(r, x) <=> Lists(live, x)
        /\ r[n] = c
        /\ \A k \in 1..n : k # n => r[k] = live[k + 1] /\ k + 1 \in 1..n /\ live[k + 1] # c
    <2>1. /\ r \in Seq(Configs) /\ Len(r) = n /\ n \in Nat \ {0}
          /\ Once(r) /\ \A x : Lists(r, x) <=> Lists(live, x)
          /\ r[n] = live[1]
          /\ \A k \in 1..n : k # n => r[k] = live[k + 1] /\ k + 1 \in 1..n /\ live[k + 1] # live[1]
      BY <1>5, TurnGoesRound
    <2> HIDE DEF r, n
    <2> QED
      BY <1>5, <2>1
  <1>7. /\ Tail(left[c]) \in Seq(Items) /\ Len(Tail(left[c])) = Len(left[c]) - 1
        /\ \A y : Lists(left[c], y) <=> y = i \/ Lists(Tail(left[c]), y)
        /\ Once(left[c]) => Once(Tail(left[c])) /\ ~ Lists(Tail(left[c]), i)
    BY <1>5, TailLists
  <1>8. /\ turn \in [Deployments -> Seq(Configs)] /\ left \in [Configs -> Seq(Items)]
        /\ asking \in [Configs -> Seq(Items)] /\ consecutive \in [Configs -> Nat]
        /\ IsFiniteSet(calls)
    BY <1>1, SMTT(30) DEF DriverTypes
  <1>9. /\ turn' \in [Deployments -> Seq(Configs)] /\ left' \in [Configs -> Seq(Items)]
        /\ turn'[d] = r /\ \A e \in Deployments : e # d => turn'[e] = turn[e]
        /\ left'[c] = Tail(left[c]) /\ \A x \in Configs : x # c => left'[x] = left[x]
        /\ c \notin aborted /\ c \in run.configs /\ left[c] # <<>>
    BY <1>5, <1>6, <1>7, <1>8, Zenon
  <1>10. /\ owed' \in [Deployments -> Nat] /\ consecutive' \in [Configs -> Nat]
         /\ calls' = calls \/ calls' = calls \cup {f}
         /\ \A e \in Deployments : e # d => owed'[e] = owed[e]
         /\ \/ PassedOver(c, i) /\ calls' = calls /\ owed' = owed
            \/ calls' = calls \cup {f} /\ owed'[d] = owed[d] - 1
    <2>1. \/ /\ PassedOver(c, i) /\ owed' = owed /\ calls' = calls
             /\ consecutive' = [consecutive EXCEPT ![c] = 0]
          \/ /\ owed' = [owed EXCEPT ![d] = @ - 1] /\ calls' = calls \cup {f}
             /\ consecutive' = consecutive
      BY <1>5
    <2>2. owed[d] - 1 \in Nat
      <3>1. owed[d] \in Nat /\ owed[d] > 0
        BY <1>1
      <3> QED
        BY <3>1
    <2> HIDE DEF Moves, f, n, r
    <2>3. CASE owed' = owed /\ calls' = calls /\ consecutive' = [consecutive EXCEPT ![c] = 0]
      BY <1>1, <1>8, <2>1, <2>3
    <2>4. CASE /\ owed' = [owed EXCEPT ![d] = @ - 1] /\ calls' = calls \cup {f}
               /\ consecutive' = consecutive
      BY <1>1, <1>8, <2>2, <2>4, SMTT(30)
    <2> QED
      BY <2>1, <2>3, <2>4
  <1>11. f \in Questions /\ f.config = c /\ f.item = i /\ Deployment[c] = d
    <2>1. 1 \in 1..n
      <3> HIDE DEF Moves, r, n, f
      <3> QED
        BY <1>6
    <2> QED
      BY <1>5, <2>1 DEF Questions
  <1>12. /\ Once(live) /\ \A x \in Configs : Live(x) /\ Deployment[x] = d => Lists(live, x)
         /\ \A k \in 1..n : Live(live[k]) /\ Deployment[live[k]] = d
         /\ \A j, k \in 1..n : j < k =>
              Drawn(live[j]) <= Drawn(live[k]) /\ Drawn(live[k]) <= Drawn(live[j]) + 1
         /\ live[1] = c /\ \A k \in 1..n : live[k] \in Configs
    <2>1. \A k \in 1..n : live[k] \in Configs
      OBVIOUS
    <2>2. Moves(live, c, i)
      BY <1>5
    <2> HIDE DEF n
    <2> QED
      BY <2>1, <2>2 DEF n
  <1> HIDE DEF r, n, f, Moves
  <1>13. BasicTypes'
    BY <1>1, <1>10, <1>11 DEF BasicTypes
  <1>14. DriverTypes'
    <2>1. RunOK(run)' /\ storing' = Nothing
      BY <1>1 DEF RunOK
    <2>2. IsFiniteSet(calls')
      <3>1. IsFiniteSet(calls \cup {f})
        BY <1>8, FS_AddElement
      <3> QED
        BY <1>8, <1>10, <3>1
    <2> QED
      BY <1>1, <1>8, <1>9, <1>10, <2>1, <2>2 DEF DriverTypes
  <1>15. DriverTypeOK'
    <2>1. Budget(calls', owed', storing')
      <3>1. SUFFICES ASSUME NEW e \in Deployments
                     PROVE  InFlight(calls', e) + owed'[e] + 0 <= Concurrency
        BY <1>1 DEF Budget
      <3>2. /\ InFlight(calls, e) \in Nat /\ InFlight(calls \cup {f}, e) \in Nat
            /\ Deployment[f.config] # e => InFlight(calls \cup {f}, e) = InFlight(calls, e)
            /\ Deployment[f.config] = e => InFlight(calls \cup {f}, e) <= InFlight(calls, e) + 1
        BY <1>8, OneMore
      <3>3. Concurrency \in Nat /\ owed[e] \in Nat /\ owed'[e] \in Nat /\ owed[d] \in Nat
        BY DriverAssumption, <1>1, <1>10 DEF DriverAssumption
      <3>4. InFlight(calls, e) + owed[e] + 0 <= Concurrency
        BY <1>1 DEF Budget
      <3>5. CASE calls' = calls /\ owed' = owed
        BY <3>4, <3>5
      <3>6. CASE calls' = calls \cup {f} /\ owed'[d] = owed[d] - 1
        <4>1. CASE e = d
          BY <1>11, <3>2, <3>3, <3>4, <3>6, <4>1
        <4>2. CASE e # d
          BY <1>10, <1>11, <3>2, <3>3, <3>4, <3>6, <4>2
        <4> QED
          BY <4>1, <4>2
      <3> QED
        BY <1>10, <3>5, <3>6
    <2> QED
      BY <1>13, <1>14, <2>1, TypesMake
  <1> DEFINE LiveNow(x) == x \notin aborted' /\ left'[x] # <<>>
             DrawnNow(x) == Len(asking'[x]) - Len(left'[x])
  <1>16. /\ \A x \in Configs : LiveNow(x) => Live(x)
         /\ \A x \in Configs : x # c => DrawnNow(x) = Drawn(x)
         /\ DrawnNow(c) = Drawn(c) + 1
         /\ \A x \in Configs : Drawn(x) \in Int
    <2>1. \A x \in Configs : LiveNow(x) => Live(x)
      <3>1. TAKE x \in Configs
      <3>2. CASE x = c
        BY <1>9, <3>2 DEF Live
      <3>3. CASE x # c
        BY <1>1, <1>9, <3>3 DEF Live
      <3> QED
        BY <3>2, <3>3
    <2>2. \A x \in Configs : x # c => DrawnNow(x) = Drawn(x)
      BY <1>1, <1>9 DEF Drawn
    <2>3. \A x \in Configs : Len(asking[x]) \in Nat /\ Len(left[x]) \in Nat
      <3>1. \A x \in Configs : asking[x] \in Seq(Items) /\ left[x] \in Seq(Items)
        BY <1>8
      <3> QED
        BY <3>1
    <2>4. Len(left'[c]) = Len(left[c]) - 1
      BY <1>7, <1>9
    <2>5. DrawnNow(c) = Drawn(c) + 1
      BY <1>1, <2>3, <2>4 DEF Drawn
    <2>6. \A x \in Configs : Drawn(x) \in Int
      BY <2>3 DEF Drawn
    <2> HIDE DEF LiveNow, DrawnNow
    <2> QED
      BY <2>1, <2>2, <2>5, <2>6
  <1>17. TurnInv'
    <2>1. \A x \in Configs : left'[x] # <<>> => x \in run.configs
      <3>1. TAKE x \in Configs
      <3> QED
        BY <1>1, <1>9 DEF DriverInv, TurnInv
    <2>2. \A e \in Deployments : /\ \A j \in DOMAIN turn'[e] : Deployment[turn'[e][j]] = e
                                   /\ Once(turn'[e])
      <3>1. TAKE e \in Deployments
      <3>2. CASE e = d
        <4>1. \A j \in 1..n : Deployment[r[j]] = d
          BY <1>6, <1>11, <1>12
        <4> QED
          BY <1>6, <1>9, <3>2, <4>1
      <3>3. CASE e # d
        BY <1>1, <1>9, <3>3 DEF DriverInv, TurnInv
      <3> QED
        BY <3>2, <3>3
    <2>3. \A x \in Configs : Live(x) => Lists(turn'[Deployment[x]], x)
      <3>1. TAKE x \in Configs
      <3>2. HAVE Live(x)
      <3>3. CASE Deployment[x] = d
        BY <1>6, <1>9, <1>12, <3>2, <3>3
      <3>4. CASE Deployment[x] # d
        BY <1>1, <1>9, <3>2, <3>4, ConfigsHaveDeployments DEF DriverInv, TurnInv
      <3> QED
        BY <3>3, <3>4
    <2>4. \A x \in Configs : LiveNow(x) => Lists(turn'[Deployment[x]], x)
      BY <1>16, <2>3
    <2> QED
      BY <1>1, <2>1, <2>2, <2>4 DEF TurnInv, Once, Lists, Live
  <1>18. RoundInv'
    <2>1. SUFFICES ASSUME NEW e \in Deployments, NEW j \in DOMAIN turn'[e], NEW k \in DOMAIN turn'[e],
                          j < k, LiveNow(turn'[e][j]), LiveNow(turn'[e][k])
                   PROVE  /\ DrawnNow(turn'[e][j]) <= DrawnNow(turn'[e][k])
                          /\ DrawnNow(turn'[e][k]) <= DrawnNow(turn'[e][j]) + 1
      BY DEF RoundInv, Live, Drawn
    <2> HIDE DEF LiveNow, DrawnNow
    <2>2. CASE e = d
      <3> DEFINE a == r[j]
                 b == r[k]
      <3>1. j \in 1..n /\ k \in 1..n /\ turn'[e][j] = a /\ turn'[e][k] = b
        BY <1>6, <1>9, <2>2
      <3>2. j # n /\ j + 1 \in 1..n /\ a = live[j + 1] /\ a # c /\ a \in Configs
        BY <1>6, <1>12, <2>1, <3>1
      <3>3. DrawnNow(a) = Drawn(a) /\ Drawn(a) \in Int
        BY <1>16, <3>2
      <3>4. CASE k = n
        <4>1. b = c /\ DrawnNow(c) = Drawn(c) + 1 /\ Drawn(c) \in Int
          BY <1>6, <1>16, <3>4
        <4>2. 1 \in 1..n /\ 1 < j + 1
          BY <1>6, <3>1
        <4>3. Drawn(live[1]) <= Drawn(a) /\ Drawn(a) <= Drawn(live[1]) + 1
          BY <1>12, <3>2, <4>2
        <4> HIDE DEF a, b
        <4>4. Drawn(c) <= Drawn(a) /\ Drawn(a) <= Drawn(c) + 1
          BY <1>12, <4>3
        <4> QED
          BY <3>1, <3>3, <4>1, <4>4
      <3>5. CASE k # n
        <4>1. k + 1 \in 1..n /\ b = live[k + 1] /\ b # c /\ b \in Configs
          BY <1>6, <1>12, <3>1, <3>5
        <4>2. DrawnNow(b) = Drawn(b) /\ j + 1 < k + 1
          BY <1>16, <2>1, <3>1, <4>1
        <4>3. Drawn(a) <= Drawn(b) /\ Drawn(b) <= Drawn(a) + 1
          BY <1>12, <3>2, <4>1, <4>2
        <4> HIDE DEF a, b
        <4> QED
          BY <3>1, <3>3, <4>2, <4>3
      <3> QED
        BY <3>4, <3>5
    <2>3. CASE e # d
      <3> DEFINE a == turn[e][j]
                 b == turn[e][k]
      <3>1. turn'[e] = turn[e] /\ j \in DOMAIN turn[e] /\ k \in DOMAIN turn[e]
        BY <1>9, <2>3
      <3>2. a \in Configs /\ b \in Configs /\ Deployment[a] = e /\ Deployment[b] = e
        BY <1>1, <1>8, <3>1 DEF DriverInv, TurnInv
      <3>3. a # c /\ b # c
        BY <1>11, <2>3, <3>2
      <3>4. DrawnNow(a) = Drawn(a) /\ DrawnNow(b) = Drawn(b) /\ Live(a) /\ Live(b)
        <4>1. LiveNow(a) /\ LiveNow(b)
          BY <2>1, <3>1
        <4> QED
          BY <1>16, <3>2, <3>3, <4>1
      <3>5. Drawn(a) <= Drawn(b) /\ Drawn(b) <= Drawn(a) + 1
        BY <1>1, <2>1, <3>1, <3>4 DEF DriverInv, RoundInv
      <3> QED
        BY <3>1, <3>4, <3>5
    <2> QED
      BY <2>2, <2>3
  <1>19. BusyInv'
    <2>1. SUFFICES ASSUME NEW x \in Configs, Live(x)
                   PROVE  \/ owed'[Deployment[x]] > 0
                          \/ \E g \in calls' : Deployment[g.config] = Deployment[x]
      BY <1>16 DEF BusyInv, Live
    <2>2. CASE Deployment[x] = d
      <3>1. CASE owed' = owed
        BY <1>1, <2>2, <3>1
      <3>2. CASE calls' = calls \cup {f}
        BY <1>11, <2>2, <3>2
      <3> QED
        BY <1>10, <3>1, <3>2
    <2>3. CASE Deployment[x] # d
      <3>1. \/ owed[Deployment[x]] > 0
            \/ \E g \in calls : Deployment[g.config] = Deployment[x]
        BY <1>1, <2>1 DEF DriverInv, BusyInv
      <3>2. owed'[Deployment[x]] = owed[Deployment[x]] /\ calls \subseteq calls'
        BY <1>10, <2>3, ConfigsHaveDeployments
      <3> QED
        BY <3>1, <3>2
    <2> QED
      BY <2>2, <2>3
  <1>20. Once(left[c]) /\ \A x \in Configs : Once(left[x])
    BY <1>1 DEF DriverInv, OnceInv
  <1>21. \A x \in Configs : \A y \in Items :
           /\ Queued(x, y)' => Queued(x, y) /\ ~ (x = c /\ y = i)
           /\ Queued(x, y) => Queued(x, y)' \/ (x = c /\ y = i)
           /\ Called(x, y)' => Called(x, y) \/ (x = c /\ y = i)
           /\ Called(x, y) => Called(x, y)'
           /\ ~ Stored(x, y) /\ ~ Stored(x, y)'
    <2>1. \A x \in Configs : \A y \in Items :
            /\ Queued(x, y)' => Queued(x, y) /\ ~ (x = c /\ y = i)
            /\ Queued(x, y) => Queued(x, y)' \/ (x = c /\ y = i)
      <3>1. TAKE x \in Configs
      <3>2. TAKE y \in Items
      <3>3. CASE x = c
        BY <1>7, <1>9, <1>20, <3>3 DEF Queued
      <3>4. CASE x # c
        BY <1>9, <3>4 DEF Queued
      <3> QED
        BY <3>3, <3>4
    <2>2. \A x, y : /\ Called(x, y)' => Called(x, y) \/ (x = c /\ y = i)
                    /\ Called(x, y) => Called(x, y)'
      BY <1>10, <1>11 DEF Called
    <2>3. \A x, y : ~ Stored(x, y) /\ ~ Stored(x, y)'
      BY <1>1 DEF Stored
    <2> QED
      BY <2>1, <2>2, <2>3
  <1>22. OnceInv'
    <2>1. \A x \in Configs : Once(left'[x])
      <3>1. TAKE x \in Configs
      <3> QED
        BY <1>7, <1>9, <1>20
    <2>2. \A x \in Configs : \A y \in Items : Queued(x, y) => ~ Called(x, y)
      BY <1>1 DEF DriverInv, OnceInv
    <2> QED
      BY <1>21, <2>1, <2>2 DEF OnceInv
  <1>23. DueInv'
    BY <1>1, <1>21 DEF DriverInv, DueInv
  <1>24. CoverInv'
    <2>1. Meant \subseteq Items /\ run.configs \subseteq Configs
      BY <1>1 DEF Meant, RunOK
    <2>2. Called(c, i)' \/ Settled(c, i)
      <3>1. CASE PassedOver(c, i)
        BY <1>1, <3>1, PassedOverIsSettled
      <3>2. CASE calls' = calls \cup {f}
        BY <1>11, <3>2 DEF Called
      <3> QED
        BY <1>10, <3>1, <3>2
    <2>3. SUFFICES ASSUME run.limit >= NItems, NEW x \in run.configs \ aborted, NEW y \in Meant
                   PROVE  \/ Settled(x, y) \/ <<x, y>> \in failed
                          \/ Queued(x, y)' \/ Called(x, y)' \/ Stored(x, y)'
      BY <1>1, Zenon DEF CoverInv
    <2>4. \/ Settled(x, y) \/ <<x, y>> \in failed
          \/ Queued(x, y) \/ Called(x, y) \/ Stored(x, y)
      BY <1>1, <2>3 DEF DriverInv, CoverInv
    <2>5. x \in Configs /\ y \in Items
      BY <2>1, <2>3
    <2> QED
      BY <1>21, <2>2, <2>4, <2>5
  <1>25. StoringInv' /\ NothingIsDropped'
    BY <1>1 DEF StoringInv, NothingIsDropped
  <1>26. CallsInv'
    <2>1. \A g \in calls' : g \in calls \/ g = f
      BY <1>10
    <2> QED
      BY <1>1, <1>9, <1>11, <2>1 DEF DriverInv, CallsInv
  <1> QED
    BY <1>14, <1>15, <1>17, <1>18, <1>19, <1>22, <1>23, <1>24, <1>25, <1>26 DEF DriverInv

LEMMA DrawKeeps ==
  ASSUME DriverInv, NEW d \in Deployments, Draw(d)
  PROVE  DriverInv'
  BY DrawNoneKeeps, DrawOneKeeps

\* A run begins with nothing under way, knowing the texts and what the user had
\* claimed.
LEMMA BeginMeans ==
  ASSUME DriverInv, NEW r \in Requests, BeginRun(r)
  PROVE  /\ r.kind \in Kinds /\ r.configs \in (SUBSET Configs) \ {{}} /\ r.fresh \in BOOLEAN
         /\ r.redo \in BOOLEAN /\ r.limit \in Nat /\ IsFiniteSet(r.configs)
         /\ (r.kind # "score" => \E c \in Configs : r.configs = {c})
         /\ phase' = "running" /\ runs' \in 0..MaxRuns /\ LogOf(r.kind) = which
         /\ which' = which /\ log' = log /\ latest' = latest /\ hand' = hand /\ version' = version
         /\ calls' = {} /\ batch' = {} /\ raised' = {} /\ storing' = Nothing
         /\ aborted' = {} /\ failed' = {} /\ consecutive' = [c \in Configs |-> 0]
         /\ run' = [kind |-> r.kind, configs |-> r.configs, fresh |-> r.fresh, redo |-> r.redo,
                    limit |-> r.limit, asked |-> version, hand |-> hand]
         /\ asking' = [c \in Configs |-> IF c \in r.configs THEN Asked(r, c) ELSE <<>>]
         /\ left' = asking'
         /\ turn' = [d \in Deployments |-> Enlisted({c \in r.configs : Deployment[c] = d})]
         /\ owed' = Owing(r) /\ RunOK(run)' /\ BasicTypes
  <1>1. /\ r \in RunsOf(Kinds)
        /\ r.kind # "score" => Cardinality(r.configs) = 1
        /\ IsFiniteSet(Configs) /\ MaxRuns \in Nat
    BY DriverAssumption DEF DriverAssumption
  <1>2. /\ r.kind \in Kinds /\ r.configs \in (SUBSET Configs) \ {{}} /\ r.fresh \in BOOLEAN
        /\ r.redo \in BOOLEAN /\ r.limit \in Nat
    BY <1>1 DEF RunsOf
  <1>3. IsFiniteSet(r.configs)
    <2>1. IsFiniteSet(Configs) /\ r.configs \in SUBSET Configs
      BY <1>1, <1>2
    <2> QED
      BY <2>1, FS_Subset
  <1>4. r.kind # "score" => \E c \in Configs : r.configs = {c}
    <2>1. HAVE r.kind # "score"
    <2>2. Cardinality(r.configs) = 1
      BY <1>1, <2>1
    <2>3. PICK c : r.configs = {c}
      BY <1>3, <2>2, FS_Singleton
    <2> QED
      BY <1>2, <2>3
  <1>5. BasicTypes /\ Idle
    <2>1. phase # "running"
      BY DEF BeginRun
    <2> QED
      BY <2>1, TypesAre DEF DriverInv, DriverTypes
  <1>6. /\ phase' = "running" /\ runs < MaxRuns /\ runs' = runs + 1 /\ LogOf(r.kind) = which
        /\ which' = which /\ log' = log /\ latest' = latest /\ hand' = hand /\ version' = version
        /\ calls' = calls /\ batch' = batch /\ raised' = raised /\ storing' = storing
        /\ aborted' = {} /\ failed' = {} /\ consecutive' = [c \in Configs |-> 0]
        /\ run' = [kind |-> r.kind, configs |-> r.configs, fresh |-> r.fresh, redo |-> r.redo,
                   limit |-> r.limit, asked |-> version, hand |-> hand]
        /\ asking' = [c \in Configs |-> IF c \in r.configs THEN Asked(r, c) ELSE <<>>]
        /\ left' = asking'
        /\ turn' = [d \in Deployments |-> Enlisted({c \in r.configs : Deployment[c] = d})]
        /\ owed' = Owing(r)
    BY DEF BeginRun, stored, pool
  <1>7. calls' = {} /\ batch' = {} /\ raised' = {} /\ storing' = Nothing
    BY <1>5, <1>6 DEF Idle
  <1>8. runs' \in 0..MaxRuns
    <2>1. runs \in 0..MaxRuns
      BY <1>5 DEF BasicTypes
    <2> QED
      BY <1>1, <1>6, <2>1
  <1>9. RunOK(run)'
    <2> DEFINE q == [kind |-> r.kind, configs |-> r.configs, fresh |-> r.fresh, redo |-> r.redo,
                     limit |-> r.limit, asked |-> version, hand |-> hand]
    <2>1. version \in [Items -> 1..Edits + 1] /\ hand \in SUBSET Items
      BY <1>5 DEF BasicTypes
    <2>2. q \in [kind : Kinds, configs : (SUBSET Configs) \ {{}}, fresh : BOOLEAN, redo : BOOLEAN,
                 limit : Nat, asked : [Items -> 1..Edits + 1], hand : SUBSET Items]
      BY <1>2, <2>1
    <2>3. q.kind = r.kind /\ q.configs = r.configs
      OBVIOUS
    <2> HIDE DEF q
    <2>4. run' = q
      BY <1>6 DEF q
    <2> QED
      BY <1>4, <1>6, <2>2, <2>3, <2>4 DEF RunOK
  <1> QED
    BY <1>2, <1>3, <1>4, <1>5, <1>6, <1>7, <1>8, <1>9

\* What a run selects is unsettled, unless it asks afresh or looks as it goes,
\* and what it was meant to answer and does not select is settled.
LEMMA SelectionIsDue ==
  ASSUME DriverInv, NEW r \in Requests, BeginRun(r),
         NEW c \in r.configs, NEW i \in Items
  PROVE  /\ ~ r.fresh /\ r.kind # "replay" /\ i \in Selection(r, c) => ~ Settled(c, i)'
         /\ i \in Meant' /\ i \notin Selection(r, c) => Settled(c, i)'
  <1>1. /\ which' = which /\ log' = log /\ latest' = latest
        /\ LogOf(r.kind) = which /\ r.kind \in Kinds
        /\ run'.kind = r.kind /\ run'.hand = hand /\ run'.asked = version /\ run'.redo = r.redo
    BY BeginMeans
  <1>2. r.kind \in {"match", "classify", "score", "replay"}
    BY <1>1 DEF Kinds
  <1> DEFINE all == \A p \in PartsOf : Record(c, i, p, version[i], FALSE) \in log
  <1>3. PartsOf' = PartsOf
    BY <1>1 DEF PartsOf
  <1>4. r.kind \in {"match", "score"} => (Settled(c, i)' <=> all)
    BY <1>1, <1>3 DEF Settled, AnsweredBy, Record
  <1>5. r.kind = "classify" =>
          (Settled(c, i)' <=>
             i \in hand \/ (latest[i] # Nothing /\ (r.redo => latest[i] = <<c, version[i]>>)))
    BY <1>1 DEF Settled, AnsweredBy
  <1>6. r.kind = "score" => (i \in Meant' <=> i \in hand)
    BY <1>1 DEF Meant
  <1>7. CASE r.kind = "match"
    <2>1. i \in Outstanding(c) <=> ~ all
      BY DEF Outstanding, Recorded
    <2>2. i \in Selection(r, c) <=> r.fresh \/ i \in Outstanding(c)
      BY <1>7 DEF Selection
    <2> HIDE DEF all
    <2> QED
      BY <1>4, <1>7, <2>1, <2>2
  <1>8. CASE r.kind = "score"
    <2>1. which # "matches"
      BY <1>1, <1>8 DEF LogOf
    <2>2. PICK p \in Parts : PartsOf = {p}
      BY <2>1, PartsAreOne
    <2>3. i \in hand => (i \in Unread(c) <=> ~ all)
      BY <2>2 DEF Unread, Recorded
    <2>4. i \in Selection(r, c) <=> i \in hand /\ (r.fresh \/ i \in Unread(c))
      BY <1>8 DEF Selection
    <2> HIDE DEF all
    <2> QED
      BY <1>4, <1>6, <1>8, <2>3, <2>4
  <1>9. CASE r.kind = "replay"
    BY <1>9 DEF Selection
  <1>10. CASE r.kind = "classify"
    <2>1. i \in Selection(r, c) <=>
            \/ i \in Unclaimed
            \/ r.redo /\ r.fresh /\ i \notin hand /\ latest[i] # Nothing
            \/ r.redo /\ ~ r.fresh /\ i \in Stale(c)
      BY <1>10 DEF Selection
    <2>2. /\ i \in Unclaimed <=> i \notin hand /\ latest[i] = Nothing
          /\ i \in Stale(c) <=> i \notin hand /\ latest[i] # Nothing /\ latest[i] # <<c, version[i]>>
      BY DEF Unclaimed, Stale
    <2> QED
      BY <1>5, <1>10, <2>1, <2>2
  <1> QED
    BY <1>2, <1>7, <1>8, <1>9, <1>10

LEMMA BeginKeeps ==
  ASSUME DriverInv, NEW r \in Requests, BeginRun(r)
  PROVE  DriverInv'
  <1> DEFINE Asking(d) == {c \in r.configs : Deployment[c] = d}
  <1>1. /\ r.kind \in Kinds /\ r.configs \in (SUBSET Configs) \ {{}} /\ r.limit \in Nat
        /\ IsFiniteSet(r.configs)
        /\ phase' = "running" /\ runs' \in 0..MaxRuns
        /\ which' = which /\ log' = log /\ latest' = latest /\ hand' = hand /\ version' = version
        /\ calls' = {} /\ batch' = {} /\ raised' = {} /\ storing' = Nothing
        /\ aborted' = {} /\ failed' = {} /\ consecutive' = [c \in Configs |-> 0]
        /\ run'.kind = r.kind /\ run'.configs = r.configs /\ run'.fresh = r.fresh
        /\ run'.limit = r.limit /\ run'.hand = hand
        /\ asking' = [c \in Configs |-> IF c \in r.configs THEN Asked(r, c) ELSE <<>>]
        /\ left' = asking' /\ turn' = [d \in Deployments |-> Enlisted(Asking(d))]
        /\ owed' = Owing(r) /\ RunOK(run)' /\ BasicTypes /\ hand \subseteq Items
    BY BeginMeans DEF BasicTypes
  <1>2. Concurrency \in Nat \ {0} /\ NItems \in Nat
    BY DriverAssumption DEF DriverAssumption
  <1>3. \A c \in Configs : /\ left'[c] \in Seq(Items) /\ Once(left'[c])
                           /\ asking'[c] \in Seq(Items) /\ left'[c] = asking'[c]
                           /\ \A i : Lists(left'[c], i) => c \in r.configs /\ i \in Selection(r, c)
                           /\ left'[c] # <<>> => c \in r.configs
                           /\ r.limit >= NItems /\ c \in r.configs =>
                                \A i \in Selection(r, c) : Lists(left'[c], i)
    <2>1. SUFFICES ASSUME NEW c \in Configs
                   PROVE  /\ left'[c] \in Seq(Items) /\ Once(left'[c])
                          /\ asking'[c] \in Seq(Items) /\ left'[c] = asking'[c]
                          /\ \A i : Lists(left'[c], i) => c \in r.configs /\ i \in Selection(r, c)
                          /\ left'[c] # <<>> => c \in r.configs
                          /\ r.limit >= NItems /\ c \in r.configs =>
                               \A i \in Selection(r, c) : Lists(left'[c], i)
      OBVIOUS
    <2>2. CASE c \in r.configs
      <3>1. left'[c] = Asked(r, c) /\ asking'[c] = Asked(r, c)
        BY <1>1, <2>2
      <3>2. /\ Asked(r, c) \in Seq(Items) /\ Once(Asked(r, c))
            /\ \A i : Lists(Asked(r, c), i) => i \in Selection(r, c)
            /\ r.limit >= NItems => \A i \in Selection(r, c) : Lists(Asked(r, c), i)
        BY <1>1, AskedIsSelected
      <3> QED
        BY <2>2, <3>1, <3>2
    <2>3. CASE c \notin r.configs
      <3>1. left'[c] = <<>> /\ asking'[c] = <<>>
        BY <1>1, <2>3
      <3>2. <<>> \in Seq(Items) /\ Once(<<>>) /\ \A i : ~ Lists(<<>>, i)
        BY DEF Once, Lists
      <3> QED
        BY <2>3, <3>1, <3>2
    <2> QED
      BY <2>2, <2>3
  <1>4. \A d \in Deployments :
          /\ turn'[d] \in Seq(Configs) /\ Once(turn'[d])
          /\ \A c : Lists(turn'[d], c) <=> c \in r.configs /\ Deployment[c] = d
          /\ \A j \in DOMAIN turn'[d] : Deployment[turn'[d][j]] = d
    <2>1. TAKE d \in Deployments
    <2>2. turn'[d] = Enlisted(Asking(d)) /\ Asking(d) \in SUBSET r.configs /\ Asking(d) \subseteq Configs
      BY <1>1
    <2>3. \A c : c \in Asking(d) <=> c \in r.configs /\ Deployment[c] = d
      OBVIOUS
    <2> HIDE DEF Asking
    <2>4. IsFiniteSet(Asking(d))
      BY <1>1, <2>2, FS_Subset
    <2>5. /\ Enlisted(Asking(d)) \in Seq(Asking(d)) /\ Once(Enlisted(Asking(d)))
          /\ \A c : Lists(Enlisted(Asking(d)), c) <=> c \in Asking(d)
      BY <2>4, EnlistedListsAll
    <2>6. Enlisted(Asking(d)) \in Seq(Configs)
      BY <2>2, <2>5
    <2>7. \A j \in DOMAIN Enlisted(Asking(d)) : Enlisted(Asking(d))[j] \in Asking(d)
      BY <2>5 DEF Lists
    <2> QED
      BY <2>2, <2>3, <2>5, <2>6, <2>7
  <1>5. owed' \in [Deployments -> Nat]
        /\ \A d \in Deployments : owed'[d] > 0 /\ owed'[d] <= Concurrency
    <2>1. \/ owed' = [d \in Deployments |-> 1]
          \/ owed' = [d \in Deployments |-> Concurrency]
      BY <1>1 DEF Owing, Budgets
    <2> QED
      BY <1>2, <2>1
  <1> HIDE DEF Asking
  <1>6. BasicTypes'
    BY <1>1 DEF BasicTypes
  <1>7. DriverTypes'
    <2>1. /\ asking' \in [Configs -> Seq(Items)] /\ left' \in [Configs -> Seq(Items)]
      BY <1>1, <1>3
    <2>2. turn' \in [Deployments -> Seq(Configs)] /\ consecutive' \in [Configs -> Nat]
      BY <1>1, <1>4
    <2>3. IsFiniteSet(calls')
      BY <1>1, FS_EmptySet
    <2> QED
      BY <1>1, <1>5, <2>1, <2>2, <2>3 DEF DriverTypes
  <1>8. DriverTypeOK'
    <2>1. Budget(calls', owed', storing')
      <3>1. \A d \in Deployments : InFlight(calls', d) = 0 /\ owed'[d] \in Nat
        BY <1>1, <1>5, InFlightCounts, FS_EmptySet
      <3> QED
        BY <1>1, <1>5, <3>1 DEF Budget
    <2> QED
      BY <1>6, <1>7, <2>1, TypesMake
  <1>9. TurnInv'
    <2>1. \A c \in Configs : left'[c] # <<>> => Lists(turn'[Deployment[c]], c)
      BY <1>3, <1>4, ConfigsHaveDeployments
    <2> QED
      BY <1>1, <1>3, <1>4, <2>1 DEF TurnInv, Live
  <1>10. RoundInv'
    <2> DEFINE DrawnNow(x) == Len(asking'[x]) - Len(left'[x])
    <2>1. \A c \in Configs : DrawnNow(c) = 0
      <3>1. TAKE c \in Configs
      <3>2. left'[c] = asking'[c] /\ Len(asking'[c]) \in Nat
        BY <1>3
      <3> QED
        BY <3>2
    <2>2. \A d \in Deployments : \A j \in DOMAIN turn'[d] : turn'[d][j] \in Configs
      BY <1>4
    <2>3. \A d \in Deployments : \A j, k \in DOMAIN turn'[d] :
            DrawnNow(turn'[d][j]) <= DrawnNow(turn'[d][k])
            /\ DrawnNow(turn'[d][k]) <= DrawnNow(turn'[d][j]) + 1
      <3> HIDE DEF DrawnNow
      <3> QED
        BY <2>1, <2>2
    <2> QED
      BY <2>3 DEF RoundInv, Drawn
  <1>11. BusyInv'
    BY <1>5, ConfigsHaveDeployments DEF BusyInv
  <1>12. OnceInv'
    BY <1>1, <1>3 DEF OnceInv, Called, Stored
  <1>13. DueInv'
    <2>1. SUFFICES ASSUME ~ r.fresh, r.kind # "replay", NEW c \in Configs, NEW i \in Items,
                          Queued(c, i)'
                   PROVE  ~ Settled(c, i)'
      BY <1>1 DEF DueInv
    <2>2. c \in r.configs /\ i \in Selection(r, c)
      BY <1>3, <2>1 DEF Queued
    <2> QED
      BY <2>1, <2>2, SelectionIsDue
  <1>14. CoverInv'
    <2>1. SUFFICES ASSUME r.limit >= NItems, NEW c \in r.configs, NEW i \in Meant'
                   PROVE  Settled(c, i)' \/ Queued(c, i)'
      BY <1>1 DEF CoverInv
    <2>2. c \in Configs /\ i \in Items
      <3>1. Meant' \subseteq Items
        BY <1>1 DEF Meant
      <3> QED
        BY <1>1, <3>1
    <2>3. CASE i \in Selection(r, c)
      BY <1>3, <2>1, <2>2, <2>3 DEF Queued
    <2>4. CASE i \notin Selection(r, c)
      BY <2>2, <2>4, SelectionIsDue
    <2> QED
      BY <2>3, <2>4
  <1>15. StoringInv' /\ CallsInv' /\ NothingIsDropped'
    BY <1>1 DEF StoringInv, CallsInv, NothingIsDropped
  <1> QED
    BY <1>7, <1>8, <1>9, <1>10, <1>11, <1>12, <1>13, <1>14, <1>15 DEF DriverInv

LEMMA DriverStarts ==
  ASSUME DriverInit
  PROVE  DriverInv
  <1>1. /\ which \in Logs /\ log = {} /\ latest = [i \in Items |-> Nothing]
        /\ hand = {} /\ version = [i \in Items |-> 1]
        /\ phase = "none" /\ runs = 0
        /\ asking = Empty /\ left = Empty
        /\ turn = [d \in Deployments |-> <<>>] /\ owed = [d \in Deployments |-> 0]
        /\ calls = {} /\ batch = {} /\ raised = {} /\ storing = Nothing
        /\ consecutive = [c \in Configs |-> 0] /\ aborted = {} /\ failed = {}
    BY DEF DriverInit, Idle
  <1>2. Edits \in Nat /\ MaxRuns \in Nat /\ Concurrency \in Nat
    BY DriverAssumption DEF DriverAssumption
  <1>3. DriverTypes
    <2>1. Empty \in [Configs -> Seq(Items)] /\ turn \in [Deployments -> Seq(Configs)]
      BY <1>1 DEF Empty
    <2>2. IsFiniteSet(calls) /\ Idle
      BY <1>1, FS_EmptySet DEF Idle
    <2> QED
      BY <1>1, <2>1, <2>2 DEF DriverTypes
  <1>4. DriverTypeOK
    <2>1. /\ latest \in [Items -> {Nothing} \cup (Configs \X (1..Edits + 1))]
          /\ version \in [Items -> 1..Edits + 1] /\ runs \in 0..MaxRuns
      BY <1>1, <1>2
    <2>2. \A d \in Deployments :
            /\ turn[d] \in Seq(Configs) /\ owed[d] \in 0..Concurrency
            /\ Cardinality({f \in calls : Deployment[f.config] = d}) + owed[d]
                 + (IF storing # Nothing /\ Deployment[storing.config] = d THEN 1 ELSE 0) <= Concurrency
      <3>1. TAKE d \in Deployments
      <3>2. {f \in calls : Deployment[f.config] = d} = {}
        BY <1>1
      <3>3. Cardinality({f \in calls : Deployment[f.config] = d}) = 0
        BY <3>2, FS_EmptySet
      <3> QED
        BY <1>1, <1>2, <3>3
    <2>3. \A c \in Configs : asking[c] \in Seq(Items) /\ left[c] \in Seq(Items)
      BY <1>1 DEF Empty
    <2> QED
      BY <1>1, <2>1, <2>2, <2>3 DEF DriverTypeOK
  <1>5. TurnInv /\ RoundInv /\ BusyInv /\ OnceInv /\ DueInv /\ CoverInv
    BY <1>1 DEF TurnInv, RoundInv, BusyInv, OnceInv, DueInv, CoverInv
  <1>6. StoringInv /\ CallsInv /\ NothingIsDropped
    BY <1>1 DEF StoringInv, CallsInv, NothingIsDropped
  <1> QED
    BY <1>3, <1>4, <1>5, <1>6 DEF DriverInv

LEMMA DriverStep ==
  ASSUME DriverInv, [DriverNext]_driverVars
  PROVE  DriverInv'
  <1>1. CASE \E r \in Requests : BeginRun(r)
    BY <1>1, BeginKeeps
  <1>2. CASE (\E i \in Editable : Edit(i)) \/ (\E S \in Passes : Claim(S))
    BY <1>2, WorldMovesKeep
  <1>3. CASE \E d \in Deployments : Draw(d)
    BY <1>3, DrawKeeps
  <1>4. CASE \E S \in SUBSET calls : \E R \in SUBSET S : Wake(S, R)
    BY <1>4, WorldMovesKeep
  <1>5. CASE \E f \in batch : FoldFailure(f) \/ FoldAnswer(f)
    BY <1>5, FoldFailureKeeps, FoldAnswerKeeps
  <1>6. CASE \E p \in Parts : \E later \in BOOLEAN : StorePart(p, later)
    BY <1>6, StorePartKeeps
  <1>7. CASE Finish \/ StopRun
    BY <1>7, FinishKeeps, StopKeeps
  <1>8. CASE UNCHANGED driverVars
    <2>1. /\ UNCHANGED <<which, log, latest, run, phase, asking, left, turn, owed, calls, storing,
                         consecutive, aborted, failed>>
          /\ batch' = batch /\ raised' = raised /\ hand' = hand /\ version' = version
          /\ runs' = runs
      BY <1>8 DEF driverVars, stored, plans, pool, folded
    <2>2. BasicTypes
      BY TypesAre DEF DriverInv
    <2>3. BasicTypes'
      BY <2>1, <2>2 DEF BasicTypes
    <2> QED
      BY <2>1, <2>3, OnlyTheWorldMoves
  <1> QED
    BY <1>1, <1>2, <1>3, <1>4, <1>5, <1>6, <1>7, <1>8 DEF DriverNext, Consume

\* Whatever runs read and write one log (match_corpus, classify_backlog,
\* score_backlog, read_corpus and replay), however their calls answer and
\* wherever one is stopped, what a run reads, asks, has in flight and has stored
\* stay in step.
THEOREM RunsKeepTheirQuestions == DriverSpec => []DriverInv
  <1>1. DriverInit => DriverInv
    BY DriverStarts
  <1>2. DriverInv /\ [DriverNext]_driverVars => DriverInv'
    BY DriverStep
  <1> QED
    BY <1>1, <1>2, PTL DEF DriverSpec

\* Every variable of the loop keeps its type, and no deployment ever has more
\* calls in flight than its budget, with the next it may draw and the answer it
\* is storing counted, however many plans share it (as_answered_grouped).
THEOREM DriverTypeCorrect == DriverSpec => []DriverTypeOK
  <1>1. DriverInv => DriverTypeOK
    BY DEF DriverInv
  <1> QED
    BY <1>1, RunsKeepTheirQuestions, PTL

\* A run that ends by itself leaves no question out: each one of a plan that did
\* not give up carries the records of an answer to the text the run read, a
\* replay of the loop that of its last round, or is reported as failed (what
\* match_corpus, classify_backlog, score_backlog and replay select, and what
\* as_answered_grouped yields of it).
THEOREM NoQuestionIsDropped == DriverSpec => []NothingIsDropped
  <1>1. DriverInv => NothingIsDropped
    BY DEF DriverInv
  <1> QED
    BY <1>1, RunsKeepTheirQuestions, PTL

\* Plans that share a deployment are never two questions apart while both have
\* something left (the round robin of queued).
THEOREM PlansShareEvenly == DriverSpec => []NoneWaits
  <1>1. DriverInv => NoneWaits
    <2>1. SUFFICES ASSUME DriverInv, NEW c \in Configs, NEW d \in Configs, phase = "running",
                          Live(c), Live(d), Deployment[c] = Deployment[d]
                   PROVE  Drawn(c) - Drawn(d) <= 1
      BY DEF NoneWaits
    <2> DEFINE e == Deployment[c]
    <2>2. e \in Deployments
      BY ConfigsHaveDeployments
    <2>3. PICK j \in DOMAIN turn[e] : turn[e][j] = c
      BY <2>1 DEF DriverInv, TurnInv, Lists
    <2>4. PICK k \in DOMAIN turn[e] : turn[e][k] = d
      BY <2>1 DEF DriverInv, TurnInv, Lists
    <2>5. Drawn(c) \in Int /\ Drawn(d) \in Int
      <3>1. /\ asking[c] \in Seq(Items) /\ left[c] \in Seq(Items)
            /\ asking[d] \in Seq(Items) /\ left[d] \in Seq(Items)
        BY <2>1 DEF DriverInv, DriverTypes
      <3>2. /\ Len(asking[c]) \in Nat /\ Len(left[c]) \in Nat
            /\ Len(asking[d]) \in Nat /\ Len(left[d]) \in Nat
        BY <3>1
      <3> QED
        BY <3>2 DEF Drawn
    <2>6. j \in Nat /\ k \in Nat
      <3>1. turn[e] \in Seq(Configs)
        BY <2>1, <2>2 DEF DriverInv, DriverTypes
      <3> QED
        BY <3>1
    <2> HIDE DEF e
    <2>7. CASE j = k
      BY <2>3, <2>4, <2>5, <2>7
    <2>8. CASE j < k
      <3>1. Drawn(c) <= Drawn(d)
        BY <2>1, <2>2, <2>3, <2>4, <2>8 DEF DriverInv, RoundInv
      <3> QED
        BY <2>5, <3>1
    <2>9. CASE k < j
      <3>1. Drawn(c) <= Drawn(d) + 1
        BY <2>1, <2>2, <2>3, <2>4, <2>9 DEF DriverInv, RoundInv
      <3> QED
        BY <2>5, <3>1
    <2> QED
      BY <2>6, <2>7, <2>8, <2>9
  <1> QED
    BY <1>1, RunsKeepTheirQuestions, PTL

\* A call is paid for only where something is owed: the plan has not given up,
\* and the question is unsettled unless the run asks afresh (the plans queued
\* drops, what each run selects, and the look a replay takes at each site).  The
\* one kind of question the code pays for again is a site of the loop that a
\* later round's record alone answers, which asked_already does not find.
THEOREM CallsAreAlwaysDue ==
  DriverSpec => CallsAreDue
  <1> DEFINE Due(f) == /\ f.config \notin aborted
                       /\ \/ run.fresh \/ ~ Settled(f.config, f.item)
                          \/ Unfindable(f.config, f.item)
  <1>1. ASSUME DriverInv, [DriverNext]_driverVars, phase = "running", NEW f \in calls' \ calls
        PROVE  Due(f)
    <2>1. PICK d \in Deployments : Draw(d)
      <3>1. CASE \E r \in Requests : BeginRun(r)
        BY <1>1, <3>1 DEF BeginRun
      <3>2. CASE (\E i \in Editable : Edit(i)) \/ (\E S \in Passes : Claim(S))
        BY <1>1, <3>2 DEF Edit, Claim, pool
      <3>3. CASE \E d \in Deployments : Draw(d)
        BY <3>3
      <3>4. CASE \E S \in SUBSET calls : \E R \in SUBSET S : Wake(S, R)
        BY <1>1, <3>4 DEF Wake
      <3>5. CASE \E g \in batch : FoldFailure(g) \/ FoldAnswer(g)
        BY <1>1, <3>5 DEF FoldFailure, FoldAnswer, Folded, LetGo
      <3>6. CASE \E p \in Parts : \E later \in BOOLEAN : StorePart(p, later)
        BY <1>1, <3>6 DEF StorePart, pool
      <3>7. CASE Finish \/ StopRun
        BY <1>1, <3>7 DEF Finish, StopRun, LetGo
      <3>8. CASE UNCHANGED driverVars
        BY <1>1, <3>8 DEF driverVars, pool
      <3> QED
        BY <1>1, <3>1, <3>2, <3>3, <3>4, <3>5, <3>6, <3>7, <3>8 DEF DriverNext, Consume
    <2>2. LivingOf(turn[d]) # <<>>
      BY <1>1, <2>1 DEF Draw
    <2>3. \E c \in Configs : \E i \in Items :
            /\ left[c] \in Seq(Items) /\ left[c] # <<>> /\ i = Head(left[c]) /\ c \notin aborted
            /\ ~ PassedOver(c, i) /\ f = [config |-> c, item |-> i]
      BY <1>1, <2>1, <2>2, DrawMoves
    <2>4. PICK c \in Configs : \E i \in Items :
            /\ left[c] \in Seq(Items) /\ left[c] # <<>> /\ i = Head(left[c]) /\ c \notin aborted
            /\ ~ PassedOver(c, i) /\ f = [config |-> c, item |-> i]
      BY <2>3
    <2>5. PICK i \in Items :
            /\ left[c] \in Seq(Items) /\ left[c] # <<>> /\ i = Head(left[c]) /\ c \notin aborted
            /\ ~ PassedOver(c, i) /\ f = [config |-> c, item |-> i]
      BY <2>4
    <2>6. f.config = c /\ f.item = i /\ Queued(c, i)
      BY <2>5, TailLists DEF Queued
    <2>7. run.fresh \/ ~ Settled(c, i) \/ Unfindable(c, i)
      <3>1. CASE run.kind # "replay"
        BY <1>1, <2>6, <3>1 DEF DriverInv, DueInv
      <3>2. CASE run.kind = "replay"
        <4>1. i \notin Unasked /\ (run.fresh \/ Recorded(c, i, run.asked[i]) = {})
          BY <2>5, <3>2 DEF PassedOver, AskedAlready
        <4>2. PartsOf # {}
          BY PartsAreOne
        <4>3. run.fresh \/ ~ AnsweredBy(c, i, FALSE)
          BY <4>1, <4>2 DEF AnsweredBy, Recorded
        <4>4. AnsweredBy(c, i, TRUE) => i \in Looped
          <5>1. log \subseteq Records
            BY <1>1 DEF DriverInv, DriverTypeOK
          <5>2. \A q : Record(c, i, q, run.asked[i], TRUE) \in log => i \in Looped
            BY <5>1 DEF Record, Records
          <5> QED
            BY <4>2, <5>2 DEF AnsweredBy
        <4> QED
          BY <3>2, <4>1, <4>3, <4>4 DEF Settled, Unfindable
      <3> QED
        BY <3>1, <3>2
    <2> QED
      BY <2>5, <2>6, <2>7
  <1>2. DriverInv /\ [DriverNext]_driverVars =>
          [phase = "running" =>
             \A f \in calls' \ calls :
               /\ f.config \notin aborted
               /\ \/ run.fresh \/ ~ Settled(f.config, f.item)
                  \/ Unfindable(f.config, f.item)]_driverVars
    BY <1>1
  <1> QED
    BY <1>2, RunsKeepTheirQuestions, PTL DEF DriverSpec, CallsAreDue
=============================================================================
