--------------------------- MODULE AccountsProofs ---------------------------
(***************************************************************************)
(* Theorems about Accounts, for every number of browsers, accounts, emails *)
(* and users, every cap and every number of runs.                          *)
(***************************************************************************)
EXTENDS Accounts, SequenceTheorems, WellFoundedInduction, TLAPS

Identity == [account : Accounts, user : Users, email : Emails]
CardRun == [user : Users, card : Cards, raced : BOOLEAN]

\* What a request carries at each of its steps.
Looked == [step : {"looked"}, account : Accounts, email : Emails, linked : BOOLEAN,
           user : Users \union {None}, raced : BOOLEAN]
Starting == [step : {"starting"}, user : Users, card : Cards, raced : BOOLEAN]
Recalling == [step : {"recalling"}, user : Users, raced : BOOLEAN]

Carries(me) ==
    /\ me.step = "invited" => me.account \in Accounts /\ me.email \in Emails
    /\ me.step = "looked" => me \in Looked
    /\ me.step = "signed" => me.user \in Users \union {None}
    /\ me.step = "starting" => me \in Starting
    /\ me.step = "recalling" => me \in Recalling

TypeInv ==
    /\ users \subseteq Users
    /\ identities \in Seq(Identity)
    /\ sessions \in [Requests -> Users \union {None}]
    /\ cardRuns \in Seq(CardRun)
    /\ recalls \in [Users -> Nat]
    /\ request = [r \in Requests |-> request[r]]
    /\ \A r \in Requests : Carries(request[r])

\* What a request found out that no other has written over since: the user who
\* holds its email, that a card is not started, that the minute has room.
LookedStands(r) ==
    Step(r) = "looked" /\ ~ request[r].linked /\ ~ request[r].raced =>
        request[r].email \in disputed
          \/ \A n \in DOMAIN identities :
               identities[n].email = request[r].email => identities[n].user = request[r].user

StartStands(r) ==
    Step(r) = "starting" /\ ~ request[r].raced => Started(request[r].user, request[r].card) = {}

RecallStands(r) ==
    Step(r) = "recalling" /\ ~ request[r].raced => recalls[request[r].user] < Cap

\* The inductive invariant: a check that nobody raced still stands.
IInv ==
    /\ TypeInv
    /\ FailsOnlyInARace
    /\ \A r \in Requests : LookedStands(r) /\ StartStands(r) /\ RecallStands(r)

-----------------------------------------------------------------------------
\* The first of a set of positions is one of them.
LEMMA FirstIn ==
    ASSUME NEW S \in SUBSET Nat, S # {}
    PROVE  First(S) \in S
  <1>1. \E x \in S : \A y \in S : ~ (<<y, x>> \in OpToRel(<, Nat))
    BY NatLessThanWellFounded, WFMin
  <1>2. PICK x \in S : \A y \in S : ~ (<<y, x>> \in OpToRel(<, Nat))
    BY <1>1
  <1>3. \A y \in S : x <= y
    <2> TAKE y \in S
    <2>1. x \in Nat /\ y \in Nat
      OBVIOUS
    <2>2. ~ (y < x)
      BY <1>2, <2>1 DEF OpToRel
    <2> QED
      BY <2>1, <2>2
  <1> QED
    BY <1>2, <1>3 DEF First

\* Another request only has its race marked.
LEMMA MarkedIsTyped ==
    ASSUME NEW me, Carries(me), me.step \in {"looked", "starting", "recalling"}
    PROVE  LET marked == [me EXCEPT !.raced = TRUE]
           IN  /\ Carries(marked) /\ marked.step = me.step /\ marked.raced = TRUE
               /\ marked.user = me.user
  <1> DEFINE marked == [me EXCEPT !.raced = TRUE]
  <1>1. CASE me.step = "looked"
    <2>1. me \in Looked
      BY <1>1 DEF Carries
    <2>2. marked \in Looked /\ marked.raced = TRUE /\ marked.user = me.user
      BY <2>1 DEF Looked
    <2> QED
      BY <1>1, <2>2 DEF Carries, Looked
  <1>2. CASE me.step = "starting"
    <2>1. me \in Starting
      BY <1>2 DEF Carries
    <2>2. marked \in Starting /\ marked.raced = TRUE /\ marked.user = me.user
      BY <2>1 DEF Starting
    <2> QED
      BY <1>2, <2>2 DEF Carries, Starting
  <1>3. CASE me.step = "recalling"
    <2>1. me \in Recalling
      BY <1>3 DEF Carries
    <2>2. marked \in Recalling /\ marked.raced = TRUE /\ marked.user = me.user
      BY <2>1 DEF Recalling
    <2> QED
      BY <1>3, <2>2 DEF Carries, Recalling
  <1> QED
    BY <1>1, <1>2, <1>3

\* One request moves and the others stay.
LEMMA OneMoves ==
    ASSUME TypeInv, NEW r \in Requests, NEW me, Carries(me), Goto(r, me)
    PROVE  /\ request' = [q \in Requests |-> request'[q]]
           /\ request'[r] = me
           /\ \A q \in Requests \ {r} : request'[q] = request[q]
           /\ \A q \in Requests : Carries(request'[q])
  BY DEF TypeInv, Goto

\* A request that writes nothing the checks read, and leaves with one that
\* stands, disturbs no other.
LEMMA Quiet ==
    ASSUME IInv, NEW r \in Requests, NEW me, Carries(me), Goto(r, me),
           UNCHANGED <<identities, cardRuns, recalls, overran, disputed>>,
           users' \subseteq Users, sessions' \in [Requests -> Users \union {None}],
           LookedStands(r)', StartStands(r)', RecallStands(r)'
    PROVE  IInv'
  <1>1. TypeInv
    BY DEF IInv
  <1>2. /\ request' = [q \in Requests |-> request'[q]]
        /\ \A q \in Requests \ {r} : request'[q] = request[q]
        /\ \A q \in Requests : Carries(request'[q])
    BY <1>1, OneMoves
  <1>3. TypeInv'
    BY <1>1, <1>2 DEF TypeInv
  <1>4. FailsOnlyInARace'
    BY DEF IInv, FailsOnlyInARace, SplitOnlyInARace, StartedTwiceOnlyInARace,
           OverTheCapOnlyInARace
  <1>5. ASSUME NEW q \in Requests
        PROVE  (LookedStands(q) /\ StartStands(q) /\ RecallStands(q))'
    <2>1. CASE q = r
      BY <2>1
    <2>2. CASE q # r
      <3>1. request'[q] = request[q] /\ LookedStands(q) /\ StartStands(q) /\ RecallStands(q)
        BY <1>2, <2>2 DEF IInv
      <3> QED
        BY <3>1 DEF LookedStands, StartStands, RecallStands, Step, Started
    <2> QED
      BY <2>1, <2>2
  <1> QED
    BY <1>3, <1>4, <1>5 DEF IInv

\* No request moves, and nothing the checks read does.
LEMMA Still ==
    ASSUME IInv, UNCHANGED <<identities, cardRuns, recalls, overran, disputed, request>>,
           users' \subseteq Users, sessions' \in [Requests -> Users \union {None}]
    PROVE  IInv'
  <1>1. TypeInv'
    BY DEF IInv, TypeInv
  <1>2. FailsOnlyInARace'
    BY DEF IInv, FailsOnlyInARace, SplitOnlyInARace, StartedTwiceOnlyInARace,
           OverTheCapOnlyInARace
  <1>3. (\A q \in Requests : LookedStands(q) /\ StartStands(q) /\ RecallStands(q))'
    BY DEF IInv, LookedStands, StartStands, RecallStands, Step, Started
  <1> QED
    BY <1>1, <1>2, <1>3 DEF IInv

\* Look: the users of one email nobody disputes are one, so the first stands
\* for all of them.
LEMMA LookSafe ==
    ASSUME IInv, NEW r \in Requests, Look(r)
    PROVE  IInv'
  <1> DEFINE found == Linked(request[r].account)
             holding == Holding(request[r].account, request[r].email)
             user == IF found # {} THEN identities[First(found)].user
                     ELSE IF holding # {} THEN identities[First(holding)].user
                     ELSE None
             me == [step |-> "looked", account |-> request[r].account,
                    email |-> request[r].email, linked |-> found # {},
                    user |-> user, raced |-> FALSE]
  <1>1. TypeInv /\ Carries(request[r]) /\ Step(r) = "invited"
    BY DEF IInv, TypeInv, Look
  <1>2. request[r].account \in Accounts /\ request[r].email \in Emails
    BY <1>1 DEF Carries, Step
  <1>3. identities \in Seq(Identity) /\ found \in SUBSET Nat /\ holding \in SUBSET Nat
    <2>1. identities \in Seq(Identity)
      BY <1>1 DEF TypeInv
    <2>2. DOMAIN identities \subseteq Nat
      BY <2>1
    <2> QED
      BY <2>1, <2>2 DEF Linked, Holding
  <1>4. found # {} => First(found) \in found
    BY <1>3, FirstIn
  <1>5. holding # {} => First(holding) \in holding
    BY <1>3, FirstIn
  <1>6. ASSUME NEW n \in DOMAIN identities
        PROVE  identities[n].user \in Users
    <2>1. identities[n] \in Identity
      BY <1>3
    <2> QED
      BY <2>1 DEF Identity
  <1>7. user \in Users \union {None}
    BY <1>4, <1>5, <1>6 DEF Linked, Holding
  <1>8. Goto(r, me)
    BY DEF Look
  <1> HIDE DEF user
  <1>9. me \in Looked /\ me.step = "looked"
    BY <1>2, <1>7 DEF Looked
  <1>10. Carries(me)
    BY <1>9 DEF Carries
  <1>11. request'[r] = me
    BY <1>1, <1>8, <1>10, OneMoves
  <1>12. /\ request'[r].email = request[r].email /\ request'[r].user = user
         /\ UNCHANGED <<identities, disputed>>
    BY <1>11 DEF Look, tables
  <1>13. found # {} => request'[r].linked
    <2>1. request'[r].linked = (found # {})
      BY <1>11
    <2> HIDE DEF found, me
    <2> QED
      BY <2>1
  <1>14. LookedStands(r)'
    <2> HIDE DEF found, me
    <2>1. SUFFICES ASSUME found = {}, request[r].email \notin disputed,
                          NEW n \in DOMAIN identities,
                          identities[n].email = request[r].email
                   PROVE  identities[n].user = user
      BY <1>12, <1>13 DEF LookedStands
    <2>2. n \in holding
      BY <2>1 DEF Holding
    <2>3. user = identities[First(holding)].user
      BY <2>1, <2>2 DEF user
    <2>4. First(holding) \in DOMAIN identities
            /\ identities[First(holding)].email = request[r].email
      BY <1>5, <2>2 DEF Holding
    <2>5. SplitOnlyInARace
      BY DEF IInv, FailsOnlyInARace
    <2> QED
      BY <2>1, <2>3, <2>4, <2>5 DEF SplitOnlyInARace
  <1>15. StartStands(r)' /\ RecallStands(r)'
    BY <1>11 DEF StartStands, RecallStands, Step
  <1> QED
    BY <1>1, <1>8, <1>10, <1>14, <1>15, Quiet DEF Look, tables, TypeInv

\* Relink: an identity keeps its account and its user, and an email it did not
\* have is disputed from then on.
LEMMA RelinkSafe ==
    ASSUME IInv, NEW r \in Requests, Relink(r)
    PROVE  IInv'
  <1> DEFINE at == First(Linked(request[r].account))
             email == request[r].email
  <1>1. TypeInv /\ Carries(request[r]) /\ Step(r) = "looked" /\ request[r] \in Looked
    BY DEF IInv, TypeInv, Relink, Carries, Step
  <1>2. email \in Emails /\ request[r].user \in Users \union {None}
    BY <1>1 DEF Looked
  <1>3. /\ identities \in Seq(Identity)
        /\ \A m \in DOMAIN identities : identities[m] \in Identity
    BY <1>1 DEF TypeInv
  <1>4. /\ identities' = [identities EXCEPT ![at].email = email]
        /\ disputed' = disputed \union ({email} \ {identities[at].email})
        /\ Goto(r, Signed(request[r].user))
    BY DEF Relink
  <1> HIDE DEF at, email
  <1>5. identities' \in Seq(Identity) /\ DOMAIN identities' = DOMAIN identities
    <2>1. CASE at \in DOMAIN identities
      <3>1. [identities[at] EXCEPT !.email = email] \in Identity
        BY <1>2, <1>3, <2>1 DEF Identity
      <3>2. identities' = [identities EXCEPT ![at] = [identities[at] EXCEPT !.email = email]]
        BY <1>4
      <3> QED
        BY <1>3, <2>1, <3>1, <3>2, ExceptSeq
    <2>2. CASE at \notin DOMAIN identities
      <3>1. identities' = identities
        BY <1>3, <1>4, <2>2
      <3> QED
        BY <1>3, <3>1
    <2> QED
      BY <2>1, <2>2
  <1>6. ASSUME NEW m \in DOMAIN identities
        PROVE  /\ identities'[m].account = identities[m].account
               /\ identities'[m].user = identities[m].user
               /\ identities'[m].email = identities[m].email \/ identities'[m].email \in disputed'
    <2>1. CASE m = at
      <3>1. identities'[m] = [identities[m] EXCEPT !.email = email]
        BY <1>3, <1>4, <2>1
      <3>2. identities[m] \in Identity
        BY <1>3
      <3>3. /\ identities'[m].account = identities[m].account
            /\ identities'[m].user = identities[m].user /\ identities'[m].email = email
        BY <3>1, <3>2 DEF Identity
      <3> QED
        BY <1>4, <2>1, <3>3
    <2>2. CASE m # at
      BY <1>3, <1>4, <2>2
    <2> QED
      BY <2>1, <2>2
  <1>7. Carries(Signed(request[r].user)) /\ Signed(request[r].user).step = "signed"
    BY <1>2 DEF Carries, Signed
  <1>8. /\ request' = [q \in Requests |-> request'[q]]
        /\ request'[r] = Signed(request[r].user)
        /\ \A q \in Requests \ {r} : request'[q] = request[q]
        /\ \A q \in Requests : Carries(request'[q])
    BY <1>1, <1>4, <1>7, OneMoves
  <1>9. TypeInv'
    BY <1>1, <1>5, <1>8 DEF TypeInv, Relink
  <1>10. FailsOnlyInARace'
    <2>1. SplitOnlyInARace
      BY DEF IInv, FailsOnlyInARace
    <2>2. disputed \subseteq disputed'
      BY <1>4
    <2>3. SplitOnlyInARace'
      BY <1>5, <1>6, <2>1, <2>2 DEF SplitOnlyInARace
    <2> QED
      BY <2>3 DEF IInv, FailsOnlyInARace, StartedTwiceOnlyInARace, OverTheCapOnlyInARace, Relink
  <1>11. ASSUME NEW q \in Requests
         PROVE  (LookedStands(q) /\ StartStands(q) /\ RecallStands(q))'
    <2>1. CASE q = r
      BY <1>7, <1>8, <2>1 DEF LookedStands, StartStands, RecallStands, Step
    <2>2. CASE q # r
      <3>1. request'[q] = request[q] /\ LookedStands(q) /\ StartStands(q) /\ RecallStands(q)
        BY <1>8, <2>2 DEF IInv
      <3>2. disputed \subseteq disputed'
        BY <1>4
      <3>3. LookedStands(q)'
        BY <1>5, <1>6, <3>1, <3>2 DEF LookedStands, Step
      <3>4. StartStands(q)' /\ RecallStands(q)'
        BY <3>1 DEF StartStands, RecallStands, Step, Started, Relink
      <3> QED
        BY <3>3, <3>4
    <2> QED
      BY <2>1, <2>2
  <1> QED
    BY <1>9, <1>10, <1>11 DEF IInv

\* A request that leaves the database as it is goes away.
LEMMA AwaySafe ==
    ASSUME IInv, NEW r \in Requests, Goto(r, Away),
           UNCHANGED <<users, identities, sessions, cardRuns, recalls, overran, disputed>>
    PROVE  IInv'
  <1>1. TypeInv /\ Carries(Away)
    BY DEF IInv, Carries, Away
  <1>2. request'[r] = Away
    BY <1>1, OneMoves
  <1>3. (LookedStands(r) /\ StartStands(r) /\ RecallStands(r))'
    BY <1>2 DEF LookedStands, StartStands, RecallStands, Step, Away
  <1> QED
    BY <1>1, <1>3, Quiet DEF TypeInv

\* One request moves, and some of those at one step are marked as raced.
LEMMA SomeAreMarked ==
    ASSUME TypeInv, NEW r \in Requests, NEW me, Carries(me),
           NEW M \in SUBSET Requests, r \notin M,
           \A q \in M : Step(q) \in {"looked", "starting", "recalling"},
           request' = [q \in Requests |->
               IF q = r THEN me
               ELSE IF q \in M THEN [request[q] EXCEPT !.raced = TRUE] ELSE request[q]]
    PROVE  /\ request' = [q \in Requests |-> request'[q]]
           /\ request'[r] = me
           /\ \A q \in Requests \ ({r} \union M) : request'[q] = request[q]
           /\ \A q \in M : request'[q].step = Step(q) /\ request'[q].raced = TRUE
           /\ \A q \in Requests : Carries(request'[q])
  <1>1. ASSUME NEW q \in M
        PROVE  /\ Carries(request'[q]) /\ request'[q].raced = TRUE
               /\ request'[q].step = Step(q)
    <2>1. /\ Carries(request[q]) /\ request[q].step \in {"looked", "starting", "recalling"}
          /\ request'[q] = [request[q] EXCEPT !.raced = TRUE]
      BY DEF TypeInv, Step
    <2> QED
      BY <2>1, MarkedIsTyped DEF Step
  <1>2. \A q \in Requests \ M : Carries(request'[q])
    BY DEF TypeInv
  <1> QED
    BY <1>1, <1>2

\* Link: an account joins the user who holds its email unless the request was
\* raced, and every request that looked for the email is raced by it.
LEMMA LinkSafe ==
    ASSUME IInv, NEW r \in Requests, Link(r), Linked(request[r].account) = {}
    PROVE  IInv'
  <1> DEFINE email == request[r].email
             account == request[r].account
             M == {q \in Requests \ {r} : Step(q) = "looked" /\ request[q].email = email}
  <1>1. TypeInv /\ Step(r) = "looked" /\ request[r] \in Looked /\ ~ request[r].linked
    BY DEF IInv, TypeInv, Link, Carries, Step
  <1>2. email \in Emails /\ account \in Accounts /\ request[r].user \in Users \union {None}
    BY <1>1 DEF Looked
  <1>3. PICK user \in IF request[r].user # None THEN {request[r].user} ELSE Users \ users :
          /\ users' = users \union {user}
          /\ identities' = Append(identities,
               [account |-> account, user |-> user, email |-> email])
          /\ disputed' = disputed \union (IF request[r].raced THEN {email} ELSE {})
          /\ request' = Raced(r, email, Signed(user))
    BY DEF Link
  <1>4. /\ user \in Users
        /\ request[r].user \in Users => user = request[r].user
    BY <1>2, <1>3, AccountsAssumption
  <1> DEFINE new == [account |-> account, user |-> user, email |-> email]
  <1>5. /\ identities' \in Seq(Identity) /\ DOMAIN identities' = 1..Len(identities) + 1
        /\ \A n \in DOMAIN identities : identities'[n] = identities[n]
        /\ identities'[Len(identities) + 1] = new
        /\ DOMAIN identities = 1..Len(identities) /\ Len(identities) \in Nat
    <2>1. identities \in Seq(Identity) /\ new \in Identity
      BY <1>1, <1>2, <1>4 DEF TypeInv, Identity
    <2> HIDE DEF new
    <2>2. identities' = Append(identities, new)
      BY <1>3 DEF new
    <2> QED
      BY <2>1, <2>2, AppendProperties
  <1>6. new.account = account /\ new.user = user /\ new.email = email
    OBVIOUS
  <1> HIDE DEF new, account
  <1>7. Carries(Signed(user)) /\ Signed(user).step = "signed"
    BY <1>4 DEF Carries, Signed
  <1>8. /\ request' = [q \in Requests |-> request'[q]]
        /\ request'[r] = Signed(user)
        /\ \A q \in Requests \ ({r} \union M) : request'[q] = request[q]
        /\ \A q \in M : request'[q].step = "looked" /\ request'[q].raced = TRUE
        /\ \A q \in Requests : Carries(request'[q])
    <2>1. \A q \in M : Step(q) = "looked" /\ Step(q) \in {"looked", "starting", "recalling"}
      OBVIOUS
    <2>2. request' = [q \in Requests |->
               IF q = r THEN Signed(user)
               ELSE IF q \in M THEN [request[q] EXCEPT !.raced = TRUE] ELSE request[q]]
      BY <1>3 DEF Raced
    <2>3. M \in SUBSET Requests /\ r \notin M
      OBVIOUS
    <2> DEFINE me == Signed(user)
    <2> HIDE DEF M, me
    <2>4. /\ request' = [q \in Requests |-> request'[q]]
          /\ request'[r] = me
          /\ \A q \in Requests \ ({r} \union M) : request'[q] = request[q]
          /\ \A q \in M : request'[q].step = Step(q) /\ request'[q].raced = TRUE
          /\ \A q \in Requests : Carries(request'[q])
      <3>1. Carries(me)
        BY <1>7 DEF me
      <3>2. request' = [q \in Requests |->
               IF q = r THEN me
               ELSE IF q \in M THEN [request[q] EXCEPT !.raced = TRUE] ELSE request[q]]
        BY <2>2 DEF me
      <3> QED
        BY <1>1, <2>1, <2>3, <3>1, <3>2, SomeAreMarked
    <2> QED
      BY <2>1, <2>4 DEF me
  <1>9. TypeInv'
    BY <1>1, <1>3, <1>4, <1>5, <1>8 DEF TypeInv, Link
  <1>10. ASSUME NEW n \in DOMAIN identities, identities[n].email = email, email \notin disputed'
         PROVE  identities[n].user = user
    <2>1. ~ request[r].raced /\ email \notin disputed
      BY <1>3, <1>10
    <2>2. LookedStands(r)
      BY DEF IInv
    <2>3. identities[n].user = request[r].user
      BY <1>1, <1>10, <2>1, <2>2 DEF LookedStands
    <2>4. identities[n] \in Identity
      BY <1>1 DEF TypeInv
    <2> QED
      BY <1>4, <2>3, <2>4 DEF Identity
  <1>11. FailsOnlyInARace'
    <2>1. SplitOnlyInARace
      BY DEF IInv, FailsOnlyInARace
    <2>2. \A n \in DOMAIN identities : identities[n].account # account
      BY DEF Linked, account
    <2>3. disputed \subseteq disputed'
      BY <1>3
    <2>4. ASSUME NEW m \in DOMAIN identities', NEW n \in DOMAIN identities', m # n
          PROVE  /\ identities'[m].account # identities'[n].account
                 /\ identities'[m].email = identities'[n].email
                      /\ identities'[m].email \notin disputed' =>
                      identities'[m].user = identities'[n].user
      <3>1. CASE m \in DOMAIN identities /\ n \in DOMAIN identities
        BY <1>5, <2>1, <2>3, <2>4, <3>1 DEF SplitOnlyInARace
      <3>2. CASE m \in DOMAIN identities /\ n = Len(identities) + 1
        BY <1>5, <1>6, <1>10, <2>2, <3>2
      <3>3. CASE m = Len(identities) + 1 /\ n \in DOMAIN identities
        BY <1>5, <1>6, <1>10, <2>2, <3>3
      <3> QED
        BY <1>5, <2>4, <3>1, <3>2, <3>3
    <2>5. SplitOnlyInARace'
      BY <2>4 DEF SplitOnlyInARace
    <2> QED
      BY <2>5 DEF IInv, FailsOnlyInARace, StartedTwiceOnlyInARace, OverTheCapOnlyInARace, Link
  <1>12. ASSUME NEW q \in Requests
         PROVE  (LookedStands(q) /\ StartStands(q) /\ RecallStands(q))'
    <2>1. CASE q = r
      BY <1>7, <1>8, <2>1 DEF LookedStands, StartStands, RecallStands, Step
    <2>2. CASE q \in M
      BY <1>8, <2>2 DEF LookedStands, StartStands, RecallStands, Step
    <2>3. CASE q \notin {r} \union M
      <3>1. /\ request'[q] = request[q]
            /\ LookedStands(q) /\ StartStands(q) /\ RecallStands(q)
        BY <1>8, <2>3 DEF IInv
      <3>2. disputed \subseteq disputed'
        BY <1>3
      <3>3. Step(q) = "looked" => request[q].email # email
        BY <2>3
      <3>4. LookedStands(q)'
        BY <1>5, <1>6, <3>1, <3>2, <3>3 DEF LookedStands, Step
      <3>5. StartStands(q)' /\ RecallStands(q)'
        BY <3>1 DEF StartStands, RecallStands, Step, Started, Link
      <3> QED
        BY <3>4, <3>5
    <2> QED
      BY <2>1, <2>2, <2>3
  <1> QED
    BY <1>9, <1>11, <1>12 DEF IInv

\* Start: the run appended is the card's first for the user unless the start
\* was raced, and every start of the same card is raced by it.
LEMMA StartSafe ==
    ASSUME IInv, NEW r \in Requests, Start(r)
    PROVE  IInv'
  <1> DEFINE user == request[r].user
             card == request[r].card
             new == [user |-> user, card |-> card, raced |-> request[r].raced]
             M == {q \in Requests \ {r} :
                     Step(q) = "starting" /\ request[q].user = user /\ request[q].card = card}
  <1>1. TypeInv /\ Step(r) = "starting" /\ request[r] \in Starting
    BY DEF IInv, TypeInv, Start, Carries, Step
  <1>2. user \in Users /\ card \in Cards /\ request[r].raced \in BOOLEAN
    BY <1>1 DEF Starting
  <1>3. new \in CardRun /\ new.user = user /\ new.card = card /\ new.raced = request[r].raced
    BY <1>2 DEF CardRun
  <1>4. cardRuns' = Append(cardRuns, new)
    BY DEF Start
  <1> HIDE DEF new
  <1>5. /\ cardRuns' \in Seq(CardRun) /\ DOMAIN cardRuns' = 1..Len(cardRuns) + 1
        /\ \A n \in DOMAIN cardRuns : cardRuns'[n] = cardRuns[n]
        /\ cardRuns'[Len(cardRuns) + 1] = new
        /\ DOMAIN cardRuns = 1..Len(cardRuns) /\ Len(cardRuns) \in Nat
    <2>1. cardRuns \in Seq(CardRun)
      BY <1>1 DEF TypeInv
    <2> QED
      BY <1>3, <1>4, <2>1, AppendProperties
  <1>6. /\ request' = [q \in Requests |-> request'[q]]
        /\ request'[r] = Away
        /\ \A q \in Requests \ ({r} \union M) : request'[q] = request[q]
        /\ \A q \in M : request'[q].step = Step(q) /\ request'[q].raced = TRUE
        /\ \A q \in Requests : Carries(request'[q])
    <2>1. M \in SUBSET Requests /\ r \notin M
          /\ \A q \in M : Step(q) \in {"looked", "starting", "recalling"}
      OBVIOUS
    <2>2. request' = [q \in Requests |->
               IF q = r THEN Away
               ELSE IF q \in M THEN [request[q] EXCEPT !.raced = TRUE] ELSE request[q]]
      BY DEF Start
    <2>3. Carries(Away)
      BY DEF Carries, Away
    <2> HIDE DEF M
    <2> QED
      BY <1>1, <2>1, <2>2, <2>3, SomeAreMarked
  <1>7. TypeInv'
    BY <1>1, <1>5, <1>6 DEF TypeInv, Start
  <1>8. FailsOnlyInARace'
    <2>1. StartedTwiceOnlyInARace /\ StartStands(r)
      BY DEF IInv, FailsOnlyInARace
    <2>2. ASSUME NEW m \in DOMAIN cardRuns', NEW n \in DOMAIN cardRuns', m < n,
                 cardRuns'[m].user = cardRuns'[n].user, cardRuns'[m].card = cardRuns'[n].card
          PROVE  cardRuns'[n].raced
      <3>1. CASE n \in DOMAIN cardRuns
        <4>1. m \in DOMAIN cardRuns
          BY <1>5, <2>2, <3>1
        <4> QED
          BY <1>5, <2>1, <2>2, <3>1, <4>1 DEF StartedTwiceOnlyInARace
      <3>2. CASE n = Len(cardRuns) + 1
        <4>1. m \in DOMAIN cardRuns
          BY <1>5, <2>2, <3>2
        <4>2. m \in Started(user, card)
          BY <1>3, <1>5, <2>2, <3>2, <4>1 DEF Started
        <4> QED
          BY <1>1, <1>3, <1>5, <2>1, <3>2, <4>2 DEF StartStands
      <3> QED
        BY <1>5, <3>1, <3>2
    <2>3. StartedTwiceOnlyInARace'
      BY <2>2 DEF StartedTwiceOnlyInARace
    <2> QED
      BY <2>3 DEF IInv, FailsOnlyInARace, SplitOnlyInARace, OverTheCapOnlyInARace, Start
  <1>9. ASSUME NEW q \in Requests
        PROVE  (LookedStands(q) /\ StartStands(q) /\ RecallStands(q))'
    <2>1. CASE q = r
      BY <1>6, <2>1 DEF LookedStands, StartStands, RecallStands, Step, Away
    <2>2. CASE q \in M
      BY <1>6, <2>2 DEF LookedStands, StartStands, RecallStands, Step
    <2>3. CASE q \notin {r} \union M
      <3>1. /\ request'[q] = request[q]
            /\ LookedStands(q) /\ StartStands(q) /\ RecallStands(q)
        BY <1>6, <2>3 DEF IInv
      <3>2. Step(q) = "starting" => request[q].user # user \/ request[q].card # card
        BY <2>3
      <3>3. StartStands(q)'
        BY <1>3, <1>5, <3>1, <3>2 DEF StartStands, Step, Started
      <3>4. LookedStands(q)' /\ RecallStands(q)'
        BY <3>1 DEF LookedStands, RecallStands, Step, Start
      <3> QED
        BY <3>3, <3>4
    <2> QED
      BY <2>1, <2>2, <2>3
  <1> QED
    BY <1>7, <1>8, <1>9 DEF IInv

\* Recall: the minute has room for it unless it was raced, and every recall of
\* the same user is raced by it.
LEMMA RecallSafe ==
    ASSUME IInv, NEW r \in Requests, Recall(r)
    PROVE  IInv'
  <1> DEFINE user == request[r].user
             M == {q \in Requests \ {r} : Step(q) = "recalling" /\ request[q].user = user}
  <1>1. TypeInv /\ Step(r) = "recalling" /\ request[r] \in Recalling
    BY DEF IInv, TypeInv, Recall, Carries, Step
  <1>2. user \in Users /\ request[r].raced \in BOOLEAN
    BY <1>1 DEF Recalling
  <1>3. /\ recalls' = [recalls EXCEPT ![user] = @ + 1]
        /\ overran' = IF request[r].raced THEN overran \union {user} ELSE overran
    BY DEF Recall
  <1>4. recalls \in [Users -> Nat] /\ recalls' \in [Users -> Nat]
    BY <1>1, <1>2, <1>3 DEF TypeInv
  <1>5. /\ request' = [q \in Requests |-> request'[q]]
        /\ request'[r] = Away
        /\ \A q \in Requests \ ({r} \union M) : request'[q] = request[q]
        /\ \A q \in M : request'[q].step = Step(q) /\ request'[q].raced = TRUE
        /\ \A q \in Requests : Carries(request'[q])
    <2>1. M \in SUBSET Requests /\ r \notin M
          /\ \A q \in M : Step(q) \in {"looked", "starting", "recalling"}
      OBVIOUS
    <2>2. request' = [q \in Requests |->
               IF q = r THEN Away
               ELSE IF q \in M THEN [request[q] EXCEPT !.raced = TRUE] ELSE request[q]]
      BY DEF Recall
    <2>3. Carries(Away)
      BY DEF Carries, Away
    <2> HIDE DEF M
    <2> QED
      BY <1>1, <2>1, <2>2, <2>3, SomeAreMarked
  <1>6. TypeInv'
    BY <1>1, <1>4, <1>5 DEF TypeInv, Recall, tables
  <1>7. FailsOnlyInARace'
    <2>1. OverTheCapOnlyInARace /\ RecallStands(r)
      BY DEF IInv, FailsOnlyInARace
    <2>2. ~ request[r].raced => recalls[user] < Cap
      BY <1>1, <2>1 DEF RecallStands
    <2>3. ASSUME NEW u \in Users, recalls'[u] > Cap
          PROVE  u \in overran'
      <3>1. CASE u = user
        BY <1>2, <1>3, <1>4, <2>2, <2>3, <3>1, AccountsAssumption
      <3>2. CASE u # user
        BY <1>2, <1>3, <1>4, <2>1, <2>3, <3>2 DEF OverTheCapOnlyInARace
      <3> QED
        BY <3>1, <3>2
    <2>4. OverTheCapOnlyInARace'
      BY <2>3 DEF OverTheCapOnlyInARace
    <2> QED
      BY <2>4 DEF IInv, FailsOnlyInARace, SplitOnlyInARace, StartedTwiceOnlyInARace, Recall, tables
  <1>8. ASSUME NEW q \in Requests
        PROVE  (LookedStands(q) /\ StartStands(q) /\ RecallStands(q))'
    <2>1. CASE q = r
      BY <1>5, <2>1 DEF LookedStands, StartStands, RecallStands, Step, Away
    <2>2. CASE q \in M
      BY <1>5, <2>2 DEF LookedStands, StartStands, RecallStands, Step
    <2>3. CASE q \notin {r} \union M
      <3>1. /\ request'[q] = request[q]
            /\ LookedStands(q) /\ StartStands(q) /\ RecallStands(q)
        BY <1>5, <2>3 DEF IInv
      <3>2. Step(q) = "recalling" => request[q].user \in Users \ {user}
        BY <1>1, <2>3 DEF TypeInv, Carries, Recalling, Step
      <3>3. RecallStands(q)'
        BY <1>3, <1>4, <3>1, <3>2 DEF RecallStands, Step
      <3>4. LookedStands(q)' /\ StartStands(q)'
        BY <3>1 DEF LookedStands, StartStands, Step, Started, Recall, tables
      <3> QED
        BY <3>3, <3>4
    <2> QED
      BY <2>1, <2>2, <2>3
  <1> QED
    BY <1>6, <1>7, <1>8 DEF IInv

-----------------------------------------------------------------------------
\* The initial states: nothing is linked, started or recalled.
LEMMA InitSafe == Init => IInv
  <1> SUFFICES ASSUME Init PROVE IInv
    OBVIOUS
  <1>1. \A r \in Requests : request[r].step = "away"
    BY DEF Init, Away
  <1>2. TypeInv
    BY <1>1 DEF Init, TypeInv, Carries
  <1>3. FailsOnlyInARace
    BY AccountsAssumption DEF Init, FailsOnlyInARace, SplitOnlyInARace,
       StartedTwiceOnlyInARace, OverTheCapOnlyInARace
  <1>4. \A r \in Requests : LookedStands(r) /\ StartStands(r) /\ RecallStands(r)
    BY <1>1 DEF LookedStands, StartStands, RecallStands, Step
  <1> QED
    BY <1>2, <1>3, <1>4 DEF IInv

\* Every step keeps the inductive invariant.
LEMMA NextSafe == IInv /\ [Next]_vars => IInv'
  <1> SUFFICES ASSUME IInv, [Next]_vars PROVE IInv'
    OBVIOUS
  <1>0. users \subseteq Users /\ sessions \in [Requests -> Users \union {None}]
    BY DEF IInv, TypeInv
  <1>1. CASE UNCHANGED vars
    BY <1>0, <1>1, Still DEF vars, tables
  <1>2. ASSUME NEW e \in Emails, Invite(e) \/ Withdraw(e)
        PROVE  IInv'
    BY <1>0, <1>2, Still DEF Invite, Withdraw
  <1>3. ASSUME NEW r \in Requests, NEW a \in Accounts, NEW e \in Emails, Callback(r, a, e)
        PROVE  IInv'
    <2>1. CASE e \notin invitations
      BY <1>3, <2>1, AwaySafe DEF Callback, tables
    <2>2. CASE e \in invitations
      <3> DEFINE me == [step |-> "invited", account |-> a, email |-> e]
      <3>1. Goto(r, me) /\ Carries(me)
        BY <1>3, <2>2 DEF Callback, Carries
      <3>2. TypeInv /\ me.step = "invited"
        BY DEF IInv
      <3> HIDE DEF me
      <3>3. request'[r] = me
        BY <3>1, <3>2, OneMoves
      <3>4. (LookedStands(r) /\ StartStands(r) /\ RecallStands(r))'
        BY <3>2, <3>3 DEF LookedStands, StartStands, RecallStands, Step
      <3> QED
        BY <1>0, <1>3, <3>1, <3>4, Quiet DEF Callback, tables
    <2> QED
      BY <2>1, <2>2
  <1>4. ASSUME NEW r \in Requests, Link(r)
        PROVE  IInv'
    <2>1. CASE Linked(request[r].account) # {}
      BY <1>4, <2>1, AwaySafe DEF Link
    <2> QED
      BY <1>4, <2>1, LinkSafe
  <1>5. ASSUME NEW r \in Requests, Open(r)
        PROVE  IInv'
    <2>1. TypeInv /\ Carries(request[r]) /\ Carries(Away) /\ Goto(r, Away)
      BY <1>5 DEF IInv, TypeInv, Carries, Away, Open
    <2>2. request[r].user \in Users \union {None}
      BY <1>5, <2>1 DEF Carries, Open, Step
    <2>3. sessions' \in [Requests -> Users \union {None}]
      BY <1>0, <1>5, <2>2 DEF Open
    <2>4. request'[r] = Away
      BY <2>1, OneMoves
    <2>5. (LookedStands(r) /\ StartStands(r) /\ RecallStands(r))'
      BY <2>4 DEF LookedStands, StartStands, RecallStands, Step, Away
    <2> QED
      BY <1>0, <1>5, <2>1, <2>3, <2>5, Quiet DEF Open
  <1>6. ASSUME NEW r \in Requests, Revoke(r)
        PROVE  IInv'
    BY <1>0, <1>6, Still DEF Revoke
  <1>7. ASSUME NEW r \in Requests, NEW c \in Cards, LookStarted(r, c)
        PROVE  IInv'
    <2>1. CASE Started(sessions[r], c) # {}
      BY <1>7, <2>1, AwaySafe DEF LookStarted, tables
    <2>2. CASE Started(sessions[r], c) = {}
      <3> DEFINE me == [step |-> "starting", user |-> sessions[r], card |-> c, raced |-> FALSE]
      <3>1. sessions[r] \in Users
        BY <1>0, <1>7 DEF LookStarted
      <3>2. Goto(r, me) /\ me \in Starting
        BY <1>7, <2>2, <3>1 DEF LookStarted, Starting
      <3>3. TypeInv /\ me.step = "starting" /\ me.user = sessions[r] /\ me.card = c
        BY DEF IInv
      <3> HIDE DEF me
      <3>4. Carries(me) /\ request'[r] = me
        BY <3>2, <3>3, OneMoves DEF Carries
      <3>5. (LookedStands(r) /\ StartStands(r) /\ RecallStands(r))'
        BY <1>7, <2>2, <3>3, <3>4
        DEF LookedStands, StartStands, RecallStands, Step, Started, LookStarted, tables
      <3> QED
        BY <1>0, <1>7, <3>2, <3>4, <3>5, Quiet DEF LookStarted, tables
    <2> QED
      BY <2>1, <2>2
  <1>8. ASSUME NEW r \in Requests, CountRecalls(r)
        PROVE  IInv'
    <2> DEFINE me == [step |-> "recalling", user |-> sessions[r], raced |-> FALSE]
    <2>1. sessions[r] \in Users
      BY <1>0, <1>8 DEF CountRecalls
    <2>2. Goto(r, me) /\ me \in Recalling
      BY <1>8, <2>1 DEF CountRecalls, Recalling
    <2>3. TypeInv /\ me.step = "recalling" /\ me.user = sessions[r]
      BY DEF IInv
    <2> HIDE DEF me
    <2>4. Carries(me) /\ request'[r] = me
      BY <2>2, <2>3, OneMoves DEF Carries
    <2>5. recalls[sessions[r]] < Cap /\ recalls' = recalls
      BY <1>8, <2>1, <2>3, AccountsAssumption DEF CountRecalls, Full, TypeInv
    <2>6. (LookedStands(r) /\ StartStands(r) /\ RecallStands(r))'
      BY <2>3, <2>4, <2>5 DEF LookedStands, StartStands, RecallStands, Step
    <2> QED
      BY <1>0, <1>8, <2>2, <2>4, <2>6, Quiet DEF CountRecalls, tables
  <1>9. ASSUME NEW r \in Requests, Drop(r)
        PROVE  IInv'
    BY <1>9, AwaySafe DEF Drop, tables
  <1> QED
    BY <1>1, <1>2, <1>3, <1>4, <1>5, <1>6, <1>7, <1>8, <1>9,
       LookSafe, RelinkSafe, StartSafe, RecallSafe DEF Next

\* What a sign-in, a start or a recall found out fails only where another
\* request acted on the same thing in between (log/users.py, ladder.py,
\* recall.py), for every number of requests, accounts, emails and users.
THEOREM FailsOnlyInARaceAlways == Spec => []FailsOnlyInARace
  <1>1. Spec => []IInv
    BY InitSafe, NextSafe, PTL DEF Spec
  <1>2. IInv => FailsOnlyInARace
    BY DEF IInv
  <1> QED
    BY <1>1, <1>2, PTL
=============================================================================
