------------------------------ MODULE Accounts ------------------------------
(***************************************************************************)
(* Who a request signs in as, and what a user's first request mints: the   *)
(* callback of a provider, which checks the invitation, links the account  *)
(* and opens a session in three transactions (api/signin.py, log/users.py, *)
(* log/sessions.py); the start of a card, which reads whether it is        *)
(* started and appends a run (ladder.py, log/runs.py); and a recall, which *)
(* counts the minute's before it runs the form (recall.py).  Each finds    *)
(* something out and then acts on it, with no lock in between, and the     *)
(* requests run side by side.                                              *)
(*                                                                         *)
(* What no code keeps is history: `raced`, that another request wrote what *)
(* this one had looked for, `disputed` and `overran`.                      *)
(***************************************************************************)
EXTENDS Integers, Sequences, FiniteSets, FiniteSetsExt

CONSTANTS
    Requests,   \* the browsers, each with one request in flight
    Accounts,   \* the accounts of the providers
    Emails,
    Users,      \* bound: the ids the engine may mint
    Cards,
    Cap,        \* recalls a minute (RUNS_PER_MINUTE)
    MaxRuns,    \* bound: the card runs and the recalls appended
    None

ASSUME AccountsAssumption ==
    Cap \in Nat /\ MaxRuns \in Nat /\ IsFiniteSet(Requests) /\ None \notin Users

VARIABLES
    invitations,  \* the emails allowed to sign in
    users,
    identities,   \* the linked accounts, oldest first
    sessions,     \* the open sessions, by the browser that holds the token
    cardRuns,     \* the runs, in the order appended
    recalls,      \* each user's recalls of one minute, bound: no later one begins
    overran,      \* the users whose recalls raced each other
    disputed,     \* the emails linked in a race, or that an account moved to
    request       \* what each request has found so far

tables == <<invitations, users, identities, sessions, cardRuns>>
vars == <<tables, recalls, overran, disputed, request>>

-----------------------------------------------------------------------------
Away == [step |-> "away"]

Step(r) == request[r].step
Goto(r, fields) == request' = [request EXCEPT ![r] = fields]

Linked(account) == {n \in DOMAIN identities : identities[n].account = account}

\* MUTANT: an account joins the user who holds its email only where it signed
\* in with that account before.
HolderLinked(account, email) ==
    {n \in DOMAIN identities : identities[n].email = email /\ identities[n].account = account}

\* The accounts holding an email.
Holding(account, email) == {n \in DOMAIN identities : identities[n].email = email}

First(S) == CHOOSE n \in S : \A m \in S : n <= m

\* The runs of this user on this card; the latest is the one open.
Started(user, card) ==
    {n \in DOMAIN cardRuns : cardRuns[n].user = user /\ cardRuns[n].card = card}

Init ==
    /\ invitations = {} /\ users = {} /\ identities = <<>>
    /\ sessions = [r \in Requests |-> None] /\ cardRuns = <<>>
    /\ recalls = [u \in Users |-> 0] /\ overran = {} /\ disputed = {}
    /\ request = [r \in Requests |-> Away]

-----------------------------------------------------------------------------
(* The operator.  *)

Invite(email) ==
    /\ invitations' = invitations \union {email}
    /\ UNCHANGED <<users, identities, sessions, cardRuns, recalls, overran, disputed, request>>

\* Stops the email signing in again; a session it opened stays open.
Withdraw(email) ==
    /\ invitations' = invitations \ {email}
    /\ UNCHANGED <<users, identities, sessions, cardRuns, recalls, overran, disputed, request>>

-----------------------------------------------------------------------------
(* Signing in.  *)

\* The provider sends the browser back with an account and an email it
\* verified, and the callback reads the invitation before anything is stored.
Callback(r, account, email) ==
    /\ Step(r) = "away"
    /\ Goto(r, IF email \in invitations
               THEN [step |-> "invited", account |-> account, email |-> email] ELSE Away)
    /\ UNCHANGED <<tables, recalls, overran, disputed>>

\* signed_in looks for the account, and for whoever holds the email.
Look(r) ==
    /\ Step(r) = "invited"
    /\ LET found == Linked(request[r].account)
           holding == Holding(request[r].account, request[r].email)
       IN Goto(r, [step |-> "looked", account |-> request[r].account,
                   email |-> request[r].email, linked |-> found # {},
                   user |-> IF found # {} THEN identities[First(found)].user
                            ELSE IF holding # {} THEN identities[First(holding)].user
                            ELSE None,
                   raced |-> FALSE])
    /\ UNCHANGED <<tables, recalls, overran, disputed>>

Signed(user) == [step |-> "signed", user |-> user]

\* The requests that looked for this email and have not written yet.
Raced(r, email, own) ==
    [q \in Requests |->
        IF q = r THEN own
        ELSE IF Step(q) = "looked" /\ request[q].email = email
        THEN [request[q] EXCEPT !.raced = TRUE] ELSE request[q]]

\* A known account keeps its user and takes the email the provider now gives.
Relink(r) ==
    /\ Step(r) = "looked" /\ request[r].linked
    /\ LET n == First(Linked(request[r].account))
           email == request[r].email
       IN /\ identities' = [identities EXCEPT ![n].email = email]
          /\ disputed' = disputed \union ({email} \ {identities[n].email})
    /\ Goto(r, Signed(request[r].user))
    /\ UNCHANGED <<invitations, users, sessions, cardRuns, recalls, overran>>

\* A new account joins the user found, or mints one; an account linked since
\* fails on the primary key, and what it minted rolls back.
Link(r) ==
    /\ Step(r) = "looked" /\ ~request[r].linked
    /\ IF Linked(request[r].account) # {}
       THEN Goto(r, Away) /\ UNCHANGED <<users, identities, disputed>>
       ELSE \E user \in IF request[r].user # None THEN {request[r].user} ELSE Users \ users :
              /\ users' = users \union {user}
              /\ identities' = Append(identities,
                   [account |-> request[r].account, user |-> user, email |-> request[r].email])
              /\ disputed' = disputed \union (IF request[r].raced THEN {request[r].email} ELSE {})
              /\ request' = Raced(r, request[r].email, Signed(user))
    /\ UNCHANGED <<invitations, sessions, cardRuns, recalls, overran>>

\* A session is opened, and the browser keeps its token in place of another's.
Open(r) ==
    /\ Step(r) = "signed"
    /\ sessions' = [sessions EXCEPT ![r] = request[r].user]
    /\ Goto(r, Away)
    /\ UNCHANGED <<invitations, users, identities, cardRuns, recalls, overran, disputed>>

\* The session ends: a sign-out, or its lifetime.
Revoke(r) ==
    /\ Step(r) = "away" /\ sessions[r] # None
    /\ sessions' = [sessions EXCEPT ![r] = None]
    /\ UNCHANGED <<invitations, users, identities, cardRuns, recalls, overran, disputed, request>>

-----------------------------------------------------------------------------
(* Studying: the session is read as the request arrives, and never again.  *)

\* start reads the run open on the card, and derives the ladder if none is.
LookStarted(r, card) ==
    /\ Step(r) = "away" /\ sessions[r] # None
    /\ Goto(r, IF Started(sessions[r], card) # {} THEN Away
               ELSE [step |-> "starting", user |-> sessions[r], card |-> card, raced |-> FALSE])
    /\ UNCHANGED <<tables, recalls, overran, disputed>>

Room == Len(cardRuns) + MapThenSumSet(LAMBDA u : recalls[u], Users) < MaxRuns

\* The run and its probes are appended.
Start(r) ==
    /\ Step(r) = "starting" /\ Room
    /\ LET me == request[r]
       IN /\ cardRuns' = Append(cardRuns, [user |-> me.user, card |-> me.card, raced |-> me.raced])
          /\ request' = [q \in Requests |->
               IF q = r THEN Away
               ELSE IF Step(q) = "starting" /\ request[q].user = me.user
                         /\ request[q].card = me.card
                    THEN [request[q] EXCEPT !.raced = TRUE] ELSE request[q]]
    /\ UNCHANGED <<invitations, users, identities, sessions, recalls, overran, disputed>>

Full(stored) == stored >= Cap

\* reproduce counts the minute's recalls before it runs the form.
CountRecalls(r) ==
    /\ Step(r) = "away" /\ sessions[r] # None
    /\ ~Full(recalls[sessions[r]])
    /\ Goto(r, [step |-> "recalling", user |-> sessions[r], raced |-> FALSE])
    /\ UNCHANGED <<tables, recalls, overran, disputed>>

\* The form has run, and the recall is appended.
Recall(r) ==
    /\ Step(r) = "recalling" /\ Room
    /\ LET me == request[r]
       IN /\ recalls' = [recalls EXCEPT ![me.user] = @ + 1]
          /\ overran' = IF me.raced THEN overran \union {me.user} ELSE overran
          /\ request' = [q \in Requests |->
               IF q = r THEN Away
               ELSE IF Step(q) = "recalling" /\ request[q].user = me.user
                    THEN [request[q] EXCEPT !.raced = TRUE] ELSE request[q]]
    /\ UNCHANGED <<tables, disputed>>

\* A restart, or a request that fails: what it wrote stays, the rest is lost.
Drop(r) ==
    /\ Step(r) # "away"
    /\ Goto(r, Away)
    /\ UNCHANGED <<tables, recalls, overran, disputed>>

-----------------------------------------------------------------------------
Next ==
    \/ \E e \in Emails : Invite(e) \/ Withdraw(e)
    \/ \E r \in Requests :
         \/ \E a \in Accounts, e \in Emails : Callback(r, a, e)
         \/ Look(r) \/ Relink(r) \/ Link(r) \/ Open(r) \/ Revoke(r)
         \/ \E c \in Cards : LookStarted(r, c)
         \/ Start(r) \/ CountRecalls(r) \/ Recall(r) \/ Drop(r)

Spec == Init /\ [][Next]_vars

-----------------------------------------------------------------------------
\* An account is linked once, and two users hold one email only where first
\* sign-ins with it overlapped or an account changed its own for it: otherwise
\* one person reaches one log through every provider.
SplitOnlyInARace ==
    \A m, n \in DOMAIN identities :
        m # n =>
            /\ identities[m].account # identities[n].account
            /\ identities[m].email = identities[n].email /\ identities[m].email \notin disputed =>
                 identities[m].user = identities[n].user

\* A card is started a second time only by a start that overlapped the first.
StartedTwiceOnlyInARace ==
    \A m, n \in DOMAIN cardRuns :
        (m < n /\ cardRuns[m].user = cardRuns[n].user /\ cardRuns[m].card = cardRuns[n].card) =>
            cardRuns[n].raced

\* A minute holds more recalls than the cap only where they overlapped.
OverTheCapOnlyInARace == \A u \in Users : recalls[u] > Cap => u \in overran

\* What a request found out is still so when it acts on it, unless another
\* request acted on the same thing in between: the three checks that no lock
\* holds fail in a race and nowhere else, whatever an invitation withdrawn, a
\* session ended or a restart does meanwhile.
FailsOnlyInARace ==
    SplitOnlyInARace /\ StartedTwiceOnlyInARace /\ OverTheCapOnlyInARace
=============================================================================
