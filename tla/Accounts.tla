------------------------------ MODULE Accounts ------------------------------
(***************************************************************************)
(* Accounts from their registration to the rows of the ticket service that *)
(* name them: register and login of the auth service, the tokens they      *)
(* sign, and get_current_user of both services, which agree on a token     *)
(* only through the key they share; over the databases of Schema.          *)
(*                                                                         *)
(* A handler keeps the transaction of its SELECT open until it commits or  *)
(* is answered, so a DROP TABLE waits for it.  An account has the id       *)
(* (uuid4) of the request that made it, and with it that request's email   *)
(* and password.  Signatures are not modelled: tokens are those that login *)
(* made.                                                                   *)
(***************************************************************************)
EXTENDS Schema

CONSTANTS
    Registrations,  \* requests to /register
    Logins,         \* requests to /login
    Email,          \* the email each of these requests has in its body
    Password,       \* and the password
    Calls,          \* requests to the ticket service that carry a token
    None,           \* no account, no time
    TTL,            \* ACCESS_TOKEN_EXPIRE_MINUTES
    MaxTime         \* bound of the clock

ASSUME NoneAssumption == None \notin Registrations \cup Nat
ASSUME TimesAssumption == TTL \in Nat /\ MaxTime \in Nat

VARIABLES
    now,      \* the clock
    reg,      \* registrations
    login,    \* logins, with the account they read
    tokens,   \* tokens signed
    call,     \* calls, with whom their token named and when it was accepted
    proved,   \* history: when each account's password was last presented
    closed,   \* history: when each account was deactivated
    late,     \* history: accounts deactivated while a login that had read them ran
    gone      \* history: accounts dropped with their table

authVars == <<now, reg, login, tokens, call, proved, closed, late, gone>>
vars == <<schemaVars, authVars>>

Users == Registrations
AccountRows == [id : Users, active : BOOLEAN]
RegStates == {"new", "checked", "stored", "created", "failed"}
LoginStates == [pc : {"new", "read", "done"}, account : AccountRows \cup {None}]
CallStates == [pc : {"new", "accepted", "done"}, sub : Users \cup {None}, at : Nat \cup {None}]
Tokens == [sub : Users, exp : Nat]

NewLogin == [pc |-> "new", account |-> None]
LoggedIn == [pc |-> "done", account |-> None]
NewCall == [pc |-> "new", sub |-> None, at |-> None]

Accounts == rows["auth"]
AccountsOf(email) == {a \in Accounts : Email[a.id] = email}
Registered == {a.id : a \in Accounts}

Up(s) == proc[s] = "up"
SetRows(s, r) ==
    /\ rows' = [rows EXCEPT ![s] = r]
    /\ UNCHANGED <<objects, version, proc, found, dropped, crashes>>

-----------------------------------------------------------------------------
(* POST /register *)

(* The answer is 400 if the email is taken, and 500 if there is no table.  *)
CheckEmail(q) ==
    /\ Up("auth") /\ reg[q] = "new"
    /\ reg' = [reg EXCEPT ![q] =
         IF "users" \in objects["auth"] /\ AccountsOf(Email[q]) = {} THEN "checked" ELSE "failed"]
    /\ UNCHANGED <<schemaVars, now, login, tokens, call, proved, closed, late, gone>>

Row(q) == [id |-> q, active |-> TRUE]
Conflicts(q) == "emailIndex" \in objects["auth"] /\ AccountsOf(Email[q]) # {}

(* The unique index lets one of the requests that found the email free     *)
(* commit; the others end in an IntegrityError.                            *)
InsertUser(q) ==
    /\ reg[q] = "checked"
    /\ IF Conflicts(q)
       THEN reg' = [reg EXCEPT ![q] = "failed"] /\ UNCHANGED schemaVars
       ELSE reg' = [reg EXCEPT ![q] = "stored"] /\ SetRows("auth", Accounts \cup {Row(q)})
    /\ UNCHANGED <<now, login, tokens, call, proved, closed, late, gone>>

(* db.refresh reads the row again, in a transaction of its own. *)
AnswerCreated(q) ==
    /\ reg[q] = "stored"
    /\ reg' = [reg EXCEPT ![q] = IF q \in Registered THEN "created" ELSE "failed"]
    /\ UNCHANGED <<schemaVars, now, login, tokens, call, proved, closed, late, gone>>

-----------------------------------------------------------------------------
(* POST /login *)

Read(l, accounts) ==
    /\ Up("auth") /\ "users" \in objects["auth"] /\ login[l].pc = "new"
    /\ \E a \in accounts : login' = [login EXCEPT ![l] = [pc |-> "read", account |-> a]]
    /\ UNCHANGED <<schemaVars, now, reg, tokens, call, proved, closed, late, gone>>

(* A session shared by all requests sees what others have not committed.   *)
ReadAccount_SharedSession(l) ==
    Read(l, {None} \cup AccountsOf(Email[l])
                   \cup {Row(q) : q \in {r \in Registrations : reg[r] = "checked" /\ Email[r] = Email[l]}})

(* scalar_one_or_none: there is one account of an email at most.  Without   *)
(* the table the answer is 500.                                            *)
ReadAccount(l) == Read(l, IF AccountsOf(Email[l]) = {} THEN {None} ELSE AccountsOf(Email[l]))

Verified(l) == login[l].account # None /\ Password[login[l].account.id] = Password[l]

(* No exp in the payload: jose takes it for a token that never expires. *)
Sign_NoExpiry(sub) ==
    /\ tokens' = tokens \cup {[sub |-> sub, exp |-> None]}
    /\ proved' = [proved EXCEPT ![sub] = now]

Sign(sub) ==
    /\ tokens' = tokens \cup {[sub |-> sub, exp |-> now + TTL]}
    /\ proved' = [proved EXCEPT ![sub] = now]

IssueToken_Inactive(l) ==
    /\ login[l].pc = "read"
    /\ IF Verified(l) THEN Sign(login[l].account.id) ELSE UNCHANGED <<tokens, proved>>
    /\ login' = [login EXCEPT ![l] = LoggedIn]
    /\ UNCHANGED <<schemaVars, now, reg, call, closed, late, gone>>

(* bcrypt takes its time: the account may have changed since it was read.  *)
IssueToken(l) ==
    /\ login[l].pc = "read"
    /\ IF Verified(l) /\ login[l].account.active
       THEN Sign(login[l].account.id)
       ELSE UNCHANGED <<tokens, proved>>
    /\ login' = [login EXCEPT ![l] = LoggedIn]
    /\ UNCHANGED <<schemaVars, now, reg, call, closed, late, gone>>

(* No code deactivates an account: it is done in the database. *)
Deactivate(a) ==
    /\ a \in Accounts /\ a.active
    /\ SetRows("auth", (Accounts \ {a}) \cup {[a EXCEPT !.active = FALSE]})
    /\ closed' = [closed EXCEPT ![a.id] = now]
    /\ late' = IF \E l \in Logins : login[l].pc = "read" /\ login[l].account = a
               THEN late \cup {a.id} ELSE late
    /\ UNCHANGED <<now, reg, login, tokens, call, proved, gone>>

-----------------------------------------------------------------------------
(* Calls of the ticket service *)

Unexpired_Never(t) == TRUE

(* jose refuses a token when exp < now, in whole seconds. *)
Unexpired(t) == t.exp >= now

(* get_current_user of the ticket service looks at nothing but the token.  *)
TicketAccepts(t) == Unexpired(t)

MeAccepts_AnyAccount(t) == Unexpired(t) /\ \E a \in Accounts : a.id = t.sub

(* That of the auth service reads the account too. *)
MeAccepts(t) == Unexpired(t) /\ \E a \in Accounts : a.id = t.sub /\ a.active

Authenticate(c, t) ==
    /\ Up("ticket") /\ call[c].pc = "new"
    /\ t \in tokens /\ TicketAccepts(t)
    /\ call' = [call EXCEPT ![c] = [pc |-> "accepted", sub |-> t.sub, at |-> now]]
    /\ UNCHANGED <<schemaVars, now, reg, login, tokens, proved, closed, late, gone>>

(* The handler writes the user into a ticket's locked_by or an order.  The *)
(* database of the first revision refuses that: its users table is empty.  *)
NameUser(c) ==
    /\ call[c].pc = "accepted"
    /\ call' = [call EXCEPT ![c].pc = "done"]
    /\ IF "tables" \in objects["ticket"] /\ "fks" \notin objects["ticket"]
       THEN SetRows("ticket", rows["ticket"] \cup {call[c].sub})
       ELSE UNCHANGED schemaVars
    /\ UNCHANGED <<now, reg, login, tokens, proved, closed, late, gone>>

(* A release or the reaper clears the last lock of a user without orders.  *)
ForgetUser(u) ==
    /\ Up("ticket") /\ u \in rows["ticket"]
    /\ SetRows("ticket", rows["ticket"] \ {u})
    /\ UNCHANGED authVars

-----------------------------------------------------------------------------
Tick ==
    /\ now < MaxTime /\ now' = now + 1
    /\ UNCHANGED <<schemaVars, reg, login, tokens, call, proved, closed, late, gone>>

(* Handlers die with their process. *)
CrashAuth ==
    /\ Crash("auth")
    /\ reg' = [q \in Registrations |->
         IF reg[q] \in {"checked", "stored"} THEN "failed" ELSE reg[q]]
    /\ login' = [l \in Logins |-> IF login[l].pc = "read" THEN LoggedIn ELSE login[l]]
    /\ UNCHANGED <<now, tokens, call, proved, closed, late, gone>>

CrashTicket ==
    /\ Crash("ticket")
    /\ call' = [c \in Calls |-> IF call[c].pc = "accepted" THEN [call[c] EXCEPT !.pc = "done"] ELSE call[c]]
    /\ UNCHANGED <<now, reg, login, tokens, proved, closed, late, gone>>

Migrate ==
    \/ (MigrateTicket \/ CreateAuthUsers) /\ UNCHANGED authVars
    \/ /\ DropAuthUsers
       /\ \A q \in Registrations : reg[q] # "checked"
       /\ \A l \in Logins : login[l].pc # "read"
       /\ gone' = gone \cup Registered
       /\ UNCHANGED <<now, reg, login, tokens, call, proved, closed, late>>

Register(q) == CheckEmail(q) \/ InsertUser(q) \/ AnswerCreated(q)
Login(l) == ReadAccount(l) \/ IssueToken(l)

Call(c) == (\E t \in tokens : Authenticate(c, t)) \/ NameUser(c)

Init ==
    /\ SchemaInit
    /\ now = 0
    /\ reg = [q \in Registrations |-> "new"]
    /\ login = [l \in Logins |-> NewLogin]
    /\ call = [c \in Calls |-> NewCall]
    /\ tokens = {} /\ late = {} /\ gone = {}
    /\ proved = [u \in Users |-> None] /\ closed = [u \in Users |-> None]

Next ==
    \/ Migrate
    \/ \E s \in Services : Start(s) /\ UNCHANGED authVars
    \/ \E q \in Registrations : Register(q)
    \/ \E l \in Logins : Login(l)
    \/ \E c \in Calls : Call(c)
    \/ \E a \in Accounts : Deactivate(a)
    \/ \E u \in Users : ForgetUser(u)
    \/ Tick \/ CrashAuth \/ CrashTicket

(* Docker starts a service that is down, again and again. *)
Fairness == \A s \in Services : WF_vars(Start(s) /\ UNCHANGED authVars)

Spec == Init /\ [][Next]_vars /\ Fairness
-----------------------------------------------------------------------------
(* Everything has its type. *)
TypeOK ==
    /\ SchemaTypeOK
    /\ rows["auth"] \subseteq AccountRows /\ rows["ticket"] \subseteq Users
    /\ now \in 0 .. MaxTime
    /\ reg \in [Registrations -> RegStates]
    /\ login \in [Logins -> LoginStates]
    /\ tokens \subseteq Tokens
    /\ call \in [Calls -> CallStates]
    /\ proved \in [Users -> Nat \cup {None}] /\ closed \in [Users -> Nat \cup {None}]
    /\ late \subseteq Users /\ gone \subseteq Users

(* Two registrations that both find an email free make one account of it,  *)
(* whether the unique index came from the migration or from create_all.    *)
OneAccountPerEmail == \A a, b \in Accounts : Email[a.id] = Email[b.id] => a = b

(* Whoever the ticket service takes a call from presented the password of  *)
(* the account at most TTL before.                                         *)
CallsProven ==
    \A c \in Calls : call[c].pc # "new" =>
        /\ proved[call[c].sub] # None
        /\ call[c].at <= proved[call[c].sub] + TTL

(* The ticket service never asks whether an account is still active, yet   *)
(* it takes no call of a deactivated one later than TTL after: the token   *)
(* of a login that was running then is the only exception.                 *)
DeactivationTakesHold ==
    \A c \in Calls : call[c].pc # "new" /\ call[c].sub \notin late /\ closed[call[c].sub] # None =>
        call[c].at <= closed[call[c].sub] + TTL

(* No foreign key ties the rows of the ticket service to the accounts, and *)
(* still every user they name is an account, or was one until its table    *)
(* was dropped.                                                            *)
NoOrphans == rows["ticket"] \subseteq Registered \cup gone

(* The two services verify tokens on their own.  What /me accepts the      *)
(* ticket service does, and they differ only over accounts that were       *)
(* deactivated or dropped since the login.                                 *)
VerdictsAgree ==
    \A t \in tokens :
        /\ MeAccepts(t) => TicketAccepts(t) /\ closed[t.sub] = None
        /\ TicketAccepts(t) /\ ~MeAccepts(t) => closed[t.sub] # None \/ t.sub \in gone
=============================================================================
