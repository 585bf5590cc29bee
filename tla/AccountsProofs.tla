--------------------------- MODULE AccountsProofs ---------------------------
(***************************************************************************)
(* What holds of the databases and of the accounts for every set of        *)
(* requests, every lifetime of a token and every number of crashes.        *)
(*                                                                         *)
(* The inductive invariant says what the steps rely on: what create_all    *)
(* saw is still there unless it was dropped (SeenTables), and rows are in  *)
(* tables (RowsInTables); a registration between its two steps has the     *)
(* unique index before it, and its id is of no account yet (Registering);  *)
(* an account is active while it was not deactivated (ActiveRows); and     *)
(* what a login read, a token says and a call was accepted with names an   *)
(* account and is not older than the history tells (LoginsKnow,            *)
(* TokensKnow, CallsKnow).                                                 *)
(***************************************************************************)
EXTENDS Accounts, TLAPS

Known == Registered \cup gone

SeenTables ==
    \A s \in Services :
        proc[s] = "checked" /\ found[s] /\ s \notin dropped => Tables[s] \subseteq objects[s]

RowsInTables == \A s \in Services : rows[s] # {} => Tables[s] \subseteq objects[s]

SchemaInv == SchemaTypeOK /\ VersionTruth /\ ServesItsTables /\ SeenTables /\ RowsInTables

Registering ==
    \A q \in Registrations :
        /\ reg[q] = "checked" => "emailIndex" \in objects["auth"]
        /\ reg[q] \in {"new", "checked"} => q \notin Known /\ closed[q] = None
        /\ reg[q] \in {"stored", "created"} => q \in Known

ActiveRows == \A a \in Accounts : a.active <=> closed[a.id] = None

LoginsKnow ==
    \A l \in Logins : login[l].pc = "read" /\ login[l].account # None =>
        /\ login[l].account.id \in Known
        /\ login[l].account.active /\ closed[login[l].account.id] # None =>
             login[l].account.id \in late

(* No later than TTL after the last login, and after the deactivation. *)
InTime(u, at) ==
    /\ proved[u] # None /\ at <= proved[u] + TTL
    /\ closed[u] # None /\ u \notin late => at <= closed[u] + TTL

Past == \A u \in Users : proved[u] # None => proved[u] <= now

TokensKnow == \A t \in tokens : t.sub \in Known /\ InTime(t.sub, t.exp)

CallsKnow ==
    \A c \in Calls : call[c].pc # "new" =>
        /\ call[c].sub \in Known /\ call[c].at \in Nat /\ call[c].at <= now
        /\ InTime(call[c].sub, call[c].at)

IInv ==
    /\ TypeOK /\ SchemaInv
    /\ OneAccountPerEmail /\ Registering /\ ActiveRows /\ Past
    /\ LoginsKnow /\ TokensKnow /\ CallsKnow

-----------------------------------------------------------------------------
(* The databases *)

(* Two empty databases and two services that are down. *)
LEMMA SchemaStarts == ASSUME SchemaInit PROVE SchemaInv
  BY CrashesAssumption DEF SchemaInit, SchemaInv, SchemaTypeOK, VersionTruth, ServesItsTables,
     SeenTables, RowsInTables, Services, Objects

(* A revision takes the database from one version's objects to another's.  *)
LEMMA RevisionsKeep ==
  ASSUME SchemaInv, MigrateTicket \/ CreateAuthUsers \/ DropAuthUsers
  PROVE  SchemaInv'
<1> USE DEF SchemaInv, SchemaTypeOK, VersionTruth, ServesItsTables, SeenTables, RowsInTables, Services, Objects,
            Tables, Types, Execute, KeepRows, DropRows
<1>1. CASE CreateTicketTables
  <2>1. objects["ticket"] = {}
    BY <1>1 DEF CreateTicketTables
  <2>2. objects' = [objects EXCEPT !["ticket"] = {"users", "tables", "types", "fks"}]
    BY <1>1, <2>1 DEF CreateTicketTables
  <2>3. SchemaTypeOK' /\ ServesItsTables' /\ SeenTables' /\ RowsInTables'
    BY <1>1, <2>1, <2>2 DEF CreateTicketTables
  <2>4. VersionTruth'
    <3>1. proc' = proc /\ rows' = rows /\ version' = [version EXCEPT !["ticket"] = 1]
      BY <1>1 DEF CreateTicketTables
    <3>2. rows["ticket"] = {}
      BY <2>1
    <3> QED BY <2>2, <3>1, <3>2
  <2> QED BY <2>3, <2>4
<1>2. CASE DropTicketTables    BY <1>2 DEF DropTicketTables
<1>3. CASE RemoveUsers         BY <1>3 DEF RemoveUsers
<1>4. CASE RestoreUsers        BY <1>4 DEF RestoreUsers
<1>5. CASE CreateAuthUsers     BY <1>5 DEF CreateAuthUsers
<1>6. CASE DropAuthUsers       BY <1>6 DEF DropAuthUsers
<1> QED BY <1>1, <1>2, <1>3, <1>4, <1>5, <1>6 DEF MigrateTicket

(* A service that starts, fails to start or dies. *)
LEMMA ProcessesKeep ==
  ASSUME SchemaInv, NEW s \in Services, Start(s) \/ Crash(s)
  PROVE  SchemaInv'
<1> USE CrashesAssumption DEF SchemaInv, SchemaTypeOK, VersionTruth, ServesItsTables, SeenTables,
            RowsInTables, Services, Objects, Tables, Types, Conclude
<1>1. CASE CheckTables(s)
  <2>1. Tables[s] \cap objects[s] # {} => Tables[s] \subseteq objects[s]
    <3>1. CASE s = "ticket"  BY <3>1
    <3>2. CASE s = "auth"    BY <3>2
    <3> QED BY <3>1, <3>2
  <2>2. SchemaTypeOK' /\ VersionTruth' /\ ServesItsTables' /\ RowsInTables'
    BY <1>1 DEF CheckTables, Look
  <2>3. SeenTables'
    BY <1>1, <2>1 DEF CheckTables, Look
  <2> QED BY <2>2, <2>3
<1>2. CASE CreateMissing(s)  BY <1>2 DEF CreateMissing, Missing
<1>3. CASE FailStart(s)      BY <1>3 DEF FailStart
<1>4. CASE Crash(s)          BY <1>4 DEF Crash
<1> QED BY <1>1, <1>2, <1>3, <1>4 DEF Start

(* Rows come and go; only users of the ticket service are checked.         *)
LEMMA RowsKeep ==
  ASSUME SchemaInv, NEW s \in Services, NEW r, SetRows(s, r),
         s = "ticket" /\ "fks" \in objects["ticket"] => r = {},
         r # {} => Tables[s] \subseteq objects[s]
  PROVE  SchemaInv'
  BY DEF SchemaInv, SchemaTypeOK, VersionTruth, ServesItsTables, SeenTables, RowsInTables, Services, SetRows

LEMMA SchemaStutters == ASSUME SchemaInv, UNCHANGED schemaVars PROVE SchemaInv'
  BY DEF SchemaInv, SchemaTypeOK, VersionTruth, ServesItsTables, SeenTables, RowsInTables, schemaVars

-----------------------------------------------------------------------------
(* The accounts *)

(* Steps of the databases that leave the accounts alone. *)
LEMMA AccountsStay ==
  ASSUME IInv, SchemaInv', UNCHANGED authVars,
         rows'["auth"] = rows["auth"], rows'["ticket"] \subseteq Users,
         "emailIndex" \in objects["auth"] => "emailIndex" \in objects'["auth"]
  PROVE  IInv'
<1>1. Accounts' = Accounts /\ Registered' = Registered /\ Known' = Known
  BY DEF Accounts, Registered, Known, authVars
<1>2. TypeOK'
  BY DEF IInv, TypeOK, SchemaInv, authVars
<1>3. OneAccountPerEmail' /\ Registering' /\ ActiveRows' /\ Past'
  BY <1>1 DEF IInv, OneAccountPerEmail, Registering, ActiveRows, Past, authVars
<1>4. LoginsKnow' /\ TokensKnow' /\ CallsKnow'
  BY <1>1 DEF IInv, LoginsKnow, TokensKnow, CallsKnow, InTime, authVars
<1> QED BY <1>2, <1>3, <1>4 DEF IInv

LEMMA StartsKeep ==
  ASSUME IInv, NEW s \in Services, Start(s) /\ UNCHANGED authVars
  PROVE  IInv'
<1>1. SchemaInv'
  BY ProcessesKeep DEF IInv
<1>2. rows' = rows /\ objects["auth"] \subseteq objects'["auth"]
  BY DEF IInv, SchemaInv, SchemaTypeOK, Start, CheckTables, Look, CreateMissing, FailStart, Conclude,
         Services, Types, Missing
<1> QED BY <1>1, <1>2, AccountsStay DEF IInv, TypeOK

LEMMA ForgetKeeps == ASSUME IInv, NEW u \in Users, ForgetUser(u) PROVE IInv'
<1>1. rows["ticket"] # {} /\ "ticket" \in Services
  BY DEF ForgetUser, Services
<1>2. SchemaInv'
  BY <1>1, RowsKeep DEF IInv, ForgetUser, SchemaInv, VersionTruth, RowsInTables
<1>3. rows'["auth"] = rows["auth"] /\ rows'["ticket"] \subseteq Users /\ objects' = objects
  BY DEF ForgetUser, SetRows, IInv, SchemaInv, SchemaTypeOK, Services, TypeOK
<1> QED BY <1>2, <1>3, AccountsStay DEF ForgetUser

(* Dropping the table moves its accounts from Registered to gone. *)
LEMMA MigrationsKeep == ASSUME IInv, Migrate PROVE IInv'
<1>1. SchemaInv'
  BY RevisionsKeep DEF IInv, Migrate
<1>2. CASE (MigrateTicket \/ CreateAuthUsers) /\ UNCHANGED authVars
  <2>1. rows'["auth"] = rows["auth"] /\ rows'["ticket"] \subseteq Users
    BY <1>2 DEF IInv, TypeOK, SchemaTypeOK, Services, MigrateTicket, CreateTicketTables, DropTicketTables,
                RemoveUsers, RestoreUsers, CreateAuthUsers, Execute, KeepRows, DropRows
  <2>2. objects["auth"] \subseteq objects'["auth"]
    BY <1>2 DEF IInv, TypeOK, SchemaTypeOK, Services, MigrateTicket, CreateTicketTables, DropTicketTables,
                RemoveUsers, RestoreUsers, CreateAuthUsers, Execute
  <2> QED BY <1>1, <1>2, <2>1, <2>2, AccountsStay
<1>3. CASE /\ DropAuthUsers
           /\ \A q \in Registrations : reg[q] # "checked"
           /\ \A l \in Logins : login[l].pc # "read"
           /\ gone' = gone \cup Registered
           /\ UNCHANGED <<now, reg, login, tokens, call, proved, closed, late>>
  <2>1. rows' = [rows EXCEPT !["auth"] = {}] /\ "auth" \in Services
    BY <1>3 DEF DropAuthUsers, DropRows, Services
  <2>2. Accounts' = {} /\ rows'["ticket"] = rows["ticket"]
    BY <2>1 DEF IInv, SchemaInv, SchemaTypeOK, Accounts, Services
  <2>3. Known' = Known
    <3>1. Registered' = {}
      BY <2>2 DEF Registered
    <3>2. gone' = gone \cup Registered
      BY <1>3
    <3> QED BY <3>1, <3>2 DEF Known
  <2>4. Registered \subseteq Users
    BY DEF IInv, TypeOK, Registered, AccountRows, Accounts
  <2>5. TypeOK'
    <3>1. rows'["auth"] = {}
      BY <2>2 DEF Accounts
    <3> QED BY <1>1, <1>3, <2>2, <2>4, <3>1 DEF IInv, TypeOK, SchemaInv
  <2>6. OneAccountPerEmail' /\ ActiveRows'
    BY <2>2 DEF OneAccountPerEmail, ActiveRows
  <2>7. Registering'
    BY <1>3, <2>3 DEF IInv, Registering
  <2>8. Past' /\ LoginsKnow'
    BY <1>3 DEF IInv, Past, LoginsKnow
  <2>9. TokensKnow' /\ CallsKnow'
    BY <1>3, <2>3 DEF IInv, TokensKnow, CallsKnow, InTime
  <2> QED BY <1>1, <2>5, <2>6, <2>7, <2>8, <2>9 DEF IInv
<1> QED BY <1>2, <1>3 DEF Migrate
(* With its table an account has its unique index: CheckEmail saw both.    *)
LEMMA RegistrationsKeep == ASSUME IInv, NEW q \in Registrations, Register(q) PROVE IInv'
<1>1. CASE CheckEmail(q)
  <2>1. SchemaInv' /\ Accounts' = Accounts /\ Known' = Known /\ objects' = objects
    BY <1>1, SchemaStutters DEF IInv, CheckEmail, schemaVars, Accounts, Registered, Known
  <2>2. "users" \in objects["auth"] => "emailIndex" \in objects["auth"]
    BY DEF IInv, SchemaInv, SchemaTypeOK, VersionTruth, Services
  <2>3. TypeOK'
    BY <1>1, <2>1 DEF IInv, TypeOK, CheckEmail, RegStates, SchemaInv, schemaVars
  <2>4. Registering'
    BY <1>1, <2>1, <2>2 DEF IInv, TypeOK, Registering, CheckEmail, RegStates
  <2>5. OneAccountPerEmail' /\ ActiveRows' /\ Past'
    BY <1>1, <2>1 DEF IInv, CheckEmail, OneAccountPerEmail, ActiveRows, Past
  <2>6. LoginsKnow' /\ TokensKnow' /\ CallsKnow'
    BY <1>1, <2>1 DEF IInv, CheckEmail, LoginsKnow, TokensKnow, CallsKnow, InTime
  <2> QED BY <2>1, <2>3, <2>4, <2>5, <2>6 DEF IInv
<1>2. CASE InsertUser(q) /\ Conflicts(q)
  <2>1. reg' = [reg EXCEPT ![q] = "failed"] /\ UNCHANGED schemaVars
    BY <1>2 DEF InsertUser
  <2>2. SchemaInv' /\ Accounts' = Accounts /\ Known' = Known /\ objects' = objects
    BY <1>2, <2>1, SchemaStutters DEF IInv, InsertUser, schemaVars, Accounts, Registered, Known
  <2>3. TypeOK'
    BY <1>2, <2>1, <2>2 DEF IInv, TypeOK, InsertUser, RegStates, SchemaInv, schemaVars
  <2>4. Registering'
    BY <1>2, <2>1, <2>2 DEF IInv, TypeOK, Registering, InsertUser, RegStates
  <2>5. OneAccountPerEmail' /\ ActiveRows' /\ Past'
    BY <1>2, <2>2 DEF IInv, InsertUser, OneAccountPerEmail, ActiveRows, Past
  <2>6. LoginsKnow' /\ TokensKnow' /\ CallsKnow'
    BY <1>2, <2>2 DEF IInv, InsertUser, LoginsKnow, TokensKnow, CallsKnow, InTime
  <2> QED BY <2>2, <2>3, <2>4, <2>5, <2>6 DEF IInv
<1>3. CASE InsertUser(q) /\ ~Conflicts(q)
  <2>1. /\ reg[q] = "checked" /\ reg' = [reg EXCEPT ![q] = "stored"]
        /\ SetRows("auth", Accounts \cup {Row(q)})
        /\ UNCHANGED <<now, login, tokens, call, proved, closed, late, gone>>
    BY <1>3 DEF InsertUser
  <2>2. "emailIndex" \in objects["auth"] /\ AccountsOf(Email[q]) = {}
    BY <1>3, <2>1 DEF IInv, Registering, Conflicts
  <2>3. "auth" \in Services /\ Tables["auth"] \subseteq objects["auth"]
    BY <2>2 DEF IInv, SchemaInv, SchemaTypeOK, VersionTruth, Services, Tables
  <2>4. SchemaInv' /\ objects' = objects
    BY <2>1, <2>3, RowsKeep DEF IInv, SetRows
  <2>5. Accounts' = Accounts \cup {Row(q)} /\ rows'["ticket"] = rows["ticket"]
    BY <2>1 DEF SetRows, IInv, SchemaInv, SchemaTypeOK, Services, Accounts
  <2>6. Registered' = Registered \cup {q} /\ Known' = Known \cup {q}
    <3>1. Row(q).id = q
      BY DEF Row
    <3>2. Registered' = Registered \cup {q}
      BY <2>5, <3>1 DEF Registered
    <3> QED BY <2>1, <3>2 DEF Known
  <2>7. TypeOK'
    <3>1. Row(q) \in AccountRows
      BY DEF AccountRows, Row, Users
    <3>2. rows'["auth"] \subseteq AccountRows
      BY <2>5, <3>1 DEF IInv, TypeOK, Accounts
    <3> QED BY <2>1, <2>4, <2>5, <3>2 DEF IInv, TypeOK, SchemaInv, RegStates
  <2>8. OneAccountPerEmail'
    <3>1. \A a \in Accounts : Email[a.id] # Email[q]
      BY <2>2 DEF AccountsOf
    <3>2. Row(q).id = q
      BY DEF Row
    <3> QED BY <2>5, <3>1, <3>2 DEF IInv, OneAccountPerEmail
  <2>9. Registering'
    BY <2>1, <2>4, <2>6 DEF IInv, TypeOK, Registering
  <2>10. ActiveRows'
    BY <2>1, <2>5 DEF IInv, ActiveRows, Row, Registering
  <2>11. Past' /\ LoginsKnow' /\ TokensKnow' /\ CallsKnow'
    BY <2>1, <2>6 DEF IInv, Past, LoginsKnow, TokensKnow, CallsKnow, InTime
  <2> QED BY <2>4, <2>7, <2>8, <2>9, <2>10, <2>11 DEF IInv
<1>4. CASE AnswerCreated(q)
  <2>1. SchemaInv' /\ Accounts' = Accounts /\ Known' = Known /\ objects' = objects
    BY <1>4, SchemaStutters DEF IInv, AnswerCreated, schemaVars, Accounts, Registered, Known
  <2>2. TypeOK'
    BY <1>4, <2>1 DEF IInv, TypeOK, AnswerCreated, RegStates, SchemaInv, schemaVars
  <2>3. Registering'
    BY <1>4, <2>1 DEF IInv, TypeOK, Registering, AnswerCreated, RegStates
  <2>4. OneAccountPerEmail' /\ ActiveRows' /\ Past'
    BY <1>4, <2>1 DEF IInv, AnswerCreated, OneAccountPerEmail, ActiveRows, Past
  <2>5. LoginsKnow' /\ TokensKnow' /\ CallsKnow'
    BY <1>4, <2>1 DEF IInv, AnswerCreated, LoginsKnow, TokensKnow, CallsKnow, InTime
  <2> QED BY <2>1, <2>2, <2>3, <2>4, <2>5 DEF IInv
<1> QED BY <1>1, <1>2, <1>3, <1>4 DEF Register
(* Steps that leave the databases alone. *)
LEMMA DatabasesStay ==
  ASSUME IInv, UNCHANGED schemaVars, UNCHANGED <<reg, closed, late, gone>>
  PROVE  /\ SchemaInv' /\ Accounts' = Accounts /\ Registered' = Registered /\ Known' = Known
         /\ rows' = rows /\ OneAccountPerEmail' /\ Registering' /\ ActiveRows'
<1>1. SchemaInv' /\ objects' = objects /\ rows' = rows
  BY SchemaStutters DEF IInv, schemaVars
<1>2. Accounts' = Accounts /\ Registered' = Registered /\ Known' = Known
  BY <1>1 DEF Accounts, Registered, Known
<1> QED BY <1>1, <1>2 DEF IInv, OneAccountPerEmail, Registering, ActiveRows

(* What a login reads is an account, active if nobody closed it before.    *)
LEMMA ReadsKeep == ASSUME IInv, NEW l \in Logins, ReadAccount(l) PROVE IInv'
<1>1. PICK a \in AccountsOf(Email[l]) \cup {None} :
        login' = [login EXCEPT ![l] = [pc |-> "read", account |-> a]]
  BY DEF ReadAccount, Read
<1>2. UNCHANGED <<schemaVars, now, reg, tokens, call, proved, closed, late, gone>>
  BY DEF ReadAccount, Read
<1>3. /\ SchemaInv' /\ Accounts' = Accounts /\ Known' = Known /\ rows' = rows
      /\ OneAccountPerEmail' /\ Registering' /\ ActiveRows'
  BY <1>2, DatabasesStay
<1>4. a \in AccountRows \cup {None}
  BY DEF AccountsOf, Accounts, IInv, TypeOK
<1>5. TypeOK'
  BY <1>1, <1>2, <1>3, <1>4 DEF IInv, TypeOK, SchemaInv, LoginStates
<1>6. a # None => a.id \in Known /\ (a.active => closed[a.id] = None)
  BY DEF AccountsOf, Known, Registered, IInv, ActiveRows
<1>7. LoginsKnow'
  BY <1>1, <1>2, <1>3, <1>6 DEF IInv, LoginsKnow, TypeOK
<1>8. Past' /\ TokensKnow' /\ CallsKnow'
  BY <1>2, <1>3 DEF IInv, Past, TokensKnow, CallsKnow, InTime
<1> QED BY <1>3, <1>5, <1>7, <1>8 DEF IInv

(* The new token is the latest of its account.  If the account was closed  *)
(* since it was read, it is late.                                          *)
LEMMA IssuesKeep == ASSUME IInv, NEW l \in Logins, IssueToken(l) PROVE IInv'
<1>1. UNCHANGED <<schemaVars, now, reg, call, closed, late, gone>>
  BY DEF IssueToken
<1>2. login' = [login EXCEPT ![l] = LoggedIn] /\ login[l].pc = "read"
  BY DEF IssueToken
<1>3. /\ SchemaInv' /\ Accounts' = Accounts /\ Known' = Known /\ rows' = rows
      /\ OneAccountPerEmail' /\ Registering' /\ ActiveRows'
  BY <1>1, DatabasesStay
<1>4. LoggedIn \in LoginStates /\ LoggedIn.pc = "done"
  BY DEF LoggedIn, LoginStates
<1>5. LoginsKnow'
  BY <1>1, <1>2, <1>3, <1>4 DEF IInv, LoginsKnow, TypeOK
<1>6. CASE UNCHANGED <<tokens, proved>>
  <2>1. TypeOK'
    BY <1>1, <1>2, <1>3, <1>4, <1>6 DEF IInv, TypeOK, SchemaInv
  <2>2. Past' /\ TokensKnow' /\ CallsKnow'
    BY <1>1, <1>3, <1>6 DEF IInv, Past, TokensKnow, CallsKnow, InTime
  <2> QED BY <1>3, <1>5, <2>1, <2>2 DEF IInv
<1>7. CASE Verified(l) /\ login[l].account.active /\ Sign(login[l].account.id)
  <2>1. PICK u \in Users :
          u = login[l].account.id /\ u \in Known /\ (closed[u] # None => u \in late)
    BY <1>2, <1>7 DEF IInv, TypeOK, LoginStates, LoginsKnow, AccountRows, Verified
  <2>2. now \in Nat /\ TTL \in Nat
    BY TimesAssumption DEF IInv, TypeOK
  <2>3. PICK t \in Tokens : t = [sub |-> u, exp |-> now + TTL]
    <3>1. [sub |-> u, exp |-> now + TTL] \in Tokens
      BY <2>2 DEF Tokens
    <3> QED BY <3>1
  <2>4. tokens' = tokens \cup {t} /\ proved' = [proved EXCEPT ![u] = now]
    <3>1. Sign(u)
      BY <1>7, <2>1
    <3> QED BY <2>3, <3>1 DEF Sign
  <2>5. TypeOK'
    BY <1>1, <1>2, <1>3, <1>4, <2>2, <2>4 DEF IInv, TypeOK, SchemaInv
  <2>6. Past' /\ now # None
    BY <1>1, <2>2, <2>4, NoneAssumption DEF IInv, Past, TypeOK
  <2>7. \A v \in Users, at \in Nat : InTime(v, at) => InTime(v, at)'
    BY <1>1, <2>2, <2>4, <2>6 DEF IInv, Past, InTime, TypeOK
  <2>8. InTime(t.sub, t.exp)' /\ t.sub \in Known
    BY <1>1, <2>1, <2>2, <2>3, <2>4, <2>6 DEF IInv, InTime, TypeOK
  <2>9. TokensKnow'
    BY <1>3, <2>4, <2>7, <2>8 DEF IInv, TokensKnow, TypeOK, Tokens
  <2>10. Known \subseteq Users
    BY DEF IInv, TypeOK, Known, Registered, Accounts, AccountRows
  <2>11. CallsKnow'
    BY <1>1, <1>3, <2>7, <2>10 DEF IInv, CallsKnow
  <2> QED BY <1>3, <1>5, <2>5, <2>6, <2>9, <2>11 DEF IInv
<1> QED BY <1>6, <1>7 DEF IssueToken

LEMMA LoginsKeep == ASSUME IInv, NEW l \in Logins, Login(l) PROVE IInv'
  BY ReadsKeep, IssuesKeep DEF Login
(* The tokens and calls of the account are all of this time or before.     *)
LEMMA DeactivationsKeep == ASSUME IInv, NEW a \in Accounts, Deactivate(a) PROVE IInv'
<1> DEFINE b == [a EXCEPT !.active = FALSE]
<1>1. /\ a.active /\ SetRows("auth", (Accounts \ {a}) \cup {b})
      /\ closed' = [closed EXCEPT ![a.id] = now]
      /\ late' = IF \E l \in Logins : login[l].pc = "read" /\ login[l].account = a
                 THEN late \cup {a.id} ELSE late
      /\ UNCHANGED <<now, reg, login, tokens, call, proved, gone>>
  BY DEF Deactivate
<1>2. a \in AccountRows /\ a.id \in Users /\ now \in Nat /\ now # None /\ TTL \in Nat
  BY TimesAssumption, NoneAssumption DEF IInv, TypeOK, Accounts, AccountRows
<1>3. b \in AccountRows /\ b.id = a.id /\ b.active = FALSE
  BY <1>2 DEF AccountRows
<1> HIDE DEF b
<1>4. "auth" \in Services /\ Tables["auth"] \subseteq objects["auth"]
  BY DEF IInv, SchemaInv, RowsInTables, Services, Accounts
<1>5. SchemaInv' /\ objects' = objects
  BY <1>1, <1>4, RowsKeep DEF IInv, SetRows
<1>6. Accounts' = (Accounts \ {a}) \cup {b} /\ rows'["ticket"] = rows["ticket"]
  BY <1>1 DEF SetRows, IInv, SchemaInv, SchemaTypeOK, Services, Accounts
<1>7. Registered' = Registered /\ Known' = Known
  BY <1>1, <1>3, <1>6 DEF Registered, Known
<1>8. TypeOK'
  <2>1. rows'["auth"] \subseteq AccountRows
    BY <1>3, <1>6 DEF IInv, TypeOK, Accounts
  <2> QED BY <1>1, <1>2, <1>5, <1>6, <2>1 DEF IInv, TypeOK, SchemaInv
<1>9. \A c \in Accounts : c.id = a.id => c = a
  BY DEF IInv, OneAccountPerEmail
<1>10. OneAccountPerEmail'
  BY <1>3, <1>6 DEF IInv, OneAccountPerEmail
<1>11. Registering'
  BY <1>1, <1>5, <1>7, <1>2 DEF IInv, Registering, TypeOK, Known, Registered
<1>12. ActiveRows'
  BY <1>1, <1>2, <1>3, <1>6, <1>9 DEF IInv, ActiveRows, TypeOK, Accounts, AccountRows
<1>13. Past'
  BY <1>1 DEF IInv, Past
<1>14. LoginsKnow'
  <2> SUFFICES ASSUME NEW l \in Logins, login[l].pc = "read", login[l].account # None
               PROVE  /\ login[l].account.id \in Known
                      /\ login[l].account.active /\ closed'[login[l].account.id] # None =>
                           login[l].account.id \in late'
    BY <1>1, <1>7 DEF LoginsKnow
  <2>1. login[l].account \in AccountRows
    BY DEF IInv, TypeOK, LoginStates
  <2>2. CASE login[l].account.id = a.id /\ login[l].account.active
    <3>1. login[l].account = a
      BY <1>1, <1>2, <2>1, <2>2 DEF AccountRows
    <3> QED BY <1>1, <3>1 DEF IInv, LoginsKnow
  <2>3. CASE ~(login[l].account.id = a.id /\ login[l].account.active)
    BY <1>1, <1>2, <2>1, <2>3 DEF IInv, LoginsKnow, TypeOK, AccountRows
  <2> QED BY <2>2, <2>3
<1>15. \A u \in Users, at \in Nat :
         InTime(u, at) /\ (u = a.id => at <= now + TTL) => InTime(u, at)'
  BY <1>1, <1>2 DEF InTime, IInv, TypeOK
<1>16. \A at \in Nat : InTime(a.id, at) => at <= now + TTL
  BY <1>2 DEF InTime, IInv, TypeOK, Past
<1>17. Known \subseteq Users
  BY DEF IInv, TypeOK, Known, Registered, Accounts, AccountRows
<1>18. TokensKnow'
  BY <1>1, <1>7, <1>15, <1>16, <1>17 DEF IInv, TypeOK, TokensKnow, Tokens
<1>19. CallsKnow'
  BY <1>1, <1>7, <1>15, <1>16, <1>17 DEF IInv, CallsKnow
<1> QED BY <1>5, <1>8, <1>10, <1>11, <1>12, <1>13, <1>14, <1>18, <1>19 DEF IInv

LEMMA CallsKeep == ASSUME IInv, NEW c \in Calls, Call(c) PROVE IInv'
<1>1. CASE \E t \in tokens : Authenticate(c, t)
  <2>1. PICK t \in tokens : Authenticate(c, t)
    BY <1>1
  <2>2. UNCHANGED <<schemaVars, now, reg, login, tokens, proved, closed, late, gone>>
    BY <2>1 DEF Authenticate
  <2>3. /\ SchemaInv' /\ Accounts' = Accounts /\ Known' = Known /\ rows' = rows
        /\ OneAccountPerEmail' /\ Registering' /\ ActiveRows'
    BY <2>2, DatabasesStay
  <2>4. call' = [call EXCEPT ![c] = [pc |-> "accepted", sub |-> t.sub, at |-> now]] /\ now <= t.exp
    BY <2>1 DEF Authenticate, TicketAccepts, Unexpired, IInv, TypeOK, Tokens
  <2>5. t \in Tokens /\ t.sub \in Users /\ t.exp \in Nat /\ t.sub \in Known /\ now \in Nat /\ TTL \in Nat
    BY TimesAssumption DEF IInv, TypeOK, Tokens, TokensKnow
  <2>6. InTime(t.sub, now)
    BY <2>4, <2>5 DEF IInv, TokensKnow, InTime, TypeOK
  <2>7. TypeOK'
    BY <2>2, <2>3, <2>4, <2>5 DEF IInv, TypeOK, SchemaInv, CallStates
  <2>8. CallsKnow'
    BY <2>2, <2>3, <2>4, <2>5, <2>6 DEF IInv, TypeOK, CallsKnow, InTime
  <2>9. Past' /\ LoginsKnow' /\ TokensKnow'
    BY <2>2, <2>3 DEF IInv, Past, LoginsKnow, TokensKnow, InTime
  <2> QED BY <2>3, <2>7, <2>8, <2>9 DEF IInv
<1>2. CASE NameUser(c)
  <2>1. /\ call[c].pc = "accepted" /\ call' = [call EXCEPT ![c].pc = "done"]
        /\ UNCHANGED <<now, reg, login, tokens, proved, closed, late, gone>>
    BY <1>2 DEF NameUser
  <2>2. call[c].sub \in Users
    BY <2>1 DEF IInv, TypeOK, CallsKnow, Known, Registered, Accounts, AccountRows
  <2>3. SchemaInv' /\ rows'["auth"] = rows["auth"] /\ rows'["ticket"] \subseteq Users /\ objects' = objects
    <3>1. CASE UNCHANGED schemaVars
      BY <3>1, SchemaStutters DEF IInv, TypeOK, schemaVars
    <3>2. CASE /\ "tables" \in objects["ticket"] /\ "fks" \notin objects["ticket"]
               /\ SetRows("ticket", rows["ticket"] \cup {call[c].sub})
      <4>1. "ticket" \in Services /\ Tables["ticket"] \subseteq objects["ticket"]
        BY <3>2 DEF Services, Tables
      <4>2. SchemaInv'
        BY <3>2, <4>1, RowsKeep DEF IInv
      <4> QED BY <2>2, <3>2, <4>1, <4>2 DEF SetRows, IInv, SchemaInv, SchemaTypeOK, Services, TypeOK
    <3> QED BY <1>2, <3>1, <3>2 DEF NameUser
  <2>4. Accounts' = Accounts /\ Registered' = Registered /\ Known' = Known
    BY <2>1, <2>3 DEF Accounts, Registered, Known
  <2>5. TypeOK'
    BY <2>1, <2>3 DEF IInv, TypeOK, SchemaInv, CallStates
  <2>6. OneAccountPerEmail' /\ Registering' /\ ActiveRows' /\ Past'
    BY <2>1, <2>3, <2>4 DEF IInv, OneAccountPerEmail, Registering, ActiveRows, Past
  <2>7. LoginsKnow' /\ TokensKnow' /\ CallsKnow'
    BY <2>1, <2>4 DEF IInv, TypeOK, CallStates, LoginsKnow, TokensKnow, CallsKnow, InTime
  <2> QED BY <2>3, <2>5, <2>6, <2>7 DEF IInv
<1> QED BY <1>1, <1>2 DEF Call
LEMMA TicksKeep == ASSUME IInv, Tick PROVE IInv'
<1>1. UNCHANGED <<schemaVars, reg, login, tokens, call, proved, closed, late, gone>>
  BY DEF Tick
<1>2. now \in Nat /\ now' = now + 1 /\ now' \in 0 .. MaxTime
  BY TimesAssumption DEF Tick, IInv, TypeOK
<1>3. /\ SchemaInv' /\ Accounts' = Accounts /\ Known' = Known /\ rows' = rows
      /\ OneAccountPerEmail' /\ Registering' /\ ActiveRows'
  BY <1>1, DatabasesStay
<1>4. TypeOK'
  BY <1>1, <1>2, <1>3 DEF IInv, TypeOK, SchemaInv
<1>5. Past' /\ LoginsKnow' /\ TokensKnow'
  BY <1>1, <1>2, <1>3 DEF IInv, TypeOK, Past, LoginsKnow, TokensKnow, InTime
<1>6. CallsKnow'
  BY <1>1, <1>2, <1>3 DEF IInv, CallsKnow, InTime
<1> QED BY <1>3, <1>4, <1>5, <1>6 DEF IInv

(* A handler that dies leaves what it committed. *)
LEMMA CrashesKeep == ASSUME IInv, CrashAuth \/ CrashTicket PROVE IInv'
<1>1. CASE CrashAuth
  <2>1. /\ reg' = [q \in Registrations |-> IF reg[q] \in {"checked", "stored"} THEN "failed" ELSE reg[q]]
        /\ login' = [l \in Logins |-> IF login[l].pc = "read" THEN LoggedIn ELSE login[l]]
        /\ UNCHANGED <<now, tokens, call, proved, closed, late, gone>>
    BY <1>1 DEF CrashAuth
  <2>2. SchemaInv' /\ rows' = rows /\ objects' = objects
    BY <1>1, ProcessesKeep DEF IInv, CrashAuth, Crash, Conclude, Services
  <2>3. Accounts' = Accounts /\ Registered' = Registered /\ Known' = Known
    BY <2>1, <2>2 DEF Accounts, Registered, Known
  <2>4. LoggedIn \in LoginStates /\ LoggedIn.pc = "done"
    BY DEF LoggedIn, LoginStates
  <2>5. TypeOK'
    BY <2>1, <2>2, <2>4 DEF IInv, TypeOK, SchemaInv, RegStates
  <2>6. OneAccountPerEmail' /\ Registering' /\ ActiveRows' /\ Past'
    BY <2>1, <2>2, <2>3 DEF IInv, OneAccountPerEmail, Registering, ActiveRows, Past
  <2>7. LoginsKnow' /\ TokensKnow' /\ CallsKnow'
    BY <2>1, <2>3, <2>4 DEF IInv, LoginsKnow, TokensKnow, CallsKnow, InTime
  <2> QED BY <2>2, <2>5, <2>6, <2>7 DEF IInv
<1>2. CASE CrashTicket
  <2>1. /\ call' = [c \in Calls |-> IF call[c].pc = "accepted" THEN [call[c] EXCEPT !.pc = "done"] ELSE call[c]]
        /\ UNCHANGED <<now, reg, login, tokens, proved, closed, late, gone>>
    BY <1>2 DEF CrashTicket
  <2>2. SchemaInv' /\ rows' = rows /\ objects' = objects
    BY <1>2, ProcessesKeep DEF IInv, CrashTicket, Crash, Conclude, Services
  <2>3. Accounts' = Accounts /\ Registered' = Registered /\ Known' = Known
    BY <2>1, <2>2 DEF Accounts, Registered, Known
  <2>4. TypeOK'
    BY <2>1, <2>2 DEF IInv, TypeOK, SchemaInv, CallStates
  <2>5. OneAccountPerEmail' /\ Registering' /\ ActiveRows' /\ Past'
    BY <2>1, <2>2, <2>3 DEF IInv, OneAccountPerEmail, Registering, ActiveRows, Past
  <2>6. LoginsKnow' /\ TokensKnow'
    BY <2>1, <2>3 DEF IInv, LoginsKnow, TokensKnow, InTime
  <2>7. CallsKnow'
    BY <2>1, <2>3 DEF IInv, TypeOK, CallStates, CallsKnow, InTime
  <2> QED BY <2>2, <2>4, <2>5, <2>6, <2>7 DEF IInv
<1> QED BY <1>1, <1>2

LEMMA StepsKeep == ASSUME IInv, [Next]_vars PROVE IInv'
<1>1. CASE UNCHANGED vars
  <2>1. SchemaInv' /\ rows' = rows /\ objects' = objects /\ UNCHANGED authVars
    BY <1>1, SchemaStutters DEF IInv, vars, schemaVars
  <2> QED BY <2>1, AccountsStay DEF IInv, TypeOK
<1>2. CASE Next
  BY <1>2, MigrationsKeep, StartsKeep, RegistrationsKeep, LoginsKeep, CallsKeep, DeactivationsKeep,
     ForgetKeeps, TicksKeep, CrashesKeep DEF Next
<1> QED BY <1>1, <1>2

LEMMA Starts == Init => IInv
<1> SUFFICES ASSUME Init PROVE IInv
  OBVIOUS
<1>1. SchemaInv
  BY SchemaStarts DEF Init
<1>2. rows["auth"] = {} /\ rows["ticket"] = {}
  BY DEF Init, SchemaInit, Services
<1>3. Accounts = {} /\ Registered = {} /\ Known = {}
  BY <1>2 DEF Init, Accounts, Registered, Known
<1>4. NewLogin \in LoginStates /\ NewLogin.pc = "new" /\ NewCall \in CallStates /\ NewCall.pc = "new"
  BY DEF NewLogin, LoginStates, NewCall, CallStates
<1>5. TypeOK
  BY <1>1, <1>2, <1>4, TimesAssumption DEF Init, TypeOK, SchemaInv, RegStates, Users
<1> QED
  BY <1>1, <1>3, <1>4, <1>5 DEF Init, IInv, OneAccountPerEmail, Registering, ActiveRows, Past,
     LoginsKnow, TokensKnow, CallsKnow, Users

LEMMA Invariance == Spec => []IInv
  BY Starts, StepsKeep, PTL DEF Spec

-----------------------------------------------------------------------------
(* Every component of the state has its type. *)
THEOREM TypeCorrect == Spec => []TypeOK
<1>1. IInv => TypeOK
  BY DEF IInv
<1> QED BY <1>1, Invariance, PTL

(* However migrations and starting services interleave, the version table  *)
(* of a database says what is in it.                                       *)
THEOREM VersionsAreTrue == Spec => []VersionTruth
<1>1. IInv => VersionTruth
  BY DEF IInv, SchemaInv
<1> QED BY <1>1, Invariance, PTL

(* No race of create_all leaves a service up without its tables.           *)
THEOREM UpWithTables == Spec => []ServesItsTables
<1>1. IInv => ServesItsTables
  BY DEF IInv, SchemaInv
<1> QED BY <1>1, Invariance, PTL

(* A database that create_all or a downgrade got to first never comes      *)
(* under the control of Alembic again.                                     *)
THEOREM FirstOrNever == Spec => NeverAdopted
<1>1. ASSUME IInv, [Next]_vars
      PROVE  [\A s \in Services : version[s] = 0 /\ objects[s] # {} => version'[s] = 0]_schemaVars
  <2>1. CASE UNCHANGED version
    BY <2>1 DEF Services
  <2>2. CASE MigrateTicket
    BY <1>1, <2>2 DEF IInv, SchemaInv, SchemaTypeOK, VersionTruth, Services, MigrateTicket,
       CreateTicketTables, DropTicketTables, RemoveUsers, RestoreUsers, Execute
  <2>3. CASE CreateAuthUsers \/ DropAuthUsers
    BY <1>1, <2>3 DEF IInv, SchemaInv, SchemaTypeOK, VersionTruth, Services, CreateAuthUsers,
       DropAuthUsers, Execute
  <2>4. UNCHANGED version \/ MigrateTicket \/ CreateAuthUsers \/ DropAuthUsers
    BY <1>1 DEF Next, vars, schemaVars, Migrate, Start, CheckTables, Look, CreateMissing, FailStart,
       Conclude, Register, CheckEmail, InsertUser, AnswerCreated, Login, ReadAccount, Read, IssueToken,
       Call, Authenticate, NameUser, Deactivate, ForgetUser, SetRows, Tick, CrashAuth, CrashTicket, Crash
  <2> QED BY <2>1, <2>2, <2>3, <2>4
<1> QED BY <1>1, Invariance, PTL DEF Spec, NeverAdopted

(* Racing registrations make one account of an email. *)
THEOREM UniqueEmails == Spec => []OneAccountPerEmail
<1>1. IInv => OneAccountPerEmail
  BY DEF IInv
<1> QED BY <1>1, Invariance, PTL

(* A client told 201 has its account, with the password it chose, until    *)
(* the table is dropped.                                                   *)
CreatedIsTrue == \A q \in Registrations : reg[q] = "created" => q \in Known

(* So of two registrations racing for an email one is told 201 at most.    *)
THEOREM CreatedAccountsExist == Spec => []CreatedIsTrue
<1>1. IInv => CreatedIsTrue
  BY DEF IInv, Registering, CreatedIsTrue
<1> QED BY <1>1, Invariance, PTL

(* Whoever a call names has shown the password TTL before it at most.      *)
THEOREM CallersProved == Spec => []CallsProven
<1>1. IInv => CallsProven
  BY DEF IInv, CallsKnow, InTime, CallsProven
<1> QED BY <1>1, Invariance, PTL

(* A call is taken TTL after the deactivation of its account at most, but  *)
(* for the tokens of logins that were running then.                        *)
THEOREM TokensExpire == Spec => []DeactivationTakesHold
<1>1. IInv => DeactivationTakesHold
  BY DEF IInv, CallsKnow, InTime, DeactivationTakesHold
<1> QED BY <1>1, Invariance, PTL

(* What the two services say of a token differs only over accounts that    *)
(* were deactivated or dropped.                                            *)
THEOREM VerifiersAgree == Spec => []VerdictsAgree
<1>1. ASSUME IInv PROVE VerdictsAgree
  <2> SUFFICES ASSUME NEW t \in tokens
               PROVE  /\ MeAccepts(t) => TicketAccepts(t) /\ closed[t.sub] = None
                      /\ TicketAccepts(t) /\ ~MeAccepts(t) => closed[t.sub] # None \/ t.sub \in gone
    BY DEF VerdictsAgree
  <2>1. t.sub \in Registered \cup gone
    BY <1>1 DEF IInv, TokensKnow, Known
  <2>2. \A a \in Accounts : a.active <=> closed[a.id] = None
    BY <1>1 DEF IInv, ActiveRows
  <2> QED BY <2>1, <2>2 DEF MeAccepts, TicketAccepts, Registered
<1> QED BY <1>1, Invariance, PTL

(* An id, once an account's, is known for good. *)
LEMMA NothingForgotten == ASSUME IInv, [Next]_vars PROVE Known \subseteq Known'
<1>1. CASE gone' = gone /\ rows'["auth"] = rows["auth"]
  BY <1>1 DEF Known, Registered, Accounts
<1>2. CASE gone' = gone /\ \E q \in Registrations : SetRows("auth", Accounts \cup {Row(q)})
  <2>1. Accounts \subseteq Accounts'
    BY <1>2 DEF IInv, SchemaInv, SchemaTypeOK, SetRows, Services, Accounts
  <2> QED BY <1>2, <2>1 DEF Known, Registered
<1>3. CASE gone' = gone \cup Registered
  BY <1>3 DEF Known
<1>4. CASE \E a \in Accounts : Deactivate(a)
  <2>1. PICK a \in Accounts : Deactivate(a)
    BY <1>4
  <2>2. a \in AccountRows
    BY DEF IInv, TypeOK, Accounts
  <2>3. [a EXCEPT !.active = FALSE].id = a.id
    BY <2>2 DEF AccountRows
  <2>4. Accounts' = (Accounts \ {a}) \cup {[a EXCEPT !.active = FALSE]} /\ gone' = gone
    BY <2>1 DEF IInv, SchemaInv, SchemaTypeOK, Deactivate, SetRows, Services, Accounts
  <2> QED BY <2>3, <2>4 DEF Known, Registered
<1>5. \/ gone' = gone /\ rows'["auth"] = rows["auth"]
      \/ gone' = gone /\ \E q \in Registrations : SetRows("auth", Accounts \cup {Row(q)})
      \/ gone' = gone \cup Registered
      \/ \E a \in Accounts : Deactivate(a)
  <2>1. CASE UNCHANGED vars
    BY <2>1 DEF vars, schemaVars, authVars
  <2>2. CASE Migrate
    BY <2>2 DEF IInv, SchemaInv, SchemaTypeOK, Services, Migrate, MigrateTicket, CreateTicketTables,
       DropTicketTables, RemoveUsers, RestoreUsers, CreateAuthUsers, Execute, KeepRows, DropRows, authVars
  <2>3. CASE \E s \in Services : Start(s) /\ UNCHANGED authVars
    BY <2>3 DEF Start, CheckTables, Look, CreateMissing, FailStart, Conclude, authVars
  <2>4. CASE \E q \in Registrations : Register(q)
    BY <2>4 DEF Register, CheckEmail, InsertUser, AnswerCreated, schemaVars
  <2>5. CASE \E l \in Logins : Login(l)
    BY <2>5 DEF Login, ReadAccount, Read, IssueToken, schemaVars
  <2>6. CASE (\E c \in Calls : Call(c)) \/ (\E u \in Users : ForgetUser(u))
    BY <2>6 DEF IInv, SchemaInv, SchemaTypeOK, Services, Call, Authenticate, NameUser, ForgetUser, SetRows,
       schemaVars, authVars
  <2>7. CASE Tick \/ CrashAuth \/ CrashTicket
    BY <2>7 DEF Tick, CrashAuth, CrashTicket, Crash, Conclude, schemaVars
  <2>8. CASE \E a \in Accounts : Deactivate(a)
    BY <2>8
  <2> QED BY <2>1, <2>2, <2>3, <2>4, <2>5, <2>6, <2>7, <2>8 DEF Next
<1> QED BY <1>1, <1>2, <1>3, <1>4, <1>5

(* No foreign key is needed: the rows of the ticket service name accounts. *)
THEOREM RowsNameAccounts == Spec => []NoOrphans
<1>1. Init => NoOrphans
  BY DEF Init, SchemaInit, NoOrphans, Services
<1>2. ASSUME IInv, NoOrphans, [Next]_vars PROVE NoOrphans'
  <2>1. Known \subseteq Known'
    BY <1>2, NothingForgotten
  <2>2. rows'["ticket"] \subseteq Known
    <3>1. CASE rows'["ticket"] \subseteq rows["ticket"]
      BY <1>2, <3>1 DEF NoOrphans, Known
    <3>2. CASE \E c \in Calls : NameUser(c)
      <4>1. PICK c \in Calls : NameUser(c)
        BY <3>2
      <4>2. call[c].sub \in Known
        BY <1>2, <4>1 DEF IInv, CallsKnow, NameUser
      <4>3. rows'["ticket"] \subseteq rows["ticket"] \cup {call[c].sub}
        BY <1>2, <4>1 DEF IInv, SchemaInv, SchemaTypeOK, Services, NameUser, SetRows, schemaVars
      <4> QED BY <1>2, <4>2, <4>3 DEF NoOrphans, Known
    <3>3. rows'["ticket"] \subseteq rows["ticket"] \/ \E c \in Calls : NameUser(c)
      <4>1. CASE UNCHANGED vars
        BY <4>1 DEF vars, schemaVars
      <4>2. CASE Migrate
        BY <1>2, <4>2 DEF IInv, SchemaInv, SchemaTypeOK, Services, Migrate, MigrateTicket, CreateTicketTables,
           DropTicketTables, RemoveUsers, RestoreUsers, CreateAuthUsers, DropAuthUsers, Execute, KeepRows, DropRows
      <4>3. CASE \E s \in Services : Start(s) /\ UNCHANGED authVars
        BY <4>3 DEF Start, CheckTables, Look, CreateMissing, FailStart, Conclude
      <4>4. CASE \E q \in Registrations : Register(q)
        BY <1>2, <4>4 DEF IInv, SchemaInv, SchemaTypeOK, Services, Register, CheckEmail, InsertUser,
           AnswerCreated, SetRows, schemaVars
      <4>5. CASE \E l \in Logins : Login(l)
        BY <4>5 DEF Login, ReadAccount, Read, IssueToken, schemaVars
      <4>6. CASE (\E c \in Calls : Call(c)) \/ (\E u \in Users : ForgetUser(u))
        BY <1>2, <4>6 DEF IInv, SchemaInv, SchemaTypeOK, Services, Call, Authenticate, ForgetUser, SetRows,
           schemaVars
      <4>7. CASE Tick \/ CrashAuth \/ CrashTicket
        BY <4>7 DEF Tick, CrashAuth, CrashTicket, Crash, Conclude, schemaVars
      <4>8. CASE \E a \in Accounts : Deactivate(a)
        BY <1>2, <4>8 DEF IInv, SchemaInv, SchemaTypeOK, Services, Deactivate, SetRows
      <4> QED BY <1>2, <4>1, <4>2, <4>3, <4>4, <4>5, <4>6, <4>7, <4>8 DEF Next
    <3> QED BY <3>1, <3>2, <3>3
  <2> QED BY <2>1, <2>2 DEF NoOrphans, Known
<1> QED BY <1>1, <1>2, Invariance, PTL DEF Spec
=============================================================================
