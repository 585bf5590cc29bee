------------------------------- MODULE Schema -------------------------------
(***************************************************************************)
(* The databases of the ticket service and of the auth service: what their *)
(* Alembic revisions do, what the create_all of a starting service does,   *)
(* and how the two race.                                                   *)
(*                                                                         *)
(* A database is the set of things in it, in as much detail as the scripts *)
(* tell apart.  DDL is transactional in PostgreSQL: a revision that finds  *)
(* what it creates, or misses what it drops, fails and changes nothing.    *)
(* Alembic runs all the revisions asked for in one transaction; they are   *)
(* steps of their own here, because a command may ask for any number.      *)
(* create_all looks first and creates what it missed afterwards, in a      *)
(* transaction of its own; if that fails the process exits and Docker      *)
(* starts it again.                                                        *)
(***************************************************************************)
EXTENDS Integers, FiniteSets

CONSTANT MaxCrashes  \* bound of the crashes of both services

ASSUME CrashesAssumption == MaxCrashes \in Nat

VARIABLES
    objects,  \* what there is in each database
    version,  \* alembic_version: the revisions applied
    rows,     \* tickets: the users its rows name; accounts: its rows
    proc,     \* each service's process
    found,    \* whether create_all saw the service's tables when it looked
    dropped,  \* history: services whose tables were dropped since they looked
    crashes   \* crashes so far

schemaVars == <<objects, version, rows, proc, found, dropped, crashes>>

Services == {"ticket", "auth"}

(* "tables" are the six tables of the ticket service and "types" their two *)
(* enum types; "fks" are the foreign keys that name users.                 *)
Objects == {"users", "emailIndex", "tables", "types", "fks"}

(* What the models of a service declare: its tables with their indexes,    *)
(* which are created and dropped together, and its enum types.             *)
Tables == [ticket |-> {"tables"}, auth |-> {"users", "emailIndex"}]
Types == [ticket |-> {"types"}, auth |-> {}]

-----------------------------------------------------------------------------
(* The revisions *)

Execute(s, from, to, creates, drops) ==
    /\ version[s] = from
    /\ creates \cap objects[s] = {} /\ drops \subseteq objects[s]
    /\ version' = [version EXCEPT ![s] = to]
    /\ objects' = [objects EXCEPT ![s] = (@ \ drops) \cup creates]
    /\ UNCHANGED <<proc, found, crashes>>

KeepRows == UNCHANGED <<rows, dropped>>
DropRows(s) ==
    /\ rows' = [rows EXCEPT ![s] = {}]
    /\ dropped' = dropped \cup {s}

CreateTicketTables_IfMissing ==
    Execute("ticket", 0, 1, {"users", "tables", "types", "fks"} \ objects["ticket"], {}) /\ KeepRows

(* CREATE TABLE and CREATE TYPE have no IF NOT EXISTS. *)
CreateTicketTables == Execute("ticket", 0, 1, {"users", "tables", "types", "fks"}, {}) /\ KeepRows

(* DROP TABLE leaves the enum types behind. *)
DropTicketTables == Execute("ticket", 1, 0, {}, {"users", "tables", "fks"}) /\ DropRows("ticket")

RemoveUsers_KeepsTable == Execute("ticket", 1, 2, {}, {"fks"}) /\ KeepRows

RemoveUsers == Execute("ticket", 1, 2, {}, {"users", "fks"}) /\ KeepRows

(* The users table comes back empty, so no row may name a user. *)
RestoreUsers ==
    /\ rows["ticket"] = {}
    /\ Execute("ticket", 2, 1, {"users", "fks"}, {}) /\ KeepRows

CreateAuthUsers_NoIndex == Execute("auth", 0, 1, {"users"}, {}) /\ KeepRows

CreateAuthUsers == Execute("auth", 0, 1, {"users", "emailIndex"}, {}) /\ KeepRows

DropAuthUsers == Execute("auth", 1, 0, {}, {"users", "emailIndex"}) /\ DropRows("auth")

MigrateTicket == CreateTicketTables \/ DropTicketTables \/ RemoveUsers \/ RestoreUsers

-----------------------------------------------------------------------------
(* The start of a service *)

Look(s, sees) ==
    /\ proc[s] = "down"
    /\ proc' = [proc EXCEPT ![s] = "checked"]
    /\ found' = [found EXCEPT ![s] = sees]
    /\ dropped' = dropped \ {s}
    /\ UNCHANGED <<objects, version, rows, crashes>>

(* create_all(checkfirst=False) *)
CheckTables_Never(s) == Look(s, FALSE)
CheckTables(s) == Look(s, Tables[s] \cap objects[s] # {})

Missing(s) == IF found[s] THEN {} ELSE Tables[s]
Conclude(s, state) ==
    /\ proc' = [proc EXCEPT ![s] = state]
    /\ found' = [found EXCEPT ![s] = FALSE]
    /\ UNCHANGED <<version, rows, dropped>>

(* Base.metadata knows only the models that were imported. *)
CreateMissing_NoModels(s) ==
    /\ proc[s] = "checked" /\ UNCHANGED <<objects, crashes>> /\ Conclude(s, "up")

(* Types are looked for again just before they are created. *)
CreateMissing(s) ==
    /\ proc[s] = "checked" /\ Missing(s) \cap objects[s] = {}
    /\ objects' = [objects EXCEPT ![s] = @ \cup Missing(s) \cup Types[s]]
    /\ UNCHANGED crashes /\ Conclude(s, "up")

(* A migration created them in between: the process exits. *)
FailStart(s) ==
    /\ proc[s] = "checked" /\ Missing(s) \cap objects[s] # {}
    /\ UNCHANGED <<objects, crashes>> /\ Conclude(s, "down")

Crash(s) ==
    /\ proc[s] # "down" /\ crashes < MaxCrashes
    /\ crashes' = crashes + 1
    /\ UNCHANGED objects /\ Conclude(s, "down")

Start(s) == CheckTables(s) \/ CreateMissing(s) \/ FailStart(s)

SchemaInit ==
    /\ objects = [s \in Services |-> {}]
    /\ version = [s \in Services |-> 0]
    /\ rows = [s \in Services |-> {}]
    /\ proc = [s \in Services |-> "down"]
    /\ found = [s \in Services |-> FALSE]
    /\ dropped = {}
    /\ crashes = 0

-----------------------------------------------------------------------------
SchemaTypeOK ==
    /\ objects \in [Services -> SUBSET Objects]
    /\ version \in [Services -> 0 .. 2] /\ version["auth"] # 2
    /\ DOMAIN rows = Services
    /\ proc \in [Services -> {"down", "checked", "up"}]
    /\ found \in [Services -> BOOLEAN]
    /\ dropped \subseteq Services
    /\ crashes \in 0 .. MaxCrashes

(* What the version table says is what there is, whatever the starting     *)
(* services created in between: base has no trace of the foreign keys,     *)
(* the first ticket revision has the users table they need, the second     *)
(* neither; and no row names a user while nothing fills that table.  So    *)
(* the revision that is due next, up or down, finds what it drops.         *)
VersionTruth ==
    /\ version["ticket"] = 0 => objects["ticket"] \subseteq {"tables", "types"}
    /\ version["ticket"] = 1 => objects["ticket"] = {"users", "tables", "types", "fks"}
    /\ version["ticket"] = 2 => objects["ticket"] = {"tables", "types"}
    /\ version["auth"] = 0 => objects["auth"] \in {{}, {"users", "emailIndex"}}
    /\ version["auth"] = 1 => objects["auth"] = {"users", "emailIndex"}
    /\ "fks" \in objects["ticket"] => rows["ticket"] = {}

(* A service that is up has the tables of its models, unless they were     *)
(* dropped after its create_all looked: losing the race against a          *)
(* migration never leaves it up without them.                              *)
ServesItsTables ==
    \A s \in Services : proc[s] = "up" /\ s \notin dropped => Tables[s] \subseteq objects[s]

(* Migrations come first or never: once anything is in a database that     *)
(* Alembic has no version of (create_all came first, or a downgrade to     *)
(* base left the enum types), no upgrade of it succeeds again.             *)
NeverAdopted ==
    [][\A s \in Services : version[s] = 0 /\ objects[s] # {} => version'[s] = 0]_schemaVars

(* A service that is down, or that lost the race of create_all, comes up   *)
(* once the operator stops migrating its database.                         *)
Migrates(s) == version[s]' # version[s]
ComesUp ==
    \A s \in Services :
        <>[][~Migrates(s)]_schemaVars => (proc[s] # "up" ~> proc[s] = "up")
=============================================================================
