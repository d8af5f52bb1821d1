------------------------------- MODULE Startup -------------------------------
(***************************************************************************)
(* What a process does to the database before it serves: it runs the       *)
(* migration files in order, each once, and records each in                *)
(* migrations_applied.  Looking whether a file is recorded, its statements *)
(* and the record are separate calls, and nothing locks the database, so   *)
(* two processes that start together mix theirs.  A failed call ends the   *)
(* process (log.Fatalf) and it is started again.                           *)
(*                                                                         *)
(* A table is the set of its columns and indexes that some file changes,   *)
(* and "base" for all that it is created with and keeps; a table that does *)
(* not exist is the empty set.  The database is MariaDB, for which the     *)
(* files are written: MySQL, which README.md names as well, has no         *)
(* IF [NOT] EXISTS on columns and indexes and fails at 004.                *)
(***************************************************************************)
EXTENDS Integers, Sequences

CONSTANTS
  Replicas,  \* API processes that share the database
  MaxFaults   \* how often a process is stopped or a call of it fails

ASSUME FaultsAssumption == MaxFaults \in Nat

Tables == {"sessions", "users", "settings", "instances", "sso_sessions",
           "api_tokens", "oidc_sessions", "oidc_login_states"}

-------------------------------------------------------------------------------
(* The statements the files are made of.                                    *)

\* CREATE TABLE IF NOT EXISTS, with the table a foreign key refers to.
CreateTable(t, columns, refers) ==
  [do |-> "create", table |-> t, gone |-> {}, new |-> columns, needs |-> {}, refers |-> refers]

\* ALTER TABLE that adds, drops or modifies IF [NOT] EXISTS: run again it
\* changes nothing.  An index needs its columns, ADD ... AFTER the one before.
AlterTable(t, gone, new, needs) ==
  [do |-> "alter", table |-> t, gone |-> gone, new |-> new, needs |-> needs, refers |-> {}]

\* ALTER TABLE ... CHANGE COLUMN IF EXISTS old new.
RenameColumn(t, old, new) ==
  [do |-> "rename", table |-> t, gone |-> {old}, new |-> {new}, needs |-> {}, refers |-> {}]

\* DROP TABLE IF EXISTS.
DropTable(t) ==
  [do |-> "drop", table |-> t, gone |-> {}, new |-> {}, needs |-> {}, refers |-> {}]

FailsIfThere(s, db) ==
  IF s.do = "create" THEN db[s.table] # {} ELSE s.do # "drop" /\ db[s.table] = {}

\* An ALTER needs its table, and columns unless what it adds is there; a foreign
\* key needs the table it refers to.
Fails(s, db) ==
  \/ s.do \in {"alter", "rename"} /\ db[s.table] = {}
  \/ ~(s.new \subseteq db[s.table]) /\ ~(s.needs \subseteq db[s.table])
  \/ s.do = "create" /\ db[s.table] = {} /\ \E t \in s.refers : db[t] = {}

\* The table after statement s.
Outcome(s, columns) ==
  CASE s.do = "create" -> IF columns = {} THEN s.new ELSE columns
    [] s.do = "alter"  -> (columns \ s.gone) \cup s.new
    [] s.do = "rename" ->
         IF s.gone \subseteq columns THEN (columns \ s.gone) \cup s.new ELSE columns
    [] s.do = "drop"   -> {}

Run(db, s) == [db EXCEPT ![s.table] = Outcome(s, @)]

-------------------------------------------------------------------------------
(* The files, by number.                                                    *)

CreateSessions == <<CreateTable("sessions", {"base", "forta_user_id", "idx_forta_user_id"}, {})>>
CreateUsers == <<CreateTable("users", {"base"}, {})>>
CreateSettings == <<CreateTable("settings", {"base"}, {})>>
RenameFortaUserId ==
  <<RenameColumn("sessions", "forta_user_id", "user_id"),
    AlterTable("sessions", {"idx_forta_user_id"}, {}, {}),
    AlterTable("sessions", {}, {"idx_user_id"}, {"user_id"})>>
CreateInstances == <<CreateTable("instances", {"base"}, {})>>
CreateSsoSessions == <<CreateTable("sso_sessions", {"base", "refresh_token_not_null"}, {"users"})>>
CreateApiTokens == <<CreateTable("api_tokens", {"base"}, {})>>
AddTokensRevokedAt == <<AlterTable("users", {}, {"tokens_revoked_at"}, {})>>
RelaxSsoRefreshToken ==
  <<AlterTable("sso_sessions", {"refresh_token_not_null"}, {"refresh_token_null"}, {})>>
SsoSessionBackchannel ==
  <<AlterTable("sso_sessions", {}, {"subject"}, {}),
    AlterTable("sso_sessions", {}, {"sid"}, {"subject"}),
    AlterTable("sso_sessions", {}, {"provider"}, {}),
    AlterTable("sso_sessions", {}, {"idx_provider_sid"}, {"provider", "sid"}),
    AlterTable("sso_sessions", {}, {"idx_provider_subject"}, {"provider", "subject"})>>
OidcSessions ==
  <<CreateTable("oidc_sessions", {"base"}, {}), CreateTable("oidc_login_states", {"base"}, {})>>
DropSsoSessions == <<DropTable("sso_sessions")>>

Migrations ==
  <<CreateSessions, CreateUsers, CreateSettings, RenameFortaUserId,
    CreateInstances, CreateSsoSessions, CreateApiTokens, AddTokensRevokedAt,
    RelaxSsoRefreshToken, SsoSessionBackchannel, OidcSessions, DropSsoSessions>>

Files == 1 .. Len(Migrations)
Columns ==
  {"base", "forta_user_id", "idx_forta_user_id", "user_id", "idx_user_id",
   "tokens_revoked_at", "refresh_token_not_null", "refresh_token_null",
   "subject", "sid", "provider", "idx_provider_sid", "idx_provider_subject"}

-------------------------------------------------------------------------------
VARIABLES
  schema,     \* the tables
  applied,    \* the files migrations_applied records
  phase,      \* where each process is
  file,       \* the file it is at
  stmt,       \* the statement of the file it is at
  faults,     \* faults so far
  raced       \* history: two processes ran the file of sso_sessions at the same time

place == <<phase, file, stmt>>
migrationVars == <<schema, applied, place, faults, raced>>

Migrating == {"check", "execute", "record"}

\* A new database.  One that an earlier release has migrated is what a process
\* leaves that is stopped between two files.
MigrationInit ==
  /\ schema = [t \in Tables |-> {}]
  /\ applied = {}
  /\ phase = [p \in Replicas |-> "stopped"]
  /\ file = [p \in Replicas |-> 1]
  /\ stmt = [p \in Replicas |-> 1]
  /\ faults = 0
  /\ raced = FALSE

Exit(p) ==
  /\ phase' = [phase EXCEPT ![p] = "stopped"]
  /\ UNCHANGED <<file, stmt>>

NextFileLate(p) ==
  /\ phase' = [phase EXCEPT ![p] = IF file[p] > Len(Migrations) THEN "serving" ELSE "check"]
  /\ file' = [file EXCEPT ![p] = @ + 1]
  /\ UNCHANGED stmt

\* On to the next file; after the last one the process goes on to serve.
NextFile(p) ==
  /\ phase' = [phase EXCEPT ![p] = IF file[p] = Len(Migrations) THEN "serving" ELSE "check"]
  /\ file' = [file EXCEPT ![p] = IF @ = Len(Migrations) THEN @ ELSE @ + 1]
  /\ UNCHANGED stmt

\* main up to the first look at migrations_applied.
Start(p) ==
  /\ phase[p] = "stopped"
  /\ phase' = [phase EXCEPT ![p] = "check"]
  /\ file' = [file EXCEPT ![p] = 1]
  /\ UNCHANGED <<schema, applied, stmt, faults, raced>>

\* Another process is past its look at file f and has not recorded it.
OthersAt(p, f) == \E q \in Replicas \ {p} : phase[q] \in {"execute", "record"} /\ file[q] = f

\* From the first statement of the file.
BeginFile(p) ==
  /\ phase' = [phase EXCEPT ![p] = "execute"]
  /\ stmt' = [stmt EXCEPT ![p] = 1]
  /\ raced' = (raced \/ (Migrations[file[p]] = CreateSsoSessions /\ OthersAt(p, file[p])))
  /\ UNCHANGED file

RecordFirst(p) ==
  /\ phase[p] = "check"
  /\ applied' = applied \cup {file[p]}
  /\ IF file[p] \in applied
     THEN NextFile(p) /\ UNCHANGED raced
     ELSE BeginFile(p)
  /\ UNCHANGED <<schema, faults>>

\* SELECT COUNT(*) FROM migrations_applied: a recorded file is skipped.
Check(p) ==
  /\ phase[p] = "check"
  /\ IF file[p] \in applied
     THEN NextFile(p) /\ UNCHANGED raced
     ELSE BeginFile(p)
  /\ UNCHANGED <<schema, applied, faults>>

\* One statement of the file.  The database commits each on its own; the
\* first that fails ends the process.
Execute(p) ==
  /\ phase[p] = "execute"
  /\ LET s == Migrations[file[p]][stmt[p]] IN
     IF Fails(s, schema)
     THEN Exit(p) /\ UNCHANGED schema
     ELSE /\ schema' = Run(schema, s)
          /\ IF stmt[p] = Len(Migrations[file[p]])
             THEN phase' = [phase EXCEPT ![p] = "record"] /\ UNCHANGED stmt
             ELSE stmt' = [stmt EXCEPT ![p] = @ + 1] /\ UNCHANGED phase
          /\ UNCHANGED file
  /\ UNCHANGED <<applied, faults, raced>>

\* INSERT INTO migrations_applied: the name is the primary key, so a file
\* another process recorded meanwhile ends this one.
Record(p) ==
  /\ phase[p] = "record"
  /\ applied' = applied \cup {file[p]}
  /\ IF file[p] \in applied THEN Exit(p) ELSE NextFile(p)
  /\ UNCHANGED <<schema, faults, raced>>

\* The database does not answer, an answer is lost, or the process is killed:
\* what has been executed stands, and the process ends.
Stop(p) ==
  /\ phase[p] # "stopped"
  /\ faults < MaxFaults
  /\ faults' = faults + 1
  /\ Exit(p)
  /\ UNCHANGED <<schema, applied, raced>>

Proceed(p) == Start(p) \/ Check(p) \/ Execute(p) \/ Record(p)

MigrationNext == \E p \in Replicas : Proceed(p) \/ Stop(p)

\* A stopped process is started again (restart: unless-stopped) and a running
\* one goes on; faults are free to happen or not.
MigrationSpec ==
  MigrationInit /\ [][MigrationNext]_migrationVars /\ \A p \in Replicas : WF_migrationVars(Proceed(p))

-------------------------------------------------------------------------------
\* Type invariant.
SchemaTypeOK ==
  /\ schema \in [Tables -> SUBSET Columns]
  /\ applied \subseteq Files
  /\ phase \in [Replicas -> {"stopped", "serving"} \cup Migrating]
  /\ file \in [Replicas -> Files]
  /\ stmt \in [Replicas -> Nat]
  /\ \A p \in Replicas : stmt[p] \in DOMAIN Migrations[file[p]] \/ phase[p] # "execute"
  /\ faults \in 0 .. MaxFaults
  /\ raced \in BOOLEAN

\* What the queries of this release use.
Needed ==
  [t \in Tables |->
    CASE t = "sessions" -> {"base", "user_id"}
      [] t = "users" -> {"base", "tokens_revoked_at"}
      [] t = "sso_sessions" -> {}
      [] OTHER -> {"base"}]

\* A process that serves finds every table and column its queries use, however
\* its start-up was interrupted and whatever another process that is still
\* migrating does to the tables meanwhile.
ServesOnFullSchema ==
  \A p \in Replicas : phase[p] = "serving" => \A t \in Tables : Needed[t] \subseteq schema[t]

\* 012 drops sso_sessions for good, unless a process that had looked at 006
\* before another recorded it creates the table again after the drop.
LeftoverOnlyWhenRaced ==
  Len(Migrations) \in applied /\ schema["sso_sessions"] # {} => raced

\* Once the faults are over every process gets to serve and goes on serving:
\* a file that ran half, or ran and was not recorded, runs again without
\* error, and losing a race ends a process only for a while.
EveryProcessServes == \A p \in Replicas : <>[](phase[p] = "serving")
===============================================================================
