---------------------------- MODULE DatabaseProofs ----------------------------
(***************************************************************************)
(* What holds of the database that all processes share.                    *)
(*                                                                         *)
(* First its tables, while processes migrate them (Startup), for any       *)
(* number of processes and of faults.  Then the rows of its table of users *)
(* (Accounts), for any processes, sign-ins, subjects and emails, and       *)
(* whether a first administrator is configured or not.                     *)
(***************************************************************************)
EXTENDS Startup, Accounts, FiniteSetTheorems, TLAPS

-------------------------------------------------------------------------------
(* The tables: what the proof says of a state.                              *)

\* Process p has executed statement i of file f.
Executed(p, f, i) ==
  /\ file[p] = f
  /\ phase[p] = "record" \/ (phase[p] = "execute" /\ stmt[p] > i)

\* Some process has, or the whole file is recorded.
Done(f, i) == f \in applied \/ \E p \in Replicas : Executed(p, f, i)

\* What stays once it is done: from statement i of file f on table t has column c.
Lasting ==
  {<<1, 1, "sessions", "base">>, <<4, 1, "sessions", "user_id">>,
   <<2, 1, "users", "base">>, <<8, 1, "users", "tokens_revoked_at">>,
   <<3, 1, "settings", "base">>, <<5, 1, "instances", "base">>,
   <<7, 1, "api_tokens", "base">>, <<11, 1, "oidc_sessions", "base">>,
   <<11, 2, "oidc_login_states", "base">>}

\* A table that is there was created whole, and sessions refers to a user under
\* the old name of the column or the new one.
Whole(db) ==
  /\ \A t \in Tables \ {"sso_sessions"} : db[t] # {} => "base" \in db[t]
  /\ db["sessions"] # {} => "forta_user_id" \in db["sessions"] \/ "user_id" \in db["sessions"]

\* There is no table sso_sessions.
Dropped(db) == db["sso_sessions"] = {}

ColumnsInv ==
  /\ Whole(schema)
  /\ \A e \in Lasting : Done(e[1], e[2]) => e[4] \in schema[e[3]]

\* Files are recorded in order, and a process is past recorded ones only.
OrderInv ==
  /\ \A f \in applied, g \in Files : g < f => g \in applied
  /\ \A p \in Replicas : phase[p] \in Migrating => \A g \in Files : g < file[p] => g \in applied
  /\ \A p \in Replicas : phase[p] = "serving" => applied = Files

\* Process p is at the file that creates sso_sessions, past its look.
Creating(p) == file[p] = 6 /\ phase[p] \in {"execute", "record"}

\* Without a race one process at a time is at that file, none once it is
\* recorded, and so none once sso_sessions is dropped.
RaceInv ==
  ~raced =>
    /\ \A p, q \in Replicas : Creating(p) /\ Creating(q) => p = q
    /\ \A p \in Replicas : Creating(p) => 6 \notin applied
    /\ Done(12, 1) => Dropped(schema)

MigrationInv == SchemaTypeOK /\ OrderInv /\ ColumnsInv /\ RaceInv

-------------------------------------------------------------------------------
(* The statements.                                                          *)


LEMMA FileCount == Len(Migrations) = 12 /\ Files = 1 .. 12
<1>1. Len(Migrations) = 12
  BY DEF Migrations
<1>. QED
  BY <1>1 DEF Files

\* The files, each with its statements.
LEMMA FileBodies ==
  /\ Migrations[1] = CreateSessions
  /\ Len(CreateSessions) = 1 /\ DOMAIN CreateSessions = 1 .. 1
  /\ Migrations[2] = CreateUsers
  /\ Len(CreateUsers) = 1 /\ DOMAIN CreateUsers = 1 .. 1
  /\ Migrations[3] = CreateSettings
  /\ Len(CreateSettings) = 1 /\ DOMAIN CreateSettings = 1 .. 1
  /\ Migrations[4] = RenameFortaUserId
  /\ Len(RenameFortaUserId) = 3 /\ DOMAIN RenameFortaUserId = 1 .. 3
  /\ Migrations[5] = CreateInstances
  /\ Len(CreateInstances) = 1 /\ DOMAIN CreateInstances = 1 .. 1
  /\ Migrations[6] = CreateSsoSessions
  /\ Len(CreateSsoSessions) = 1 /\ DOMAIN CreateSsoSessions = 1 .. 1
  /\ Migrations[7] = CreateApiTokens
  /\ Len(CreateApiTokens) = 1 /\ DOMAIN CreateApiTokens = 1 .. 1
  /\ Migrations[8] = AddTokensRevokedAt
  /\ Len(AddTokensRevokedAt) = 1 /\ DOMAIN AddTokensRevokedAt = 1 .. 1
  /\ Migrations[9] = RelaxSsoRefreshToken
  /\ Len(RelaxSsoRefreshToken) = 1 /\ DOMAIN RelaxSsoRefreshToken = 1 .. 1
  /\ Migrations[10] = SsoSessionBackchannel
  /\ Len(SsoSessionBackchannel) = 5 /\ DOMAIN SsoSessionBackchannel = 1 .. 5
  /\ Migrations[11] = OidcSessions
  /\ Len(OidcSessions) = 2 /\ DOMAIN OidcSessions = 1 .. 2
  /\ Migrations[12] = DropSsoSessions
  /\ Len(DropSsoSessions) = 1 /\ DOMAIN DropSsoSessions = 1 .. 1
BY DEF Migrations, CreateSessions, CreateUsers, CreateSettings, RenameFortaUserId,
       CreateInstances, CreateSsoSessions, CreateApiTokens, AddTokensRevokedAt,
       RelaxSsoRefreshToken, SsoSessionBackchannel, OidcSessions, DropSsoSessions

LEMMA Lengths ==
  ASSUME NEW f \in Files
  PROVE  Len(Migrations[f]) \in Nat \ {0} /\ DOMAIN Migrations[f] = 1 .. Len(Migrations[f])
<1>1. f \in 1 .. 12
  BY FileCount
<1>2. /\ Len(Migrations[f]) \in 1 .. 5
      /\ DOMAIN Migrations[f] = 1 .. Len(Migrations[f])
  <2>1. CASE f \in 1 .. 6
    BY <2>1, FileBodies
  <2>2. CASE f \in 7 .. 12
    BY <2>2, FileBodies
  <2>. QED
    BY <1>1, <2>1, <2>2
<1>. QED
  BY <1>2

\* Every statement of every file, at its place.
LEMMA Statements ==
  ASSUME NEW f \in Files, NEW i \in DOMAIN Migrations[f]
  PROVE  \/ f = 1 /\ i = 1 /\ Migrations[f][i] =
              CreateTable("sessions", {"base", "forta_user_id", "idx_forta_user_id"}, {})
         \/ f = 2 /\ i = 1 /\ Migrations[f][i] = CreateTable("users", {"base"}, {})
         \/ f = 3 /\ i = 1 /\ Migrations[f][i] = CreateTable("settings", {"base"}, {})
         \/ f = 4 /\ i = 1 /\ Migrations[f][i] =
              RenameColumn("sessions", "forta_user_id", "user_id")
         \/ f = 4 /\ i = 2 /\ Migrations[f][i] =
              AlterTable("sessions", {"idx_forta_user_id"}, {}, {})
         \/ f = 4 /\ i = 3 /\ Migrations[f][i] =
              AlterTable("sessions", {}, {"idx_user_id"}, {"user_id"})
         \/ f = 5 /\ i = 1 /\ Migrations[f][i] = CreateTable("instances", {"base"}, {})
         \/ f = 6 /\ i = 1 /\ Migrations[f][i] =
              CreateTable("sso_sessions", {"base", "refresh_token_not_null"}, {"users"})
         \/ f = 7 /\ i = 1 /\ Migrations[f][i] = CreateTable("api_tokens", {"base"}, {})
         \/ f = 8 /\ i = 1 /\ Migrations[f][i] =
              AlterTable("users", {}, {"tokens_revoked_at"}, {})
         \/ f = 9 /\ i = 1 /\ Migrations[f][i] =
              AlterTable("sso_sessions", {"refresh_token_not_null"}, {"refresh_token_null"}, {})
         \/ f = 10 /\ \E c \in {"subject", "sid", "provider", "idx_provider_sid",
                                "idx_provider_subject"}, needs \in SUBSET Columns :
              Migrations[f][i] = AlterTable("sso_sessions", {}, {c}, needs)
         \/ f = 11 /\ i = 1 /\ Migrations[f][i] = CreateTable("oidc_sessions", {"base"}, {})
         \/ f = 11 /\ i = 2 /\ Migrations[f][i] = CreateTable("oidc_login_states", {"base"}, {})
         \/ f = 12 /\ i = 1 /\ Migrations[f][i] = DropTable("sso_sessions")
<1>1. f \in 1 .. 12
  BY FileCount
<1>2. CASE f = 1
  BY <1>2, FileBodies DEF CreateSessions
<1>3. CASE f = 2
  BY <1>3, FileBodies DEF CreateUsers
<1>4. CASE f = 3
  BY <1>4, FileBodies DEF CreateSettings
<1>5. CASE f = 4
  BY <1>5, FileBodies DEF RenameFortaUserId
<1>6. CASE f = 5
  BY <1>6, FileBodies DEF CreateInstances
<1>7. CASE f = 6
  BY <1>7, FileBodies DEF CreateSsoSessions
<1>8. CASE f = 7
  BY <1>8, FileBodies DEF CreateApiTokens
<1>9. CASE f = 8
  BY <1>9, FileBodies DEF AddTokensRevokedAt
<1>10. CASE f = 9
  BY <1>10, FileBodies DEF RelaxSsoRefreshToken
<1>11. CASE f = 10
  BY <1>11, FileBodies DEF SsoSessionBackchannel, Columns
<1>12. CASE f = 11
  BY <1>12, FileBodies DEF OidcSessions
<1>13. CASE f = 12
  BY <1>13, FileBodies DEF DropSsoSessions
<1>. QED
  BY <1>1, <1>2, <1>3, <1>4, <1>5, <1>6, <1>7, <1>8, <1>9, <1>10, <1>11, <1>12, <1>13

\* A statement that succeeds keeps the types of the tables, leaves them whole,
\* and takes away no column that lasts; it gives the one it is there for.
\* Only the file that creates sso_sessions brings it back.
LEMMA Effects ==
  ASSUME NEW db \in [Tables -> SUBSET Columns], Whole(db),
         NEW f \in Files, NEW i \in DOMAIN Migrations[f], ~Fails(Migrations[f][i], db),
         NEW after, after = Run(db, Migrations[f][i])
  PROVE  /\ after \in [Tables -> SUBSET Columns]
         /\ Whole(after)
         /\ \A e \in Lasting : e[4] \in db[e[3]] \/ (e[1] = f /\ e[2] = i) => e[4] \in after[e[3]]
         /\ Dropped(db) /\ f # 6 => Dropped(after)
         /\ f = 12 => Dropped(after)
<1>1. CASE f = 1 /\ i = 1
  <2>1. Migrations[f][i] =
          CreateTable("sessions", {"base", "forta_user_id", "idx_forta_user_id"}, {})
    BY <1>1, Statements
  <2>2. after = [db EXCEPT !["sessions"] =
                     IF @ = {} THEN {"base", "forta_user_id", "idx_forta_user_id"} ELSE @]
    BY <2>1 DEF Run, Outcome, CreateTable
  <2>. QED
    BY <1>1, <2>2 DEF Whole, Dropped, Lasting, Tables, Columns
<1>2. CASE f = 2 /\ i = 1
  <2>1. Migrations[f][i] = CreateTable("users", {"base"}, {})
    BY <1>2, Statements
  <2>2. after = [db EXCEPT !["users"] = IF @ = {} THEN {"base"} ELSE @]
    BY <2>1 DEF Run, Outcome, CreateTable
  <2>. QED
    BY <1>2, <2>2 DEF Whole, Dropped, Lasting, Tables, Columns
<1>3. CASE f = 3 /\ i = 1
  <2>1. Migrations[f][i] = CreateTable("settings", {"base"}, {})
    BY <1>3, Statements
  <2>2. after = [db EXCEPT !["settings"] = IF @ = {} THEN {"base"} ELSE @]
    BY <2>1 DEF Run, Outcome, CreateTable
  <2>. QED
    BY <1>3, <2>2 DEF Whole, Dropped, Lasting, Tables, Columns
<1>4. CASE f = 4 /\ i = 1
  <2>1. Migrations[f][i] = RenameColumn("sessions", "forta_user_id", "user_id")
    BY <1>4, Statements
  <2>2. /\ after = [db EXCEPT !["sessions"] =
             IF "forta_user_id" \in @ THEN (@ \ {"forta_user_id"}) \cup {"user_id"} ELSE @]
        /\ db["sessions"] # {}
    BY <2>1 DEF Run, Outcome, RenameColumn, Fails
  <2>3. after \in [Tables -> SUBSET Columns] /\ \A t \in Tables \ {"sessions"} : after[t] = db[t]
    BY <2>2 DEF Tables, Columns
  <2>4. "base" \in after["sessions"] /\ "user_id" \in after["sessions"]
    BY <2>2 DEF Whole, Tables
  <2>. QED
    BY <1>4, <2>3, <2>4 DEF Whole, Dropped, Lasting, Tables
<1>5. CASE f = 4 /\ i = 2
  <2>1. Migrations[f][i] = AlterTable("sessions", {"idx_forta_user_id"}, {}, {})
    BY <1>5, Statements
  <2>2. after = [db EXCEPT !["sessions"] = @ \ {"idx_forta_user_id"}] /\ db["sessions"] # {}
    BY <2>1 DEF Run, Outcome, AlterTable, Fails
  <2>. QED
    BY <1>5, <2>2 DEF Whole, Dropped, Lasting, Tables, Columns
<1>6. CASE f = 4 /\ i = 3
  <2>1. Migrations[f][i] = AlterTable("sessions", {}, {"idx_user_id"}, {"user_id"})
    BY <1>6, Statements
  <2>2. after = [db EXCEPT !["sessions"] = @ \cup {"idx_user_id"}] /\ db["sessions"] # {}
    BY <2>1 DEF Run, Outcome, AlterTable, Fails
  <2>. QED
    BY <1>6, <2>2 DEF Whole, Dropped, Lasting, Tables, Columns
<1>7. CASE f = 5 /\ i = 1
  <2>1. Migrations[f][i] = CreateTable("instances", {"base"}, {})
    BY <1>7, Statements
  <2>2. after = [db EXCEPT !["instances"] = IF @ = {} THEN {"base"} ELSE @]
    BY <2>1 DEF Run, Outcome, CreateTable
  <2>. QED
    BY <1>7, <2>2 DEF Whole, Dropped, Lasting, Tables, Columns
<1>8. CASE f = 6 /\ i = 1
  <2>1. Migrations[f][i] =
          CreateTable("sso_sessions", {"base", "refresh_token_not_null"}, {"users"})
    BY <1>8, Statements
  <2>2. after = [db EXCEPT !["sso_sessions"] =
                     IF @ = {} THEN {"base", "refresh_token_not_null"} ELSE @]
    BY <2>1 DEF Run, Outcome, CreateTable
  <2>. QED
    BY <1>8, <2>2 DEF Whole, Dropped, Lasting, Tables, Columns
<1>9. CASE f = 7 /\ i = 1
  <2>1. Migrations[f][i] = CreateTable("api_tokens", {"base"}, {})
    BY <1>9, Statements
  <2>2. after = [db EXCEPT !["api_tokens"] = IF @ = {} THEN {"base"} ELSE @]
    BY <2>1 DEF Run, Outcome, CreateTable
  <2>. QED
    BY <1>9, <2>2 DEF Whole, Dropped, Lasting, Tables, Columns
<1>10. CASE f = 8 /\ i = 1
  <2>1. Migrations[f][i] = AlterTable("users", {}, {"tokens_revoked_at"}, {})
    BY <1>10, Statements
  <2>2. after = [db EXCEPT !["users"] = @ \cup {"tokens_revoked_at"}] /\ db["users"] # {}
    BY <2>1 DEF Run, Outcome, AlterTable, Fails
  <2>. QED
    BY <1>10, <2>2 DEF Whole, Dropped, Lasting, Tables, Columns
<1>11. CASE f = 9 /\ i = 1
  <2>1. Migrations[f][i] =
          AlterTable("sso_sessions", {"refresh_token_not_null"}, {"refresh_token_null"}, {})
    BY <1>11, Statements
  <2>2. /\ after = [db EXCEPT !["sso_sessions"] =
                        (@ \ {"refresh_token_not_null"}) \cup {"refresh_token_null"}]
        /\ db["sso_sessions"] # {}
    BY <2>1 DEF Run, Outcome, AlterTable, Fails
  <2>. QED
    BY <1>11, <2>2 DEF Whole, Dropped, Lasting, Tables, Columns
<1>12. CASE f = 10
  <2>1. PICK c \in {"subject", "sid", "provider", "idx_provider_sid", "idx_provider_subject"},
             needs \in SUBSET Columns :
          Migrations[f][i] = AlterTable("sso_sessions", {}, {c}, needs)
    BY <1>12, Statements
  <2>2. after = [db EXCEPT !["sso_sessions"] = @ \cup {c}] /\ db["sso_sessions"] # {}
    BY <2>1 DEF Run, Outcome, AlterTable, Fails
  <2>. QED
    BY <1>12, <2>2 DEF Whole, Dropped, Lasting, Tables, Columns
<1>13. CASE f = 11 /\ i = 1
  <2>1. Migrations[f][i] = CreateTable("oidc_sessions", {"base"}, {})
    BY <1>13, Statements
  <2>2. after = [db EXCEPT !["oidc_sessions"] = IF @ = {} THEN {"base"} ELSE @]
    BY <2>1 DEF Run, Outcome, CreateTable
  <2>. QED
    BY <1>13, <2>2 DEF Whole, Dropped, Lasting, Tables, Columns
<1>14. CASE f = 11 /\ i = 2
  <2>1. Migrations[f][i] = CreateTable("oidc_login_states", {"base"}, {})
    BY <1>14, Statements
  <2>2. after = [db EXCEPT !["oidc_login_states"] = IF @ = {} THEN {"base"} ELSE @]
    BY <2>1 DEF Run, Outcome, CreateTable
  <2>. QED
    BY <1>14, <2>2 DEF Whole, Dropped, Lasting, Tables, Columns
<1>15. CASE f = 12 /\ i = 1
  <2>1. Migrations[f][i] = DropTable("sso_sessions")
    BY <1>15, Statements
  <2>2. after = [db EXCEPT !["sso_sessions"] = {}]
    BY <2>1 DEF Run, Outcome, DropTable
  <2>. QED
    BY <1>15, <2>2 DEF Whole, Dropped, Lasting, Tables, Columns
<1>. QED
  BY Statements, <1>1, <1>2, <1>3, <1>4, <1>5, <1>6, <1>7, <1>8,
     <1>9, <1>10, <1>11, <1>12, <1>13, <1>14, <1>15

LEMMA LastingPlaces ==
  ASSUME NEW e \in Lasting
  PROVE  e[1] \in Files /\ e[2] \in DOMAIN Migrations[e[1]] /\ e[3] \in Tables \ {"sso_sessions"}
<1>1. e[1] \in Files /\ e[3] \in Tables \ {"sso_sessions"}
  BY FileCount DEF Lasting, Tables
<1>2. 1 \in DOMAIN Migrations[e[1]]
  BY <1>1, Lengths
<1>3. 2 \in DOMAIN Migrations[11]
  BY FileBodies
<1>. QED
  BY <1>1, <1>2, <1>3 DEF Lasting

-------------------------------------------------------------------------------
(* The steps.                                                               *)

\* What is done after a step was done before or is what the step executes.
DoneOnlyBy(f, i) ==
  \A g \in Files : \A j \in DOMAIN Migrations[g] : Done(g, j)' => Done(g, j) \/ (g = f /\ j = i)

LEMMA QuietColumns ==
  ASSUME ColumnsInv, schema' = schema,
         \A g \in Files : \A j \in DOMAIN Migrations[g] : Done(g, j)' => Done(g, j)
  PROVE  ColumnsInv'
BY LastingPlaces DEF ColumnsInv, Whole

LEMMA MigrationInitial == MigrationInit => MigrationInv
<1> SUFFICES ASSUME MigrationInit PROVE MigrationInv
  OBVIOUS
<1>1. SchemaTypeOK
  <2>1. schema \in [Tables -> SUBSET Columns]
    BY DEF MigrationInit
  <2>2. file \in [Replicas -> Files] /\ 0 \in 0 .. MaxFaults
    BY FileCount, FaultsAssumption DEF MigrationInit
  <2>. QED
    BY <2>1, <2>2 DEF MigrationInit, SchemaTypeOK
<1>2. \A f \in Files : \A i : ~Done(f, i)
  BY DEF MigrationInit, Done, Executed
<1>3. OrderInv
  BY DEF MigrationInit, OrderInv, Migrating
<1>4. ColumnsInv
  BY <1>2, LastingPlaces DEF MigrationInit, ColumnsInv, Whole, Tables
<1>5. RaceInv
  BY DEF MigrationInit, RaceInv, Creating, Dropped, Tables
<1>. QED
  BY <1>1, <1>3, <1>4, <1>5 DEF MigrationInv

\* A process that ends, for whatever reason, or starts again.
LEMMA ExitStep ==
  ASSUME MigrationInv, NEW p \in Replicas,
         \/ Exit(p) /\ faults' \in 0 .. MaxFaults /\ UNCHANGED <<schema, applied, raced>>
         \/ Start(p)
  PROVE  MigrationInv'
<1>0. /\ schema' = schema /\ applied' = applied /\ raced' = raced
      /\ phase' \in [Replicas -> {"stopped", "serving"} \cup Migrating]
      /\ file' \in [Replicas -> Files] /\ stmt' = stmt
      /\ phase'[p] = "stopped" \/ (phase'[p] = "check" /\ file'[p] = 1)
      /\ \A q \in Replicas \ {p} : phase'[q] = phase[q] /\ file'[q] = file[q]
  BY FileCount DEF MigrationInv, SchemaTypeOK, Exit, Start, Migrating
<1>1. SchemaTypeOK'
  BY <1>0 DEF MigrationInv, SchemaTypeOK, Start, Migrating
<1>2. OrderInv'
  BY <1>0, FileCount DEF MigrationInv, OrderInv, Migrating
<1>3. \A f, i : Done(f, i)' => Done(f, i)
  BY <1>0 DEF Done, Executed
<1>4. ColumnsInv'
  BY <1>0, <1>3, QuietColumns DEF MigrationInv
<1>5. RaceInv'
  BY <1>0, <1>3 DEF MigrationInv, RaceInv, Creating
<1>. QED
  BY <1>1, <1>2, <1>4, <1>5 DEF MigrationInv

\* A process that goes on to the next file.
LEMMA NextFileStep ==
  ASSUME MigrationInv, NEW p \in Replicas, NextFile(p), phase[p] \in Migrating,
         applied' = applied \cup {file[p]},
         file[p] \in applied \/ phase[p] = "record",
         UNCHANGED <<schema, faults, raced>>
  PROVE  MigrationInv'
<1>0. /\ file[p] \in Files
      /\ phase' = [phase EXCEPT ![p] = IF file[p] = 12 THEN "serving" ELSE "check"]
      /\ file' = [file EXCEPT ![p] = IF @ = 12 THEN @ ELSE @ + 1]
      /\ schema' = schema /\ stmt' = stmt /\ faults' = faults /\ raced' = raced
  BY FileCount DEF MigrationInv, SchemaTypeOK, NextFile
<1>1. SchemaTypeOK'
  <2>1. /\ phase' \in [Replicas -> {"stopped", "serving"} \cup Migrating]
        /\ file' \in [Replicas -> Files]
    BY <1>0, FileCount DEF MigrationInv, SchemaTypeOK, Migrating
  <2>2. phase'[p] # "execute" /\ applied' \subseteq Files
    BY <1>0 DEF MigrationInv, SchemaTypeOK
  <2>3. \A q \in Replicas \ {p} : phase'[q] = phase[q] /\ file'[q] = file[q]
    BY <1>0 DEF MigrationInv, SchemaTypeOK
  <2>. QED
    BY <1>0, <2>1, <2>2, <2>3 DEF MigrationInv, SchemaTypeOK
<1>2. OrderInv'
  <2>1. \A g \in Files : g < file[p] => g \in applied
    BY DEF MigrationInv, OrderInv
  <2>2. \A f \in applied', g \in Files : g < f => g \in applied'
    BY <2>1 DEF MigrationInv, OrderInv
  <2>3. \A g \in Files : g < file[p] + 1 => g \in applied'
    BY <1>0, <2>1, FileCount
  <2>4. file[p] = 12 => applied' = Files
    <3> SUFFICES ASSUME file[p] = 12, NEW g \in Files PROVE g \in applied'
      BY <1>1 DEF SchemaTypeOK
    <3>. QED
      BY <2>3, FileCount
  <2>5. \A q \in Replicas :
          phase'[q] \in Migrating => \A g \in Files : g < file'[q] => g \in applied'
    BY <1>0, <2>3 DEF MigrationInv, OrderInv, SchemaTypeOK, Migrating
  <2>6. \A q \in Replicas : phase'[q] = "serving" => applied' = Files
    BY <1>0, <2>4 DEF MigrationInv, OrderInv, SchemaTypeOK
  <2>. QED
    BY <2>2, <2>5, <2>6 DEF OrderInv
<1>3. \A f, i : Done(f, i)' => Done(f, i)
  <2>1. SUFFICES ASSUME NEW f, NEW i, Done(f, i)' PROVE Done(f, i)
    OBVIOUS
  <2>2. CASE f \in applied'
    BY <2>2 DEF Done, Executed
  <2>3. ASSUME NEW q \in Replicas, Executed(q, f, i)' PROVE Executed(q, f, i)
    BY <1>0, <2>3 DEF Executed, MigrationInv, SchemaTypeOK
  <2>. QED
    BY <2>1, <2>2, <2>3 DEF Done
<1>4. ColumnsInv'
  BY <1>0, <1>3, QuietColumns DEF MigrationInv
<1>5. RaceInv'
  <2>1. \A q \in Replicas : Creating(q)' => Creating(q) /\ q # p
    BY <1>0 DEF Creating, MigrationInv, SchemaTypeOK
  <2>2. file[p] = 6 => 6 \in applied \/ Creating(p)
    BY DEF Creating
  <2>. QED
    BY <1>0, <1>3, <2>1, <2>2 DEF MigrationInv, RaceInv
<1>. QED
  BY <1>1, <1>2, <1>4, <1>5 DEF MigrationInv

\* A process that has looked and goes on to the statements of the file.
LEMMA BeginStep ==
  ASSUME MigrationInv, NEW p \in Replicas, phase[p] = "check", file[p] \notin applied,
         BeginFile(p), UNCHANGED <<schema, applied, faults>>
  PROVE  MigrationInv'
<1>0. /\ file[p] \in Files
      /\ phase' = [phase EXCEPT ![p] = "execute"] /\ stmt' = [stmt EXCEPT ![p] = 1]
      /\ file' = file /\ schema' = schema /\ applied' = applied /\ faults' = faults
  BY DEF BeginFile, MigrationInv, SchemaTypeOK
<1>1. SchemaTypeOK'
  <2>1. 1 \in DOMAIN Migrations[file[p]]
    BY <1>0, Lengths
  <2>2. raced' \in BOOLEAN
    BY DEF BeginFile, MigrationInv, SchemaTypeOK
  <2>. QED
    BY <1>0, <2>1, <2>2 DEF MigrationInv, SchemaTypeOK, Migrating
<1>2. OrderInv'
  BY <1>0 DEF MigrationInv, SchemaTypeOK, OrderInv, Migrating
<1>3. \A g \in Files : \A j \in DOMAIN Migrations[g] : Done(g, j)' => Done(g, j)
  BY <1>0, Lengths DEF Done, Executed, MigrationInv, SchemaTypeOK
<1>4. ColumnsInv'
  BY <1>0, <1>3, QuietColumns DEF MigrationInv
<1>5. RaceInv'
  <2>1. \A q \in Replicas \ {p} : Creating(q)' = Creating(q)
    BY <1>0 DEF Creating, MigrationInv, SchemaTypeOK
  <2>2. Creating(p)' => file[p] = 6
    BY <1>0 DEF Creating
  <2>3. ~raced' => ~raced
    BY DEF BeginFile
  <2>4. ~raced' /\ file[p] = 6 => \A q \in Replicas \ {p} : ~Creating(q)
    BY FileBodies DEF BeginFile, OthersAt, Creating
  <2>5. 12 \in Files /\ 1 \in DOMAIN Migrations[12]
    BY FileCount, FileBodies
  <2>. QED
    BY <1>0, <1>3, <2>1, <2>2, <2>3, <2>4, <2>5 DEF MigrationInv, RaceInv
<1>. QED
  BY <1>1, <1>2, <1>4, <1>5 DEF MigrationInv

\* A statement that succeeds.
LEMMA ExecuteStep ==
  ASSUME MigrationInv, NEW p \in Replicas, phase[p] = "execute",
         Execute(p), ~Fails(Migrations[file[p]][stmt[p]], schema)
  PROVE  MigrationInv'
<1> DEFINE f == file[p]
           i == stmt[p]
<1>0. /\ f \in Files /\ i \in DOMAIN Migrations[f] /\ schema \in [Tables -> SUBSET Columns]
      /\ Whole(schema) /\ ~Fails(Migrations[f][i], schema)
      /\ file' = file /\ applied' = applied /\ faults' = faults /\ raced' = raced
      /\ schema' = Run(schema, Migrations[f][i])
      /\ \/ i = Len(Migrations[f]) /\ phase' = [phase EXCEPT ![p] = "record"] /\ stmt' = stmt
         \/ i # Len(Migrations[f]) /\ stmt' = [stmt EXCEPT ![p] = @ + 1] /\ phase' = phase
  BY DEF Execute, MigrationInv, SchemaTypeOK, ColumnsInv
<1> HIDE DEF f, i
<1>1. Len(Migrations[f]) \in Nat \ {0} /\ DOMAIN Migrations[f] = 1 .. Len(Migrations[f])
  BY <1>0, Lengths
<1>2. /\ schema' \in [Tables -> SUBSET Columns]
      /\ Whole(schema')
      /\ \A e \in Lasting :
           e[4] \in schema[e[3]] \/ (e[1] = f /\ e[2] = i) => e[4] \in schema'[e[3]]
      /\ Dropped(schema) /\ f # 6 => Dropped(schema')
      /\ f = 12 => Dropped(schema')
  BY <1>0, Effects
<1>3. SchemaTypeOK'
  <2>1. /\ phase' \in [Replicas -> {"stopped", "serving"} \cup Migrating]
        /\ stmt' \in [Replicas -> Nat]
    BY <1>0, <1>1 DEF i, MigrationInv, SchemaTypeOK, Migrating
  <2>2. stmt'[p] \in DOMAIN Migrations[f] \/ phase'[p] # "execute"
    BY <1>0, <1>1 DEF i, MigrationInv, SchemaTypeOK
  <2>3. \A q \in Replicas \ {p} : phase'[q] = phase[q] /\ stmt'[q] = stmt[q]
    BY <1>0 DEF MigrationInv, SchemaTypeOK
  <2>. QED
    BY <1>0, <1>2, <2>1, <2>2, <2>3 DEF f, MigrationInv, SchemaTypeOK
<1>4. /\ \A q \in Replicas \ {p} : phase'[q] = phase[q] /\ stmt'[q] = stmt[q]
      /\ phase'[p] \in {"execute", "record"}
  BY <1>0 DEF MigrationInv, SchemaTypeOK
<1>5. OrderInv'
  BY <1>0, <1>4 DEF MigrationInv, OrderInv, Migrating
<1>6. ASSUME NEW g \in Files, NEW j \in DOMAIN Migrations[g], Done(g, j)'
      PROVE  Done(g, j) \/ (g = f /\ j = i)
  <2>1. CASE g \in applied
    BY <2>1 DEF Done
  <2>2. ASSUME NEW q \in Replicas \ {p}, Executed(q, g, j)' PROVE Executed(q, g, j)
    BY <1>0, <1>4, <2>2 DEF Executed
  <2>3. CASE Executed(p, g, j)'
    <3>1. g = f /\ j \in 1 .. Len(Migrations[f])
      BY <1>0, <1>1, <2>3 DEF f, Executed
    <3>2. j <= i
      BY <1>0, <1>1, <2>3, <3>1 DEF i, Executed, MigrationInv, SchemaTypeOK
    <3>3. j < i => Executed(p, g, j)
      BY <3>1 DEF f, i, Executed
    <3>. QED
      BY <1>0, <1>1, <3>1, <3>2, <3>3 DEF Done
  <2>. QED
    BY <1>0, <1>6, <2>1, <2>2, <2>3 DEF Done
<1>7. ColumnsInv'
  BY <1>2, <1>6, LastingPlaces DEF MigrationInv, ColumnsInv
<1>8. RaceInv'
  <2>1. \A q \in Replicas : Creating(q)' = Creating(q)
    BY <1>0, <1>4 DEF Creating
  <2>2. ASSUME ~raced, Done(12, 1)' PROVE Dropped(schema')
    <3>1. 12 \in Files /\ 6 \in Files /\ 1 \in DOMAIN Migrations[12]
      BY FileCount, FileBodies
    <3>2. CASE f = 12
      BY <1>2, <3>2
    <3>3. CASE f # 12
      <4>1. Done(12, 1)
        BY <1>6, <2>2, <3>1, <3>3
      <4>2. 6 \in applied
        BY <3>1, <4>1 DEF Done, Executed, MigrationInv, OrderInv, Migrating
      <4>3. f # 6
        BY <2>2, <4>2 DEF f, Creating, MigrationInv, RaceInv
      <4>. QED
        BY <1>2, <2>2, <4>1, <4>3 DEF MigrationInv, RaceInv
    <3>. QED
      BY <3>2, <3>3
  <2>. QED
    BY <1>0, <2>1, <2>2 DEF MigrationInv, RaceInv
<1>. QED
  BY <1>3, <1>5, <1>7, <1>8 DEF MigrationInv

LEMMA MigrationStep == MigrationInv /\ [MigrationNext]_migrationVars => MigrationInv'
<1> SUFFICES ASSUME MigrationInv, [MigrationNext]_migrationVars PROVE MigrationInv'
  OBVIOUS
<1>1. faults \in 0 .. MaxFaults
  BY DEF MigrationInv, SchemaTypeOK
<1>2. ASSUME NEW p \in Replicas, Start(p) PROVE MigrationInv'
  BY <1>2, ExitStep
<1>3. ASSUME NEW p \in Replicas, Check(p) PROVE MigrationInv'
  <2>1. CASE file[p] \in applied
    <3>1. applied' = applied \cup {file[p]} /\ phase[p] \in Migrating
      BY <1>3, <2>1 DEF Check, Migrating
    <3>. QED
      BY <1>3, <2>1, <3>1, NextFileStep DEF Check
  <2>2. CASE file[p] \notin applied
    BY <1>3, <2>2, BeginStep DEF Check
  <2>. QED
    BY <2>1, <2>2
<1>4. ASSUME NEW p \in Replicas, Execute(p) PROVE MigrationInv'
  <2>1. CASE Fails(Migrations[file[p]][stmt[p]], schema)
    <3>1. Exit(p) /\ faults' \in 0 .. MaxFaults /\ UNCHANGED <<schema, applied, raced>>
      BY <1>1, <1>4, <2>1 DEF Execute
    <3>. QED
      BY <3>1, ExitStep
  <2>2. CASE ~Fails(Migrations[file[p]][stmt[p]], schema)
    BY <1>4, <2>2, ExecuteStep DEF Execute
  <2>. QED
    BY <2>1, <2>2
<1>5. ASSUME NEW p \in Replicas, Record(p) PROVE MigrationInv'
  <2>1. CASE file[p] \in applied
    <3>1. applied' = applied
      BY <1>5, <2>1 DEF Record
    <3>2. Exit(p) /\ faults' \in 0 .. MaxFaults /\ UNCHANGED <<schema, applied, raced>>
      BY <1>1, <1>5, <2>1, <3>1 DEF Record
    <3>. QED
      BY <3>2, ExitStep
  <2>2. CASE file[p] \notin applied
    BY <1>5, <2>2, NextFileStep DEF Record, Migrating
  <2>. QED
    BY <2>1, <2>2
<1>6. ASSUME NEW p \in Replicas, Stop(p) PROVE MigrationInv'
  <2>1. faults' \in 0 .. MaxFaults
    BY <1>1, <1>6, FaultsAssumption DEF Stop
  <2>. QED
    BY <1>6, <2>1, ExitStep DEF Stop
<1>7. CASE UNCHANGED migrationVars
  BY <1>7 DEF migrationVars, place, MigrationInv, SchemaTypeOK, OrderInv, ColumnsInv, Whole,
              RaceInv, Creating, Dropped, Done, Executed
<1>. QED
  BY <1>2, <1>3, <1>4, <1>5, <1>6, <1>7 DEF MigrationNext, Proceed

\* Tables hold only the columns of the files, and a process that executes is at
\* a statement of its file, through every exit, restart and lost race.
THEOREM SchemaTypeCorrect == MigrationSpec => []SchemaTypeOK
<1>1. MigrationInv => SchemaTypeOK
  BY DEF MigrationInv
<1>. QED
  BY <1>1, MigrationInitial, MigrationStep, PTL DEF MigrationSpec

\* However many processes migrate at once, and wherever each is interrupted, one
\* that has gone through RunMigrations finds the columns its queries use: a file
\* is recorded only once its statements are done, and no file takes away, when run
\* again late, what a later one has made.
THEOREM ServesOnlyOnFullSchema == MigrationSpec => []ServesOnFullSchema
<1>1. MigrationInv => ServesOnFullSchema
  <2>1. SUFFICES ASSUME MigrationInv, NEW p \in Replicas, phase[p] = "serving"
                 PROVE  \A t \in Tables : Needed[t] \subseteq schema[t]
    BY DEF ServesOnFullSchema
  <2>2. applied = Files
    BY <2>1 DEF MigrationInv, OrderInv
  <2>3. \A e \in Lasting : e[4] \in schema[e[3]]
    BY <2>1, <2>2, LastingPlaces DEF MigrationInv, ColumnsInv, Done
  <2>. QED
    BY <2>3 DEF Lasting, Needed, Tables
<1>. QED
  BY <1>1, MigrationInitial, MigrationStep, PTL DEF MigrationSpec

\* Once 012 is recorded sso_sessions is gone for good, unless two processes were
\* at the file that creates it at the same time.
THEOREM LeftoversAreRaced == MigrationSpec => []LeftoverOnlyWhenRaced
<1>1. MigrationInv => LeftoverOnlyWhenRaced
  BY FileCount DEF MigrationInv, RaceInv, Dropped, Done, LeftoverOnlyWhenRaced
<1>. QED
  BY <1>1, MigrationInitial, MigrationStep, PTL DEF MigrationSpec

-------------------------------------------------------------------------------
(* The accounts: what the proof says of a state.                            *)

\* Sign-ins that have looked for the account of their subject in vain.
Late == {"email", "heal", "create"}

\* A sign-in that looks for a subject has one, and binds the account of its email.
SignInInv ==
  \A r \in SignIns :
    /\ pc[r] \in {"subject", "heal"} => Subject(r) \in Subjects
    /\ pc[r] = "heal" => account[r] = SsoAccount(r)
    /\ Subject(r) = NoSubject => known[r] = {}

\* Nobody is served, and no account is made, before the first administrator is.
AdminInv ==
  /\ Configured
  /\ \/ Serving
     \/ \E r \in SignIns : pc[r] # "idle"
     \/ \E a \in Accounts : Exists(a)
  => Exists(Admin) \/ botched

\* Of a subject no two sign-ins of which have crossed, one sign-in at most is
\* late, and while it is no account is bound to the subject.
TwinInv ==
  \A s \in Subjects \ crossed :
    /\ \A a, b \in BoundTo(s) : a = b
    /\ \A r, q \in SignIns :
         /\ pc[r] \in Late /\ Subject(r) = s
         /\ pc[q] \in Late /\ Subject(q) = s
         => r = q
    /\ \A r \in SignIns : pc[r] \in Late /\ Subject(r) = s => BoundTo(s) = {}

\* An account that is about to be bound is bound to no other subject yet, and no
\* other subject's sign-in is about to bind it, unless it is contested.
HealInv ==
  /\ \A r \in SignIns :
       pc[r] = "heal" =>
         account[r] \in contested \/ users[account[r]] \in {NoSubject, Subject(r)}
  /\ \A r, q \in SignIns :
       pc[r] = "heal" /\ pc[q] = "heal" /\ account[r] = account[q] =>
         account[r] \in contested \/ Subject(r) = Subject(q)

\* What was bound to a subject when its sign-in began still is.
KnownInv ==
  \A r \in SignIns : \A a \in known[r] : a \in contested \/ users[a] = Subject(r)

\* What SignInKeepsAccount takes to be kept.
IInv == TypeOK /\ SignInInv /\ TwinInv /\ HealInv /\ KnownInv /\ SignInKeepsAccount

SignInStep(r) ==
  \/ \E s \in Subjects \cup {NoSubject}, e \in Emails : Begin(r, s, e)
  \/ LookupSubject(r) \/ LookupEmail(r) \/ Heal(r) \/ Create(r) \/ SignInFault(r)
ServerStep(p) == CountUsers(p) \/ CreateAdmin(p) \/ BootstrapFault(p) \/ Crash(p)

-------------------------------------------------------------------------------
LEMMA StepCases ==
  ASSUME [Next]_vars
  PROVE  \/ \E p \in Processes : ServerStep(p)
         \/ \E r \in SignIns : SignInStep(r)
         \/ \E e \in Emails : AdminCreateUser(e)
         \/ UNCHANGED vars
BY DEF Next, ServerStep, SignInStep

LEMMA AccountFacts ==
  /\ Admin \in Accounts /\ Admin[2] = "local"
  /\ \A e \in Emails : <<e, "sso">> \in Accounts /\ <<e, "local">> \in Accounts
                       /\ <<e, "sso">>[2] = "sso" /\ <<e, "local">>[2] = "local"
  /\ NoSubject \notin Subjects /\ NoUser \notin Subjects /\ NoUser # NoSubject
  /\ NoUser \notin Accounts
BY AccountsAssumption, NoUserAssumption DEF Accounts, Admin

\* A step of one sign-in leaves the others where they are.
LEMMA OthersStay ==
  ASSUME TypeOK, NEW r \in SignIns, SignInStep(r)
  PROVE  /\ \A q \in SignIns \ {r} :
              /\ pc'[q] = pc[q] /\ identity'[q] = identity[q]
              /\ account'[q] = account[q] /\ known'[q] = known[q]
         /\ contested \subseteq contested' /\ crossed \subseteq crossed'
         /\ UNCHANGED serverVars
<1> USE DEF TypeOK, Goto, Over, Lost, Resolved, serverVars
<1>1. ASSUME NEW s \in Subjects \cup {NoSubject}, NEW e \in Emails, Begin(r, s, e)
      PROVE  /\ \A q \in SignIns \ {r} :
                  /\ pc'[q] = pc[q] /\ identity'[q] = identity[q]
                  /\ account'[q] = account[q] /\ known'[q] = known[q]
             /\ UNCHANGED <<contested, crossed, serverVars>>
  BY <1>1 DEF Begin
<1>2. CASE LookupSubject(r)
  BY <1>2 DEF LookupSubject, LookupSubjectFound, LookupSubjectMissed
<1>3. CASE LookupEmail(r)
  BY <1>3 DEF LookupEmail, FoundByEmail, Healing, NotFound
<1>4. CASE Heal(r) \/ Create(r) \/ SignInFault(r)
  BY <1>4 DEF Heal, Create, SignInFault
<1>. QED
  BY <1>1, <1>2, <1>3, <1>4 DEF SignInStep

-------------------------------------------------------------------------------
LEMMA TypeInit == Init => TypeOK /\ SignInInv
<1> SUFFICES ASSUME Init PROVE TypeOK /\ SignInInv
  OBVIOUS
<1>1. PICK old \in SUBSET Emails :
        users = [a \in Accounts |->
          CASE a[2] = "sso" /\ a[1] \in old -> NoSubject
            [] a = Admin /\ old # {} -> NoSubject
            [] OTHER -> NoUser]
  BY DEF Init
<1>2. \A a \in Accounts : users[a] \in {NoSubject, NoUser}
  BY <1>1
<1>3. users \in [Accounts -> Subjects \cup {NoSubject, NoUser}]
  BY <1>1, <1>2
<1>4. Nobody \in [subject : Subjects \cup {NoSubject}, email : Emails]
  BY AccountsAssumption DEF Nobody
<1>. QED
  BY <1>2, <1>3, <1>4 DEF Init, TypeOK, SignInInv, Exists, Nobody

\* Resolving with some account, in a step that keeps the table well typed.
LEMMA TypeResolved ==
  ASSUME TypeOK, SignInInv, NEW r \in SignIns, NEW a, Resolved(r, a) \/ Lost(r),
         UNCHANGED serverVars, contested' = contested, crossed' = crossed,
         users' \in [Accounts -> Subjects \cup {NoSubject, NoUser}],
         \A b \in Accounts : Exists(b) => Exists(b)',
         \A b \in Accounts : Exists(b)' /\ b[2] = "local" => users'[b] = NoSubject
  PROVE  TypeOK' /\ SignInInv'
<1>1. Nobody \in [subject : Subjects \cup {NoSubject}, email : Emails] /\ Nobody.subject = NoSubject
  BY AccountsAssumption DEF Nobody
<1>2. /\ pc' = [pc EXCEPT ![r] = "idle"] /\ identity' = [identity EXCEPT ![r] = Nobody]
      /\ account' = [account EXCEPT ![r] = NoUser] /\ known' = [known EXCEPT ![r] = {}]
  BY DEF Resolved, Lost, Over, Goto
<1>3. strayed' \subseteq Subjects \X Accounts
  <2>1. {Subject(r)} \X known[r] \subseteq Subjects \X Accounts
    BY DEF TypeOK, SignInInv, Subject
  <2>. QED
    BY <2>1 DEF Resolved, Lost, TypeOK
<1>4. TypeOK'
  BY <1>1, <1>2, <1>3 DEF TypeOK, serverVars, Exists
<1>5. SignInInv'
  BY <1>1, <1>2 DEF SignInInv, TypeOK, Subject, SsoAccount
<1>. QED
  BY <1>4, <1>5

LEMMA TypeStep == TypeOK /\ SignInInv /\ [Next]_vars => TypeOK' /\ SignInInv'
<1> SUFFICES ASSUME TypeOK, SignInInv, [Next]_vars PROVE TypeOK' /\ SignInInv'
  OBVIOUS
<1>1. ASSUME NEW p \in Processes, ServerStep(p) PROVE TypeOK' /\ SignInInv'
  <2>1. /\ UNCHANGED signInVars /\ server' \in [Processes -> {"down", "insert", "serving"}]
        /\ botched' \in BOOLEAN
    BY <1>1 DEF ServerStep, CountUsers, CreateAdmin, BootstrapFault, Crash, Move, TypeOK
  <2>2. /\ users' \in [Accounts -> Subjects \cup {NoSubject, NoUser}]
        /\ \A b \in Accounts : Exists(b) => Exists(b)'
        /\ \A b \in Accounts : Exists(b)' /\ b[2] = "local" => users'[b] = NoSubject
    <3>1. CASE CreateAdmin(p)
      BY <3>1, AccountFacts DEF CreateAdmin, Insert, TypeOK, Exists
    <3>2. CASE UNCHANGED users
      BY <3>2 DEF TypeOK, Exists
    <3>. QED
      BY <1>1, <3>1, <3>2 DEF ServerStep, CountUsers, BootstrapFault, Crash
  <2>. QED
    BY <2>1, <2>2 DEF TypeOK, SignInInv, signInVars, Subject, SsoAccount, Exists
<1>2. ASSUME NEW e \in Emails, AdminCreateUser(e) PROVE TypeOK' /\ SignInInv'
  <2>1. /\ users' \in [Accounts -> Subjects \cup {NoSubject, NoUser}]
        /\ \A b \in Accounts : Exists(b) => Exists(b)'
        /\ \A b \in Accounts : Exists(b)' /\ b[2] = "local" => users'[b] = NoSubject
    BY <1>2, AccountFacts DEF AdminCreateUser, Insert, TypeOK, Exists
  <2>. QED
    BY <1>2, <2>1
    DEF AdminCreateUser, TypeOK, SignInInv, serverVars, signInVars, Subject, SsoAccount, Exists
<1>3. ASSUME NEW r \in SignIns, SignInStep(r) PROVE TypeOK' /\ SignInInv'
  <2>0. SsoAccount(r) \in Accounts /\ SsoAccount(r)[2] = "sso"
    BY AccountFacts DEF SsoAccount, TypeOK
  <2>1. ASSUME NEW s \in Subjects \cup {NoSubject}, NEW e \in Emails, Begin(r, s, e)
        PROVE  TypeOK' /\ SignInInv'
    <3>1. [subject |-> s, email |-> e] \in [subject : Subjects \cup {NoSubject}, email : Emails]
      OBVIOUS
    <3>2. BoundTo(s) \in SUBSET Accounts
      BY DEF BoundTo
    <3>3. TypeOK'
      BY <2>1, <3>1, <3>2 DEF Begin, Goto, TypeOK, Pending, serverVars, Exists
    <3>4. SignInInv'
      BY <2>1, <3>1, AccountFacts DEF Begin, Goto, TypeOK, SignInInv, Subject, SsoAccount
    <3>. QED
      BY <3>3, <3>4
  <2>2. ASSUME \/ LookupSubjectMissed(r) /\ Subject(r) \in Subjects
               \/ NotFound(r) /\ crossed' = crossed,
               UNCHANGED <<users, serverVars>>, contested' = contested
        PROVE  TypeOK' /\ SignInInv'
    <3>1. CASE Lost(r)
      <4>1. pc'[r] = "idle"
        BY <3>1 DEF Lost, Over, Goto, TypeOK
      <4>2. crossed' = crossed
        BY <2>2, <4>1 DEF LookupSubjectMissed, Goto, TypeOK
      <4>. QED
        BY <2>2, <3>1, <4>2, TypeResolved DEF TypeOK, Exists
    <3>2. CASE ~Lost(r)
      <4>1. \E label \in {"email", "create"} : Goto(r, label)
        BY <2>2, <3>2 DEF LookupSubjectMissed, NotFound
      <4>2. UNCHANGED <<identity, account, known, strayed>>
        BY <2>2, <3>2 DEF LookupSubjectMissed, NotFound
      <4>3. crossed' \subseteq Subjects
        BY <2>2 DEF LookupSubjectMissed, TypeOK
      <4>. QED
        BY <2>2, <4>1, <4>2, <4>3
        DEF Goto, TypeOK, SignInInv, Pending, serverVars, Subject, SsoAccount, Exists
    <3>. QED
      BY <3>1, <3>2
  <2>3. CASE LookupSubject(r)
    <3>1. CASE BoundTo(Subject(r)) # {}
      BY <2>3, <3>1, TypeResolved
      DEF LookupSubject, LookupSubjectFound, TypeOK, Exists
    <3>2. CASE BoundTo(Subject(r)) = {}
      BY <2>2, <2>3, <3>2 DEF LookupSubject, SignInInv
    <3>. QED
      BY <3>1, <3>2
  <2>4. CASE LookupEmail(r)
    <3>1. CASE ~Exists(SsoAccount(r))
      BY <2>2, <2>4, <3>1 DEF LookupEmail, NotFound
    <3>2. CASE Exists(SsoAccount(r)) /\ ~Healing(r, SsoAccount(r))
      BY <2>4, <3>2, TypeResolved DEF LookupEmail, FoundByEmail, TypeOK, Exists
    <3>3. CASE Exists(SsoAccount(r)) /\ Healing(r, SsoAccount(r)) /\ Subject(r) # NoSubject
      <4>1. Subject(r) \in Subjects
        BY <3>3 DEF TypeOK, Subject
      <4>2. UNCHANGED <<users, serverVars, crossed>>
        BY <2>4 DEF LookupEmail
      <4>3. /\ pc' = [pc EXCEPT ![r] = "heal"] /\ account' = [account EXCEPT ![r] = SsoAccount(r)]
            /\ contested' \subseteq Accounts /\ UNCHANGED <<identity, known, strayed>>
        BY <2>0, <3>3 DEF Healing, Goto, TypeOK
      <4>4. TypeOK'
        BY <2>0, <3>3, <4>2, <4>3 DEF TypeOK, Pending, serverVars, Exists
      <4>5. SignInInv'
        BY <4>1, <4>3 DEF TypeOK, SignInInv, Subject, SsoAccount
      <4>. QED
        BY <4>4, <4>5
    <3>4. CASE Exists(SsoAccount(r)) /\ Healing(r, SsoAccount(r)) /\ Subject(r) = NoSubject
      <4>1. Resolved(r, SsoAccount(r)) /\ contested' = contested /\ UNCHANGED <<users, serverVars, crossed>>
        BY <2>4, <3>4 DEF LookupEmail, FoundByEmail
      <4>. QED
        BY <4>1, TypeResolved DEF TypeOK, Exists
    <3>. QED
      BY <3>1, <3>2, <3>3, <3>4
  <2>5. CASE Heal(r)
    <3>1. pc[r] = "heal" /\ account[r] = SsoAccount(r) /\ Subject(r) \in Subjects
      BY <2>5 DEF Heal, SignInInv
    <3>2. /\ users' \in [Accounts -> Subjects \cup {NoSubject, NoUser}]
          /\ \A b \in Accounts : Exists(b) => Exists(b)'
          /\ \A b \in Accounts : Exists(b)' /\ b[2] = "local" => users'[b] = NoSubject
      BY <2>0, <2>5, <3>1, AccountFacts DEF Heal, TypeOK, Exists
    <3>. QED
      BY <2>5, <3>2, TypeResolved DEF Heal
  <2>6. CASE Create(r)
    <3>1. Subject(r) \in Subjects \cup {NoSubject}
      BY DEF TypeOK, Subject
    <3>2. /\ users' \in [Accounts -> Subjects \cup {NoSubject, NoUser}]
          /\ \A b \in Accounts : Exists(b) => Exists(b)'
          /\ \A b \in Accounts : Exists(b)' /\ b[2] = "local" => users'[b] = NoSubject
      BY <2>0, <2>6, <3>1, AccountFacts DEF Create, Insert, TypeOK, Exists
    <3>. QED
      BY <2>6, <3>2, TypeResolved DEF Create
  <2>7. CASE SignInFault(r)
    BY <2>7, TypeResolved DEF SignInFault, TypeOK, Exists
  <2>. QED
    BY <1>3, <2>1, <2>3, <2>4, <2>5, <2>6, <2>7 DEF SignInStep
<1>4. CASE UNCHANGED vars
  BY <1>4 DEF vars, serverVars, signInVars, TypeOK, SignInInv, Subject, SsoAccount, Exists
<1>. QED
  BY <1>1, <1>2, <1>3, <1>4, StepCases

\* Accounts has the types its comments give its variables; only accounts of the
\* provider have a subject.
THEOREM AccountsTypeCorrect == Spec => []TypeOK
<1>. QED
  BY TypeInit, TypeStep, PTL DEF Spec

-------------------------------------------------------------------------------
(* The first administrator.                                                 *)

LEMMA AdminInit == Init => AdminInv
<1> SUFFICES ASSUME Init PROVE AdminInv
  OBVIOUS
<1>1. PICK old \in SUBSET Emails :
        users = [a \in Accounts |->
          CASE a[2] = "sso" /\ a[1] \in old -> NoSubject
            [] a = Admin /\ old # {} -> NoSubject
            [] OTHER -> NoUser]
  BY DEF Init
<1>2. CASE old = {}
  <2>1. \A a \in Accounts : users[a] = NoUser
    BY <1>1, <1>2
  <2>. QED
    BY <2>1 DEF Init, AdminInv, Serving, Exists
<1>3. CASE old # {}
  BY <1>1, <1>3, AccountFacts DEF AdminInv, Exists
<1>. QED
  BY <1>2, <1>3

LEMMA AdminStep == TypeOK /\ SignInInv /\ AdminInv /\ [Next]_vars => AdminInv'
<1> SUFFICES ASSUME TypeOK, SignInInv, AdminInv, [Next]_vars, Configured PROVE AdminInv'
  BY DEF AdminInv
<1>1. \A a \in Accounts : Exists(a) => Exists(a)'
  <2>1. ASSUME NEW a \in Accounts, NEW s, Insert(a, s) PROVE \A b \in Accounts \ {a} : users'[b] = users[b]
    BY <2>1 DEF Insert, TypeOK
  <2>2. ASSUME NEW r \in SignIns, Heal(r) PROVE \A a \in Accounts : Exists(a) => Exists(a)'
    BY <2>2, AccountFacts DEF Heal, SignInInv, TypeOK, Exists
  <2>3. ASSUME NEW r \in SignIns, SignInStep(r) PROVE \A a \in Accounts : Exists(a) => Exists(a)'
    BY <2>2, <2>3 DEF SignInStep, Begin, LookupSubject, LookupEmail, Create, SignInFault, Insert, Exists, TypeOK
  <2>4. ASSUME NEW p \in Processes, ServerStep(p) PROVE \A a \in Accounts : Exists(a) => Exists(a)'
    BY <2>4 DEF ServerStep, CountUsers, CreateAdmin, BootstrapFault, Crash, Insert, Exists, TypeOK
  <2>. QED
    BY <2>3, <2>4, StepCases DEF AdminCreateUser, Insert, Exists, TypeOK, vars
<1>2. botched => botched'
  <2>1. ASSUME NEW r \in SignIns, SignInStep(r) PROVE botched => botched'
    BY <2>1, OthersStay DEF serverVars
  <2>. QED
    BY <2>1, StepCases
    DEF ServerStep, CountUsers, CreateAdmin, BootstrapFault, Crash, AdminCreateUser, serverVars, vars
<1>3. CASE Exists(Admin) \/ botched
  BY <1>1, <1>2, <1>3, AccountFacts DEF AdminInv
<1>4. CASE ~Exists(Admin) /\ ~botched
  <2>1. ~Serving /\ (\A r \in SignIns : pc[r] = "idle") /\ \A a \in Accounts : ~Exists(a)
    BY <1>4 DEF AdminInv
  <2>2. ASSUME NEW p \in Processes, ServerStep(p) PROVE AdminInv'
    <3>1. CASE CountUsers(p)
      BY <2>1, <3>1 DEF CountUsers, Move, AdminInv, Serving, TypeOK, Exists, signInVars
    <3>2. CASE CreateAdmin(p)
      BY <3>2, AccountFacts DEF CreateAdmin, Insert, AdminInv, TypeOK, Exists
    <3>3. CASE BootstrapFault(p)
      BY <1>4, <3>3 DEF BootstrapFault, AdminInv
    <3>4. CASE Crash(p)
      BY <2>1, <3>4 DEF Crash, Move, AdminInv, Serving, TypeOK, Exists, signInVars
    <3>. QED
      BY <2>2, <3>1, <3>2, <3>3, <3>4 DEF ServerStep
  <2>3. ASSUME NEW r \in SignIns PROVE ~SignInStep(r)
    BY <2>1 DEF SignInStep, Begin, LookupSubject, LookupEmail, Heal, Create, SignInFault, Pending
  <2>4. ASSUME NEW e \in Emails PROVE ~AdminCreateUser(e)
    BY <2>1 DEF AdminCreateUser
  <2>5. CASE UNCHANGED vars
    BY <2>5 DEF vars, serverVars, signInVars, AdminInv, Serving, Exists
  <2>. QED
    BY <2>2, <2>3, <2>4, <2>5, StepCases
<1>. QED
  BY <1>3, <1>4

\* Where EnsureAdminUser has an administrator to create and some account exists,
\* it exists, unless a process failed to count or create and served all the same.
THEOREM AdminlessOnlyIfBotched == Spec => []AdminlessOnlyWhenBotched
<1>1. AdminInv => AdminlessOnlyWhenBotched
  BY DEF AdminInv, AdminlessOnlyWhenBotched
<1>. QED
  BY <1>1, TypeInit, TypeStep, AdminInit, AdminStep, PTL DEF Spec

-------------------------------------------------------------------------------
(* Subjects and their accounts.                                             *)

\* What a sign-in's step does to the table and to itself.
LEMMA SignInCases ==
  ASSUME TypeOK, SignInInv, NEW r \in SignIns, SignInStep(r)
  PROVE  \* it begins
         \/ /\ pc[r] = "idle" /\ pc'[r] \in {"subject", "email"} /\ UNCHANGED <<users, strayed, crossed, contested>>
            /\ pc'[r] = "email" => Subject(r)' = NoSubject
            /\ known'[r] = IF Subject(r)' = NoSubject THEN {} ELSE BoundTo(Subject(r)')
         \* it misses its subject
         \/ /\ pc[r] = "subject" /\ pc'[r] = "email" /\ BoundTo(Subject(r)) = {}
            /\ crossed' = IF Twin(r) THEN crossed \cup {Subject(r)} ELSE crossed
            /\ UNCHANGED <<users, identity, account, known, strayed, contested>>
         \* it finds an account to bind
         \/ /\ pc[r] = "email" /\ pc'[r] = "heal" /\ account'[r] = SsoAccount(r)
            /\ users[SsoAccount(r)] = NoSubject
            /\ contested' = IF Rival(r, SsoAccount(r)) THEN contested \cup {SsoAccount(r)} ELSE contested
            /\ UNCHANGED <<users, identity, known, strayed, crossed>>
         \* it finds none, and will make one
         \/ /\ pc[r] = "email" /\ pc'[r] = "create"
            /\ UNCHANGED <<users, identity, account, known, strayed, contested, crossed>>
         \* it is over, one way or the other
         \/ /\ pc[r] # "idle" /\ pc'[r] = "idle" /\ known'[r] = {} /\ UNCHANGED <<contested, crossed>>
            /\ \/ strayed' = strayed /\ users' = users
               \/ pc[r] = "subject" /\ users' = users
                  /\ \E a \in BoundTo(Subject(r)) : Resolved(r, a)
               \/ pc[r] = "email" /\ users' = users /\ Resolved(r, SsoAccount(r))
               \/ /\ pc[r] = "heal" /\ Resolved(r, account[r])
                  /\ users' \in {users, [users EXCEPT ![account[r]] = Subject(r)]}
               \/ /\ pc[r] = "create" /\ Insert(SsoAccount(r), Subject(r))
                  /\ Resolved(r, SsoAccount(r)) \/ Lost(r)
<1>1. ASSUME NEW s \in Subjects \cup {NoSubject}, NEW e \in Emails, Begin(r, s, e)
      PROVE  /\ pc[r] = "idle" /\ pc'[r] \in {"subject", "email"}
             /\ UNCHANGED <<users, strayed, crossed, contested>>
             /\ pc'[r] = "email" => Subject(r)' = NoSubject
             /\ known'[r] = IF Subject(r)' = NoSubject THEN {} ELSE BoundTo(Subject(r)')
  <2>1. identity'[r] = [subject |-> s, email |-> e]
    BY <1>1 DEF Begin, TypeOK
  <2>2. Subject(r)' = s
    BY <2>1 DEF Subject
  <2>. QED
    BY <1>1, <2>2 DEF Begin, Goto, TypeOK
<1>2. ASSUME NEW a, Resolved(r, a) \/ Lost(r)
      PROVE  pc'[r] = "idle" /\ known'[r] = {} /\ (Lost(r) => strayed' = strayed)
  BY <1>2 DEF Resolved, Lost, Over, Goto, TypeOK
<1>3. CASE LookupSubject(r)
  BY <1>2, <1>3 DEF LookupSubject, LookupSubjectFound, LookupSubjectMissed, Goto, TypeOK
<1>4. CASE LookupEmail(r)
  BY <1>2, <1>4 DEF LookupEmail, FoundByEmail, Healing, Unbound, NotFound, Goto, TypeOK
<1>5. CASE Heal(r)
  BY <1>2, <1>5 DEF Heal, TypeOK
<1>6. CASE Create(r)
  BY <1>2, <1>6 DEF Create
<1>7. CASE SignInFault(r)
  BY <1>2, <1>7 DEF SignInFault, Pending
<1>. QED
  BY <1>1, <1>3, <1>4, <1>5, <1>6, <1>7 DEF SignInStep

\* All the other steps leave the sign-ins alone and bind no account.
LEMMA OtherCases ==
  ASSUME TypeOK, \/ \E p \in Processes : ServerStep(p)
                 \/ \E e \in Emails : AdminCreateUser(e)
                 \/ UNCHANGED vars
  PROVE  /\ UNCHANGED signInVars
         /\ \A a \in Accounts : users'[a] = users[a] \/ (users[a] = NoUser /\ users'[a] = NoSubject)
<1>1. ASSUME NEW a \in Accounts, Insert(a, NoSubject)
      PROVE  \A b \in Accounts : users'[b] = users[b] \/ (users[b] = NoUser /\ users'[b] = NoSubject)
  BY <1>1 DEF Insert, Exists, TypeOK
<1>2. ASSUME NEW p \in Processes, ServerStep(p)
      PROVE  /\ UNCHANGED signInVars
             /\ UNCHANGED users \/ Insert(Admin, NoSubject)
  BY <1>2 DEF ServerStep, CountUsers, CreateAdmin, BootstrapFault, Crash
<1>3. ASSUME NEW e \in Emails, AdminCreateUser(e)
      PROVE  UNCHANGED signInVars /\ Insert(<<e, "local">>, NoSubject)
  BY <1>3 DEF AdminCreateUser
<1>. QED
  BY <1>1, <1>2, <1>3, AccountFacts DEF vars

\* A table in which no further account is bound to a subject.
LEMMA BoundShrinks ==
  ASSUME TypeOK, NEW s \in Subjects, \A a \in Accounts : users'[a] = s => users[a] = s
  PROVE  BoundTo(s)' \subseteq BoundTo(s)
BY DEF BoundTo

\* Sign-ins bind an account only when they are over, and no later than that.
LEMMA TwinStep == TypeOK /\ SignInInv /\ TwinInv /\ [Next]_vars => TwinInv'
<1> SUFFICES ASSUME TypeOK, SignInInv, TwinInv, [Next]_vars PROVE TwinInv'
  OBVIOUS
<1>1. CASE \/ \E p \in Processes : ServerStep(p)
           \/ \E e \in Emails : AdminCreateUser(e)
           \/ UNCHANGED vars
  <2>1. /\ UNCHANGED signInVars
        /\ \A a \in Accounts, s \in Subjects : users'[a] = s => users[a] = s
    BY <1>1, OtherCases, AccountFacts
  <2>. QED
    BY <2>1, BoundShrinks DEF TwinInv, signInVars, Subject
<1>2. ASSUME NEW r \in SignIns, SignInStep(r) PROVE TwinInv'
  <2>1. SUFFICES ASSUME NEW s \in Subjects \ crossed'
                 PROVE  /\ \A a, b \in BoundTo(s)' : a = b
                        /\ \A q, t \in SignIns :
                             /\ pc'[q] \in Late /\ Subject(q)' = s
                             /\ pc'[t] \in Late /\ Subject(t)' = s
                             => q = t
                        /\ \A q \in SignIns : pc'[q] \in Late /\ Subject(q)' = s => BoundTo(s)' = {}
    BY DEF TwinInv
  <2>2. /\ s \in Subjects \ crossed
        /\ \A q \in SignIns \ {r} : pc'[q] = pc[q] /\ Subject(q)' = Subject(q)
    BY <1>2, OthersStay DEF Subject
  <2>3. /\ \A a, b \in BoundTo(s) : a = b
        /\ \A q, t \in SignIns :
             /\ pc[q] \in Late /\ Subject(q) = s
             /\ pc[t] \in Late /\ Subject(t) = s
             => q = t
        /\ \A q \in SignIns : pc[q] \in Late /\ Subject(q) = s => BoundTo(s) = {}
    BY <2>2 DEF TwinInv
  <2>4. CASE pc[r] = "idle" /\ users' = users /\ (pc'[r] = "email" => Subject(r)' = NoSubject)
             /\ pc'[r] \in {"subject", "email"}
    BY <2>2, <2>3, <2>4, AccountFacts DEF BoundTo, Late
  <2>5. CASE pc[r] = "subject" /\ pc'[r] = "email" /\ BoundTo(Subject(r)) = {} /\ users' = users
             /\ crossed' = (IF Twin(r) THEN crossed \cup {Subject(r)} ELSE crossed) /\ UNCHANGED identity
    <3>1. Subject(r) = s => ~ \E q \in SignIns \ {r} : Subject(q) = s /\ pc[q] \in Late
      BY <2>5 DEF Twin, Late
    <3>. QED
      BY <2>2, <2>3, <2>5, <3>1 DEF BoundTo, Subject
  <2>6. CASE pc[r] = "email" /\ pc'[r] \in {"heal", "create"} /\ UNCHANGED <<users, identity>>
    <3>1. \A q \in SignIns : (pc'[q] \in Late <=> pc[q] \in Late) /\ Subject(q)' = Subject(q)
      BY <2>2, <2>6 DEF Late, Subject
    <3>. QED
      BY <2>3, <2>6, <3>1 DEF BoundTo
  <2>7. CASE pc[r] # "idle" /\ pc'[r] = "idle" /\ users' = users
    BY <2>2, <2>3, <2>7 DEF BoundTo, Late
  <2>8. CASE /\ pc[r] \in {"heal", "create"} /\ pc'[r] = "idle"
             /\ \E a \in Accounts : users' = [users EXCEPT ![a] = Subject(r)]
    <3>1. PICK a \in Accounts : users' = [users EXCEPT ![a] = Subject(r)]
      BY <2>8
    <3>2. CASE Subject(r) = s
      <4>1. BoundTo(s) = {}
        BY <2>3, <2>8, <3>2 DEF Late
      <4>2. BoundTo(s)' \subseteq {a}
        BY <3>1, <4>1 DEF BoundTo, TypeOK
      <4>3. \A q \in SignIns : ~(pc'[q] \in Late /\ Subject(q)' = s)
        BY <2>2, <2>3, <2>8, <3>2 DEF Late
      <4>. QED
        BY <4>2, <4>3
    <3>3. CASE Subject(r) # s
      <4>1. BoundTo(s)' \subseteq BoundTo(s)
        BY <3>1, <3>3, BoundShrinks DEF TypeOK
      <4>. QED
        BY <2>2, <2>3, <2>8, <4>1 DEF Late
    <3>. QED
      BY <3>2, <3>3
  <2>9. SsoAccount(r) \in Accounts /\ (pc[r] = "heal" => account[r] \in Accounts)
    BY AccountFacts DEF SsoAccount, TypeOK
  <2>10. CASE pc[r] # "idle" /\ pc'[r] = "idle"
    <3>1. \/ users' = users
          \/ pc[r] = "heal" /\ users' = [users EXCEPT ![account[r]] = Subject(r)]
          \/ pc[r] = "create" /\ users' = [users EXCEPT ![SsoAccount(r)] = Subject(r)]
      BY <1>2, <2>10, SignInCases DEF Insert
    <3>. QED
      BY <2>7, <2>8, <2>9, <2>10, <3>1
  <2>. QED
    BY <1>2, <2>4, <2>5, <2>6, <2>10, SignInCases
<1>. QED
  BY <1>1, <1>2, StepCases

LEMMA SubjectInit == Init => TwinInv /\ HealInv /\ KnownInv /\ SignInKeepsAccount
<1> SUFFICES ASSUME Init PROVE TwinInv /\ HealInv /\ KnownInv /\ SignInKeepsAccount
  OBVIOUS
<1>1. PICK old \in SUBSET Emails :
        users = [a \in Accounts |->
          CASE a[2] = "sso" /\ a[1] \in old -> NoSubject
            [] a = Admin /\ old # {} -> NoSubject
            [] OTHER -> NoUser]
  BY DEF Init
<1>2. \A s \in Subjects : BoundTo(s) = {}
  BY <1>1, AccountFacts DEF BoundTo
<1>. QED
  BY <1>2 DEF Init, TwinInv, HealInv, KnownInv, SignInKeepsAccount, Late

\* No subject of which two sign-ins have not crossed is bound to two accounts,
\* whatever was retried and whatever email the provider named.
THEOREM TwinsOnlyIfCrossed == Spec => []TwinsOnlyWhenCrossed
<1>1. TwinInv => TwinsOnlyWhenCrossed
  <2> SUFFICES ASSUME TwinInv, NEW s \in Subjects, s \notin crossed, Cardinality(BoundTo(s)) > 1
               PROVE  FALSE
    BY DEF TwinsOnlyWhenCrossed
  <2>1. \A a, b \in BoundTo(s) : a = b
    BY DEF TwinInv
  <2>2. CASE BoundTo(s) = {}
    BY <2>2, FS_EmptySet
  <2>3. CASE BoundTo(s) # {}
    <3>1. PICK a \in BoundTo(s) : TRUE
      BY <2>3
    <3>2. BoundTo(s) = {a}
      BY <2>1, <3>1
    <3>3. Cardinality({a}) = 1
      BY FS_Singleton
    <3>. QED
      BY <3>2, <3>3
  <2>. QED
    BY <2>2, <2>3
<1>. QED
  BY <1>1, TypeInit, TypeStep, SubjectInit, TwinStep, PTL DEF Spec

\* The two ways in which a sign-in's step changes a row.
LEMMA RowChanges ==
  ASSUME TypeOK, SignInInv, NEW r \in SignIns, SignInStep(r), NEW a \in Accounts
  PROVE  \/ users'[a] = users[a]
         \/ pc[r] = "heal" /\ account[r] = a /\ users'[a] = Subject(r)
         \/ pc[r] = "create" /\ users[a] = NoUser
<1>1. \/ users' = users
      \/ pc[r] = "heal" /\ users' = [users EXCEPT ![account[r]] = Subject(r)]
      \/ pc[r] = "create" /\ users' = [users EXCEPT ![SsoAccount(r)] = Subject(r)] /\ ~Exists(SsoAccount(r))
  BY SignInCases DEF Insert
<1>. QED
  BY <1>1 DEF TypeOK, Exists

\* The other steps change no row of an account that exists.
LEMMA OthersKeepSubjects ==
  ASSUME TypeOK, HealInv, KnownInv, SignInKeepsAccount,
         \/ \E p \in Processes : ServerStep(p)
         \/ \E e \in Emails : AdminCreateUser(e)
         \/ UNCHANGED vars
  PROVE  HealInv' /\ KnownInv' /\ SignInKeepsAccount'
<1>1. UNCHANGED signInVars /\ \A a \in Accounts : Exists(a) => users'[a] = users[a]
  BY OtherCases DEF Exists
<1>2. \A r \in SignIns : pc[r] = "heal" => account[r] \in Accounts /\ Exists(account[r])
  BY DEF TypeOK
<1>3. \A r \in SignIns : \A a \in known[r] : a \in contested \/ Exists(a)
  BY AccountFacts DEF KnownInv, Exists, Subject, TypeOK
<1>4. \A r \in SignIns : known[r] \subseteq Accounts
  BY DEF TypeOK
<1>. QED
  BY <1>1, <1>2, <1>3, <1>4 DEF HealInv, KnownInv, SignInKeepsAccount, signInVars, Subject

\* Who finds an account that another subject's sign-in is about to bind contests it.
LEMMA HealStep ==
  ASSUME TypeOK, SignInInv, HealInv, NEW r \in SignIns, SignInStep(r)
  PROVE  HealInv'
<1>1. /\ contested \subseteq contested'
      /\ \A q \in SignIns \ {r} : pc'[q] = pc[q] /\ account'[q] = account[q] /\ Subject(q)' = Subject(q)
  BY OthersStay DEF Subject
<1>2. ASSUME pc'[r] = "heal"
      PROVE  /\ account'[r] = SsoAccount(r) /\ users[SsoAccount(r)] = NoSubject /\ users' = users
             /\ Rival(r, SsoAccount(r)) => SsoAccount(r) \in contested'
             /\ Subject(r)' = Subject(r)
  BY <1>2, SignInCases DEF Subject
<1>3. ASSUME NEW q \in SignIns, pc'[q] = "heal"
      PROVE  account'[q] \in contested' \/ users'[account'[q]] \in {NoSubject, Subject(q)'}
  <2>1. CASE q = r
    BY <1>2, <1>3, <2>1
  <2>2. CASE q # r
    <3>1. pc[q] = "heal" /\ account[q] \in Accounts /\ users[account[q]] # NoUser
      BY <1>1, <1>3, <2>2 DEF TypeOK, Exists
    <3>2. account[q] \in contested \/ users[account[q]] \in {NoSubject, Subject(q)}
      BY <3>1 DEF HealInv
    <3>3. pc[r] = "heal" /\ account[r] = account[q] => account[q] \in contested \/ Subject(r) = Subject(q)
      BY <3>1 DEF HealInv
    <3>. QED
      BY <1>1, <2>2, <3>1, <3>2, <3>3, RowChanges
  <2>. QED
    BY <2>1, <2>2
<1>4. ASSUME NEW q \in SignIns \ {r}, pc'[r] = "heal", pc'[q] = "heal", account'[q] = account'[r]
      PROVE  account'[r] \in contested' \/ Subject(q)' = Subject(r)'
  BY <1>1, <1>2, <1>4 DEF Rival
<1>5. ASSUME NEW q \in SignIns \ {r}, NEW t \in SignIns \ {r},
             pc'[q] = "heal", pc'[t] = "heal", account'[q] = account'[t]
      PROVE  account'[q] \in contested' \/ Subject(q)' = Subject(t)'
  BY <1>1, <1>5 DEF HealInv
<1>6. ASSUME NEW q \in SignIns, NEW t \in SignIns,
             pc'[q] = "heal", pc'[t] = "heal", account'[q] = account'[t]
      PROVE  account'[q] \in contested' \/ Subject(q)' = Subject(t)'
  BY <1>4, <1>5, <1>6
<1>. QED
  BY <1>3, <1>6 DEF HealInv

\* A row bound to a subject is overwritten only by those who contest it.
LEMMA KnownStep ==
  ASSUME TypeOK, SignInInv, HealInv, KnownInv, NEW r \in SignIns, SignInStep(r)
  PROVE  KnownInv'
<1> SUFFICES ASSUME NEW q \in SignIns, NEW a \in known'[q]
             PROVE  a \in contested' \/ users'[a] = Subject(q)'
  BY DEF KnownInv
<1>1. contested \subseteq contested'
  BY OthersStay
<1>2. ASSUME a \in known[q], Subject(q)' = Subject(q)
      PROVE  a \in contested' \/ users'[a] = Subject(q)'
  <2>1. a \in Accounts /\ Subject(q) # NoSubject /\ Subject(q) # NoUser
    BY <1>2, AccountFacts DEF TypeOK, SignInInv, Subject
  <2>2. a \in contested \/ users[a] = Subject(q)
    BY <1>2 DEF KnownInv
  <2>3. pc[r] = "heal" /\ account[r] = a => a \in contested \/ users[a] \in {NoSubject, Subject(r)}
    BY DEF HealInv
  <2>. QED
    BY <1>1, <1>2, <2>1, <2>2, <2>3, RowChanges
<1>3. CASE q # r
  BY <1>2, <1>3, OthersStay DEF Subject
<1>4. CASE q = r
  <2>1. \/ users' = users /\ known'[r] = (IF Subject(r)' = NoSubject THEN {} ELSE BoundTo(Subject(r)'))
        \/ UNCHANGED <<identity, known>>
        \/ known'[r] = {}
    BY SignInCases
  <2>2. CASE users' = users /\ known'[r] = (IF Subject(r)' = NoSubject THEN {} ELSE BoundTo(Subject(r)'))
    BY <1>4, <2>2 DEF BoundTo
  <2>3. CASE UNCHANGED <<identity, known>>
    BY <1>2, <1>4, <2>3 DEF Subject
  <2>. QED
    BY <1>4, <2>1, <2>2, <2>3
<1>. QED
  BY <1>3, <1>4

\* Who comes away with another account either had looked for its own in vain,
\* which takes a crossing, or lost it to a rival.
LEMMA StrayStep ==
  ASSUME TypeOK, SignInInv, TwinInv, KnownInv, SignInKeepsAccount, NEW r \in SignIns, SignInStep(r)
  PROVE  SignInKeepsAccount'
<1>1. contested \subseteq contested' /\ crossed \subseteq crossed'
  BY OthersStay
<1>2. CASE strayed' = strayed
  BY <1>1, <1>2 DEF SignInKeepsAccount
<1>3. CASE strayed' # strayed
  <2>1. \/ pc[r] = "subject" /\ \E a \in BoundTo(Subject(r)) : Resolved(r, a)
        \/ pc[r] \in Late /\ \E a : Resolved(r, a)
    BY <1>3, SignInCases DEF Late, Lost
  <2>2. PICK a : /\ Resolved(r, a)
                 /\ (pc[r] = "subject" /\ a \in BoundTo(Subject(r))) \/ pc[r] \in Late
    BY <2>1
  <2>3. a \notin known[r] /\ strayed' = strayed \cup ({Subject(r)} \X known[r])
    BY <1>3, <2>2 DEF Resolved
  <2>4. ASSUME NEW k \in known[r], k \notin contested PROVE Subject(r) \in crossed
    <3>1. Subject(r) \in Subjects /\ k \in BoundTo(Subject(r))
      BY <2>4 DEF TypeOK, SignInInv, KnownInv, Subject, BoundTo
    <3>. QED
      BY <2>2, <2>3, <2>4, <3>1 DEF TwinInv
  <2>5. \A p \in {Subject(r)} \X known[r] : p[2] \in contested \/ p[1] \in crossed
    BY <2>4
  <2>. QED
    BY <1>1, <2>3, <2>5 DEF SignInKeepsAccount
<1>. QED
  BY <1>2, <1>3

LEMMA IInvStep == IInv /\ [Next]_vars => IInv'
<1> SUFFICES ASSUME IInv, [Next]_vars PROVE IInv'
  OBVIOUS
<1>1. TypeOK' /\ SignInInv' /\ TwinInv'
  BY TypeStep, TwinStep DEF IInv
<1>2. HealInv' /\ KnownInv' /\ SignInKeepsAccount'
  BY StepCases, OthersKeepSubjects, HealStep, KnownStep, StrayStep DEF IInv
<1>. QED
  BY <1>1, <1>2 DEF IInv

\* A sign-in whose subject some account was bound to when it began gets that
\* account, whatever else the lookups, the healing and the creation by email of
\* other sign-ins do meanwhile, unless the account is contested or the subject crossed.
THEOREM SignInsKeepAccount == Spec => []SignInKeepsAccount
<1>1. Init => IInv
  BY TypeInit, SubjectInit DEF IInv
<1>2. IInv => SignInKeepsAccount
  BY DEF IInv
<1>. QED
  BY <1>1, <1>2, IInvStep, PTL DEF Spec

\* A row that is bound to a subject is bound to another only while it is contested.
BoundStaysBound ==
  [][\A a \in Accounts : users[a] \in Subjects => users'[a] = users[a] \/ a \in contested]_vars

\* UpdateUserSSOSubject writes whatever the row holds by now; yet no step of the
\* system, retries and restarts included, takes an account from the subject it is
\* bound to, unless sign-ins of two subjects had found it unbound at once.
THEOREM BoundAccountsStay == Spec => BoundStaysBound
<1>1. Init => IInv
  BY TypeInit, SubjectInit DEF IInv
<1>2. ASSUME IInv, [Next]_vars
      PROVE  [\A a \in Accounts : users[a] \in Subjects => users'[a] = users[a] \/ a \in contested]_vars
  <2>1. SUFFICES ASSUME NEW a \in Accounts, users[a] \in Subjects
                 PROVE  users'[a] = users[a] \/ a \in contested
    OBVIOUS
  <2>2. users[a] # NoUser /\ users[a] # NoSubject
    BY <2>1, AccountFacts
  <2>3. ASSUME NEW r \in SignIns, SignInStep(r) PROVE users'[a] = users[a] \/ a \in contested
    <3>1. pc[r] = "heal" /\ account[r] = a => a \in contested \/ users[a] \in {NoSubject, Subject(r)}
      BY <1>2 DEF IInv, HealInv
    <3>2. \/ users'[a] = users[a]
          \/ pc[r] = "heal" /\ account[r] = a /\ users'[a] = Subject(r)
          \/ pc[r] = "create" /\ users[a] = NoUser
      BY <1>2, <2>3, RowChanges DEF IInv
    <3>. QED
      BY <2>2, <3>1, <3>2
  <2>. QED
    BY <1>2, <2>2, <2>3, StepCases, OtherCases DEF IInv
<1>. QED
  BY <1>1, <1>2, IInvStep, PTL DEF Spec, BoundStaysBound
===============================================================================
