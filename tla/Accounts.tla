------------------------------- MODULE Accounts -------------------------------
(***************************************************************************)
(* How accounts come to be: the first administrator, created by a process  *)
(* that starts on an empty users table; sign-ins through the identity      *)
(* provider, which look for the account of a subject, then for one with    *)
(* the same email, whose subject they fill in, then create one; and the    *)
(* administrator's own requests.  Each query is a step; sign-ins, starting *)
(* processes and administrators run at the same time, and any query may    *)
(* fail, or take effect and lose its answer.                               *)
(*                                                                         *)
(* An account is named by its email and kind, on which the table has a     *)
(* unique index and which nothing updates.  Rows are never removed; their  *)
(* roles and active flags, which decide nothing here, are RequestGate's.   *)
(*                                                                         *)
(* Two things are taken for granted.  No subject holds an "@": the code    *)
(* tells the subjects of a provider from emails that older releases stored *)
(* by that, which suits forta's UUIDs (sso/provider.go) and would let a    *)
(* subject with an "@" be bound over.  And the configuration is that of    *)
(* the first start: a name and a password set, or changed, once accounts   *)
(* exist create nobody.                                                    *)
(***************************************************************************)
EXTENDS Integers, FiniteSets

CONSTANTS
  Processes,     \* API processes that share the database
  SignIns,       \* sign-ins through the provider that may run at once
  Subjects,      \* subjects of the provider, none with an "@"
  Emails,
  Configured,    \* OB_ADMIN_EMAIL and OB_ADMIN_PASSWORD are set
  AdminEmail,    \* OB_ADMIN_EMAIL
  NoSubject,     \* no subject of the provider: none, or in a row of an older
                 \* release the email
  NoUser         \* no row

ASSUME AccountsAssumption ==
  /\ Configured \in BOOLEAN
  /\ AdminEmail \in Emails
  /\ NoSubject \notin Subjects

Accounts == Emails \X {"local", "sso"}
Admin == <<AdminEmail, "local">>

ASSUME NoUserAssumption ==
  NoUser \notin Subjects /\ NoUser # NoSubject /\ NoUser \notin Accounts

VARIABLES
  users,      \* the table: the subject in the row of each account
  server,     \* where each process is
  pc,         \* where each sign-in is
  identity,   \* what the provider says of who signs in
  account,    \* the row a sign-in is about to bind to its subject
  known,      \* history: the accounts bound to the subject when the sign-in began
  contested,  \* history: accounts that two subjects' sign-ins found unbound at once
  strayed,    \* history: <<subject, account bound to it>> that got another account
  crossed,    \* history: subjects of two sign-ins that both found no account of it
  botched     \* history: creating the first administrator failed where it was due

serverVars == <<server, botched>>
signInVars == <<pc, identity, account, known, contested, crossed, strayed>>
vars == <<users, serverVars, signInVars>>

Pending == {"subject", "email", "heal", "create"}

Exists(a) == users[a] # NoUser
ServingEarly == \E p \in Processes : server[p] # "down"

Serving == \E p \in Processes : server[p] = "serving"

-------------------------------------------------------------------------------
(* The table.                                                               *)

Nobody == [subject |-> NoSubject, email |-> AdminEmail]

\* An empty table, or the administrator and accounts of an older release.
Init ==
  /\ \E old \in SUBSET Emails :
       users = [a \in Accounts |->
         CASE a[2] = "sso" /\ a[1] \in old -> NoSubject
           [] a = Admin /\ old # {} -> NoSubject
           [] OTHER -> NoUser]
  /\ server = [p \in Processes |-> "down"]
  /\ pc = [r \in SignIns |-> "idle"]
  /\ identity = [r \in SignIns |-> Nobody]
  /\ account = [r \in SignIns |-> NoUser]
  /\ known = [r \in SignIns |-> {}]
  /\ contested = {}
  /\ crossed = {}
  /\ strayed = {}
  /\ botched = FALSE

BoundTo(s) == {a \in Accounts : users[a] = s}

\* INSERT INTO users: the unique index refuses a second row.
Insert(a, s) == ~Exists(a) /\ users' = [users EXCEPT ![a] = s]

-------------------------------------------------------------------------------
(* A process that starts.                                                   *)

Move(p, label) == server' = [server EXCEPT ![p] = label]

\* main up to EnsureAdminUser, which counts the users.
CountUsers(p) ==
  /\ server[p] = "down"
  /\ Move(p, IF Configured /\ \A a \in Accounts : ~Exists(a) THEN "insert" ELSE "serving")
  /\ UNCHANGED <<users, botched, signInVars>>

\* It creates the administrator, or is refused because another process has:
\* an error, and like every error of EnsureAdminUser only a warning.
CreateAdmin(p) ==
  /\ server[p] = "insert"
  /\ Insert(Admin, NoSubject) \/ (Exists(Admin) /\ UNCHANGED users)
  /\ Move(p, "serving")
  /\ UNCHANGED <<botched, signInVars>>

\* Counting or creating fails: the process serves all the same.
BootstrapFault(p) ==
  /\ server[p] \in {"down", "insert"}
  /\ Move(p, "serving")
  /\ botched' = (botched \/ (Configured /\ ~Exists(Admin)))
  /\ UNCHANGED <<users, signInVars>>

Crash(p) ==
  /\ server[p] # "down"
  /\ Move(p, "down")
  /\ UNCHANGED <<users, botched, signInVars>>

-------------------------------------------------------------------------------
(* A sign-in.                                                               *)

Goto(r, label) == pc' = [pc EXCEPT ![r] = label]
Subject(r) == identity[r].subject
SsoAccount(r) == <<identity[r].email, "sso">>

\* The provider has vouched for an identity with an email.  A subject's email
\* may differ from one sign-in to the next, and one that is over may be
\* followed by any number of others.
Begin(r, s, e) ==
  /\ pc[r] = "idle"
  /\ Serving
  /\ identity' = [identity EXCEPT ![r] = [subject |-> s, email |-> e]]
  /\ Goto(r, IF s = NoSubject THEN "email" ELSE "subject")
  /\ known' = [known EXCEPT ![r] = IF s = NoSubject THEN {} ELSE BoundTo(s)]
  /\ UNCHANGED <<users, serverVars, account, contested, crossed, strayed>>

\* The sign-in is over and nothing of it is left.
Over(r) ==
  /\ Goto(r, "idle")
  /\ identity' = [identity EXCEPT ![r] = Nobody]
  /\ account' = [account EXCEPT ![r] = NoUser]
  /\ known' = [known EXCEPT ![r] = {}]

Lost(r) == Over(r) /\ UNCHANGED strayed

\* It has found or made account a.  Whether the active flag of the row then
\* lets it in makes no difference here.
Resolved(r, a) ==
  /\ Over(r)
  /\ strayed' = strayed \cup IF a \in known[r] THEN {} ELSE {Subject(r)} \X known[r]

\* Another sign-in of the same subject has looked for its account in vain and
\* is not over.
Twin(r) == \E q \in SignIns \ {r} : Subject(q) = Subject(r) /\ pc[q] \in {"email", "heal", "create"}

LookupSubjectFound(r) ==
  /\ \E a \in BoundTo(Subject(r)) : Resolved(r, a)
  /\ UNCHANGED crossed

LookupSubjectMissed(r) ==
  /\ Goto(r, "email")
  /\ crossed' = IF Twin(r) THEN crossed \cup {Subject(r)} ELSE crossed
  /\ UNCHANGED <<identity, account, known, strayed>>

LookupSubjectSkipped(r) ==
  /\ pc[r] = "subject"
  /\ LookupSubjectMissed(r)
  /\ UNCHANGED <<users, serverVars, contested>>

LookupSubjectFaultIgnored(r) ==
  /\ pc[r] = "subject"
  /\ LookupSubjectFound(r) \/ LookupSubjectMissed(r)
  /\ UNCHANGED <<users, serverVars, contested>>

\* GetUserBySSOSubject: one of the rows with the subject.
LookupSubject(r) ==
  /\ pc[r] = "subject"
  /\ IF BoundTo(Subject(r)) # {} THEN LookupSubjectFound(r) ELSE LookupSubjectMissed(r)
  /\ UNCHANGED <<users, serverVars, contested>>

\* The row has no subject of the provider yet: none, or one with an "@".
Unbound(a) == users[a] = NoSubject

\* Another sign-in, of another subject, is about to bind account a.
Rival(r, a) == \E q \in SignIns \ {r} : pc[q] = "heal" /\ account[q] = a /\ Subject(q) # Subject(r)

\* The row is taken to be bound to this subject in a call of its own.
Healing(r, a) ==
  /\ Goto(r, "heal")
  /\ account' = [account EXCEPT ![r] = a]
  /\ contested' = IF Rival(r, a) THEN contested \cup {a} ELSE contested
  /\ UNCHANGED <<identity, known, strayed>>

\* The account with the identity's email: an unbound one is bound first, one
\* that is bound is taken as it is.
FoundByEmail(r, a) ==
  IF Subject(r) # NoSubject /\ Unbound(a)
  THEN Healing(r, a)
  ELSE Resolved(r, a) /\ UNCHANGED contested

\* No account: one is created, when the provider's settings allow it.
NotFound(r) ==
  /\ \/ Goto(r, "create") /\ UNCHANGED <<identity, account, known, strayed>>
     \/ Lost(r)
  /\ UNCHANGED contested

LookupAnyKind(r) ==
  /\ pc[r] = "email"
  /\ LET found == {a \in Accounts : a[1] = identity[r].email /\ Exists(a)} IN
     IF found # {} THEN \E a \in found : FoundByEmail(r, a) ELSE NotFound(r)
  /\ UNCHANGED <<users, serverVars, crossed>>

\* GetUserByEmailAndAuthType.
LookupEmail(r) ==
  /\ pc[r] = "email"
  /\ IF Exists(SsoAccount(r)) THEN FoundByEmail(r, SsoAccount(r)) ELSE NotFound(r)
  /\ UNCHANGED <<users, serverVars, crossed>>

\* UpdateUserSSOSubject, whatever the row holds by now; a failure is logged
\* and the sign-in goes on with the row as it was read.
Heal(r) ==
  /\ pc[r] = "heal"
  /\ \/ users' = [users EXCEPT ![account[r]] = Subject(r)]
     \/ UNCHANGED users
  /\ Resolved(r, account[r])
  /\ UNCHANGED <<serverVars, contested, crossed>>

\* CreateUser: the insert, and the read of the new row, which may fail.
Create(r) ==
  /\ pc[r] = "create"
  /\ Insert(SsoAccount(r), Subject(r))
  /\ \/ Resolved(r, SsoAccount(r))
     \/ Lost(r)
  /\ UNCHANGED <<serverVars, contested, crossed>>

\* A lookup or an insert fails without effect, an insert because the row is
\* there already among others, or the process stops: the sign-in fails.
SignInFault(r) ==
  /\ pc[r] \in Pending
  /\ Lost(r)
  /\ UNCHANGED <<users, serverVars, contested, crossed>>

-------------------------------------------------------------------------------
(* An administrator's request.                                              *)

\* HandleAdminCreateUser.  It looks for the row first, but what decides is
\* the unique index.  Someone must be there to ask.
AdminCreateUser(e) ==
  /\ Serving
  /\ \E a \in Accounts : Exists(a)
  /\ Insert(<<e, "local">>, NoSubject)
  /\ UNCHANGED <<serverVars, signInVars>>

-------------------------------------------------------------------------------
Next ==
  \/ \E p \in Processes :
       CountUsers(p) \/ CreateAdmin(p) \/ BootstrapFault(p) \/ Crash(p)
  \/ \E r \in SignIns :
       \/ \E s \in Subjects \cup {NoSubject}, e \in Emails : Begin(r, s, e)
       \/ LookupSubject(r) \/ LookupEmail(r) \/ Heal(r) \/ Create(r) \/ SignInFault(r)
  \/ \E e \in Emails : AdminCreateUser(e)

Spec == Init /\ [][Next]_vars

-------------------------------------------------------------------------------
\* Type invariant.  Only accounts of the provider have a subject, and a
\* sign-in has a row of the table before it ends well.
TypeOK ==
  /\ users \in [Accounts -> Subjects \cup {NoSubject, NoUser}]
  /\ server \in [Processes -> {"down", "insert", "serving"}]
  /\ pc \in [SignIns -> {"idle"} \cup Pending]
  /\ identity \in [SignIns -> [subject : Subjects \cup {NoSubject}, email : Emails]]
  /\ account \in [SignIns -> Accounts \cup {NoUser}]
  /\ known \in [SignIns -> SUBSET Accounts]
  /\ contested \subseteq Accounts
  /\ crossed \subseteq Subjects
  /\ botched \in BOOLEAN
  /\ \A a \in Accounts : Exists(a) /\ a[2] = "local" => users[a] = NoSubject
  /\ strayed \subseteq Subjects \X Accounts
  /\ \A r \in SignIns : pc[r] = "heal" => account[r] \in Accounts /\ Exists(account[r])

\* Who signs in with a subject that some account is bound to gets that
\* account, whatever email the provider names by then; except when sign-ins of
\* two subjects found that account unbound at once and both bound it, or two
\* sign-ins of the subject looked for its account at once and found none.
\* docs/authentication.md:122 says that the user is matched on the field of
\* OB_SSO_USER_IDENTIFIER, the email by default; the code asks for the subject
\* first, and this is what follows from it.
SignInKeepsAccount == \A p \in strayed : p[2] \in contested \/ p[1] \in crossed

\* A subject is bound to one account at most, retries after a lost answer
\* and changes of email included, unless two sign-ins of the subject looked
\* for its account at the same time and both found none.
TwinsOnlyWhenCrossed ==
  \A s \in Subjects : Cardinality(BoundTo(s)) > 1 => s \in crossed

\* Where the first administrator is configured and some account exists, that
\* administrator exists, however many processes start at once and stop half
\* way: a table that others filled first is never counted as set up.  The
\* exception is a process that failed to create it, and serves all the same.
\* It is about what was configured before the first account.
AdminlessOnlyWhenBotched ==
  Configured /\ (\E a \in Accounts : Exists(a)) => Exists(Admin) \/ botched
===============================================================================
