------------------------------ MODULE SsoSettings ------------------------------
(***************************************************************************)
(* The SSO settings, saved one key at a time, and the two things in memory *)
(* that are built from them: the session manager (sso.Reload) and the      *)
(* reporter of the activity sink.                                          *)
(*                                                                         *)
(* Three keys stand for all: the client's id and secret, which the sink    *)
(* uses, and the post-login URL, which the manager keeps.  A value is      *)
(* named by the handler that saved it.                                     *)
(***************************************************************************)
EXTENDS Integers, Sequences

CONSTANTS
  Savers,     \* HandleAdminUpdateSSOConfig
  Requests,   \* requests for the manager, which may find none yet
  Events,     \* successful changes by SSO users, each on a goroutine of its own
  Env,        \* the values of the environment variables
  Unset,
  None

ASSUME ProcessesAssumption ==
  /\ Savers \cap Requests = {} /\ Savers \cap Events = {} /\ Requests \cap Events = {}

ASSUME ValuesAssumption ==
  /\ Env \notin Savers /\ Unset \notin Savers \cup {Env}
  /\ None \notin Savers \cup {Env, Unset}

\* In the order in which they are saved.
ClientID == 1
ClientSecret == 2
PostLoginURL == 3
Keys == 1 .. 3

Values == Savers \cup {Env, Unset}
Reloaders == Savers \cup Requests
Processes == Reloaders \cup Events

VARIABLES
  settings,   \* the rows "sso.*" of the settings table
  current,    \* the post-login URL the live manager was built with, or None
  pc,
  todo,       \* keys a saver has yet to write
  url,        \* the post-login URL a reloader got from LoadConfig
  client,     \* the client an event got from LoadConfig
  built,      \* the reporters made, each with its client and how often closed
  got,        \* the reporter an event was given
  missed,     \* history: reloaders whose configuration was not read, or overtaken
  doubted     \* history: whether the live manager was built by one of them

memory == <<current, built>>
loaded == <<url, client>>
history == <<missed, doubted>>
vars == <<settings, memory, pc, todo, loaded, got, history>>

FromEnv == [k \in Keys |-> Env]

\* LoadConfig: the environment counts while no setting is saved, and for a
\* post-login URL that is not set.  (The environment is taken to have one.)
Config(rows) ==
  IF \A k \in Keys : rows[k] = Unset THEN FromEnv
  ELSE [rows EXCEPT ![PostLoginURL] = IF @ = Unset THEN Env ELSE @]

Client(config) == <<config[ClientID], config[ClientSecret]>>
NoClient == <<Unset, Unset>>
Usable(c) == c[1] # Unset /\ c[2] # Unset

Reporter == Len(built)      \* sinkReporter: the one made last; 0 is nil

Init ==
  /\ settings = [k \in Keys |-> Unset]
  /\ current = None
  /\ pc = [p \in Processes |-> "idle"]
  /\ todo = [h \in Savers |-> {}]
  /\ url = [p \in Reloaders |-> Unset]
  /\ client = [e \in Events |-> NoClient]
  /\ built = <<>>
  /\ got = [e \in Events |-> 0]
  /\ missed = {}
  /\ doubted = FALSE

-------------------------------------------------------------------------------
(* HandleAdminUpdateSSOConfig.                                              *)

\* The request names some of the keys, or none.
Receive(h) ==
  /\ pc[h] = "idle"
  /\ \E body \in SUBSET Keys : todo' = [todo EXCEPT ![h] = body]
  /\ pc' = [pc EXCEPT ![h] = IF todo'[h] = {} THEN "load" ELSE "saving"]
  /\ UNCHANGED <<settings, memory, loaded, got, history>>

IsNext(h, k) == k \in todo[h] /\ \A j \in todo[h] : k <= j

SetSettingOnly(h, k) ==
  /\ pc[h] = "saving" /\ IsNext(h, k)
  /\ todo' = [todo EXCEPT ![h] = @ \ {k}]
  /\ pc' = [pc EXCEPT ![h] = IF todo'[h] = {} THEN "done" ELSE "saving"]
  /\ settings' = [settings EXCEPT ![k] = h]
  /\ UNCHANGED <<memory, loaded, got, history>>

\* SetSetting, whose error is ignored.
SetSetting(h, k) ==
  /\ pc[h] = "saving" /\ IsNext(h, k)
  /\ todo' = [todo EXCEPT ![h] = @ \ {k}]
  /\ pc' = [pc EXCEPT ![h] = IF todo'[h] = {} THEN "load" ELSE "saving"]
  /\ settings' \in {settings, [settings EXCEPT ![k] = h]}
  /\ UNCHANGED <<memory, loaded, got, history>>

\* The secret cannot be encrypted: an error, and what was saved stays.
EncryptFault(h) ==
  /\ pc[h] = "saving" /\ IsNext(h, ClientSecret)
  /\ pc' = [pc EXCEPT ![h] = "done"]
  /\ todo' = [todo EXCEPT ![h] = {}]
  /\ UNCHANGED <<settings, memory, loaded, got, history>>

-------------------------------------------------------------------------------
(* sso.Reload, by a saver or by the first requests for the manager.         *)

\* Manager() finds none.
Need(r) ==
  /\ pc[r] = "idle" /\ current = None
  /\ pc' = [pc EXCEPT ![r] = "load"]
  /\ UNCHANGED <<settings, memory, todo, loaded, got, history>>

\* LoadConfig, one SELECT of all keys.
LoadURL(p) ==
  /\ pc[p] = "load"
  /\ pc' = [pc EXCEPT ![p] = "store"]
  /\ url' = [url EXCEPT ![p] = Config(settings)[PostLoginURL]]
  /\ UNCHANGED <<settings, memory, todo, client, got, history>>

\* A failed read counts as no settings.
LoadFault(p) ==
  /\ pc[p] = "load"
  /\ pc' = [pc EXCEPT ![p] = "store"]
  /\ url' = [url EXCEPT ![p] = FromEnv[PostLoginURL]]
  /\ missed' = missed \cup {p}
  /\ UNCHANGED <<settings, memory, todo, client, got, doubted>>

\* current.Store
Store(p) ==
  /\ pc[p] = "store"
  /\ pc' = [pc EXCEPT ![p] = "done"]
  /\ current' = url[p]
  /\ doubted' = (p \in missed)
  /\ missed' = {q \in Reloaders : pc'[q] = "store"}
  /\ url' = [url EXCEPT ![p] = Unset]
  /\ UNCHANGED <<settings, built, todo, client, got>>

-------------------------------------------------------------------------------
(* The activity sink.                                                       *)

\* A 2xx answer to a change by an SSO user: `go` in sinkReport.
Succeed(e) ==
  /\ pc[e] = "idle"
  /\ pc' = [pc EXCEPT ![e] = "load"]
  /\ UNCHANGED <<settings, memory, todo, loaded, got, history>>

\* LoadConfig, whether it can read the settings or not; no client when SSO is
\* not enabled or the secret cannot be decrypted.
LoadClient(e) ==
  /\ pc[e] = "load"
  /\ pc' = [pc EXCEPT ![e] = "obtain"]
  /\ \E c \in {Client(Config(settings)), Client(FromEnv), NoClient} :
       client' = [client EXCEPT ![e] = c]
  /\ UNCHANGED <<settings, memory, todo, url, got, history>>

\* `go old.Close` of the reporter replaced
Closed ==
  IF Reporter = 0 THEN built ELSE [built EXCEPT ![Reporter].closed = @ + 1]
WithNew(reporters, c) == Append(reporters, [client |-> c, closed |-> 0])

ObtainWith(e, usable, fresh, reporters) ==
  /\ pc[e] = "obtain"
  /\ IF usable
     THEN /\ pc' = [pc EXCEPT ![e] = "report"]
          /\ built' = IF fresh THEN built ELSE WithNew(reporters, client[e])
          /\ got' = [got EXCEPT ![e] = Len(built')]
          /\ UNCHANGED client
     ELSE /\ pc' = [pc EXCEPT ![e] = "done"]
          /\ client' = [client EXCEPT ![e] = NoClient]
          /\ UNCHANGED <<built, got>>
  /\ UNCHANGED <<settings, current, todo, url, history>>

IsFresh(e) == Reporter # 0 /\ built[Reporter].client = client[e]

ObtainAny(e) == ObtainWith(e, Usable(client[e]), Reporter # 0, Closed)
ObtainUnclosed(e) == ObtainWith(e, Usable(client[e]), IsFresh(e), built)
ObtainUnset(e) == ObtainWith(e, TRUE, IsFresh(e), Closed)

\* activitySink, from sinkMu.Lock to its return.
Obtain(e) == ObtainWith(e, Usable(client[e]), IsFresh(e), Closed)

\* rep.Report
Report(e) ==
  /\ pc[e] = "report"
  /\ pc' = [pc EXCEPT ![e] = "done"]
  /\ client' = [client EXCEPT ![e] = NoClient]
  /\ got' = [got EXCEPT ![e] = 0]
  /\ UNCHANGED <<settings, memory, todo, url, history>>

-------------------------------------------------------------------------------
\* Only the table survives.
Restart ==
  /\ current' = None
  /\ pc' = [p \in Processes |-> "idle"]
  /\ todo' = [h \in Savers |-> {}]
  /\ url' = [p \in Reloaders |-> Unset]
  /\ client' = [e \in Events |-> NoClient]
  /\ built' = <<>>
  /\ got' = [e \in Events |-> 0]
  /\ missed' = {}
  /\ doubted' = FALSE
  /\ UNCHANGED settings

Next ==
  \/ \E h \in Savers :
       \/ Receive(h) \/ EncryptFault(h)
       \/ \E k \in Keys : SetSetting(h, k)
  \/ \E r \in Requests : Need(r)
  \/ \E p \in Reloaders : LoadURL(p) \/ LoadFault(p) \/ Store(p)
  \/ \E e \in Events : Succeed(e) \/ LoadClient(e) \/ Obtain(e) \/ Report(e)
  \/ Restart

Spec == Init /\ [][Next]_vars

-------------------------------------------------------------------------------
\* Type invariant; no reporter is made without an id and a secret.
TypeOK ==
  /\ settings \in [Keys -> Values]
  /\ current \in Values \cup {None}
  /\ pc \in [Processes -> {"idle", "saving", "load", "store", "obtain", "report", "done"}]
  /\ todo \in [Savers -> SUBSET Keys]
  /\ url \in [Reloaders -> Values]
  /\ client \in [Events -> Values \X Values]
  /\ built \in Seq([client : (Values \ {Unset}) \X (Values \ {Unset}), closed : Nat])
  /\ got \in [Events -> 0 .. Len(built)]
  /\ missed \subseteq Reloaders
  /\ doubted \in BOOLEAN

Saving == \E p \in Reloaders : pc[p] \notin {"idle", "done"}

\* While no settings are being saved and no manager built, the live manager is that
\* of the settings, unless the reload that built it failed to read them or another
\* reload was stored between its reading and its storing.
StaleOnlyWhenDoubted ==
  ~Saving /\ current # None /\ ~doubted => current = Config(settings)[PostLoginURL]

\* activitySink: an event goes out with the credentials its goroutine read, however
\* often others have replaced the reporter since.
ReportedWithOwn ==
  \A e \in Events : pc[e] = "report" => built[got[e]].client = client[e]

\* activitySink: each reporter replaced is closed exactly once, the live one never.
ReplacedClosedOnce ==
  \A i \in 1 .. Len(built) : built[i].closed = IF i = Reporter THEN 0 ELSE 1
===============================================================================
