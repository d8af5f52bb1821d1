------------------------------ MODULE RequestGate ------------------------------
(***************************************************************************)
(* The gate every protected request passes: CSRFMiddleware, AuthMiddleware *)
(* with its three places for a credential, RejectPending and the role a    *)
(* route requires, while other requests change users, roles and API        *)
(* tokens.                                                                 *)
(*                                                                         *)
(* A request reads the credential and the user's row once each and is      *)
(* judged by that row; requests meet only in those rows, so one caller and *)
(* the changes of all others are enough.  The cut-off for passwords is in  *)
(* TokenRevocation: here a JWT is cut off at some moment or not.           *)
(***************************************************************************)
EXTENDS Integers

CONSTANTS
  Users,
  SsoUsers,      \* those whose auth_type is "sso"
  ApiTokens,     \* obk_ tokens, issued or not yet
  Jwts,          \* access tokens of this service
  Sessions,      \* SSO sessions (the openbucket_session cookie)
  Holder,        \* whose JWT or session it is
  Initially,     \* the roles the users may have at first
  MaxChanges,    \* bound: changes of the rows
  None

Roles == {"pending", "viewer", "editor", "admin"}
Absent == "absent"                                \* the role of a row not created yet

ASSUME UsersAssumption ==
  /\ None \notin Users /\ SsoUsers \subseteq Users
  /\ Initially \subseteq [Users -> Roles \cup {Absent}]
  /\ MaxChanges \in Nat

ASSUME CredentialsAssumption ==
  /\ None \notin ApiTokens \cup Jwts \cup Sessions
  /\ ApiTokens \cap Jwts = {} /\ ApiTokens \cap Sessions = {} /\ Jwts \cap Sessions = {}
  /\ Holder \in [Jwts \cup Sessions -> Users]

Credentials == ApiTokens \cup Jwts \cup Sessions
\* What a route is for: one's own account and logout, which any user may, pending
\* ones too; storage sessions and reading what is stored; changing folders and
\* objects; administering.  All but "edit" have safe methods and unsafe ones.
Routes == {"own", "use", "edit", "administer"}

\* Where a credential is looked for, in that order.
Places == 1 .. 3
Bearer == 1
Session == 2
Cookie == 3

VARIABLES
  role,       \* users.role
  active,     \* users.active
  owner,      \* api_tokens.user_id
  valid,      \* active and unexpired API tokens, unexpired JWTs, live sessions
  cutOff,     \* JWTs issued before their user's tokens_revoked_at
  pc,         \* where the request is
  route,      \* what it asks for
  safe,       \* whether with GET, HEAD or OPTIONS
  confirmed,  \* whether X-CSRF-Token matches the cookie
  carried,    \* the credential it carries in each place
  place,      \* the place being tried
  user,       \* the user in its context
  wasValid,   \* history: places whose credential was valid at some moment since it
              \* arrived
  wasEnough,  \* history: places whose user's row let it in at some moment since then
  steady,     \* history: places whose credential was good all the time since then
  faulted,    \* history: whether a read failed
  changes     \* changes of the rows so far

rowVars == <<role, active, owner, valid, cutOff>>
requestVars == <<pc, route, safe, confirmed, carried, place, user>>
historyVars == <<wasValid, wasEnough, steady, faulted, changes>>
vars == <<rowVars, requestVars, historyVars>>

OwnerOf(c) == IF c \in ApiTokens THEN owner[c] ELSE Holder[c]

\* validateApiToken, validateToken, sessionUser: what is asked of the user's row.
Accepted(c) ==
  /\ OwnerOf(c) \in Users
  /\ role[OwnerOf(c)] # Absent /\ active[OwnerOf(c)]
  /\ c \in Jwts => c \notin cutOff /\ OwnerOf(c) \notin SsoUsers

\* RejectPending, RequireEditor, RequireAdmin.
Suffices(has, asked) ==
  CASE asked = "own" -> TRUE
    [] asked = "use" -> has # "pending"
    [] asked = "edit" -> has \in {"editor", "admin"}
    [] asked = "administer" -> has = "admin"

ValidPlaces(creds) == {p \in Places : creds[p] \in valid}
AcceptedPlaces(creds) == {p \in Places : creds[p] # None /\ Accepted(creds[p])}
GoodPlaces(creds) == ValidPlaces(creds) \cap AcceptedPlaces(creds)
EnoughPlaces(creds, asked) ==
  {p \in AcceptedPlaces(creds) : Suffices(role[OwnerOf(creds[p])], asked)}

Init ==
  /\ role \in Initially
  /\ active = [u \in Users |-> TRUE]
  /\ owner = [t \in ApiTokens |-> None]
  /\ valid = {c \in Jwts \cup Sessions : role[Holder[c]] # Absent}
  /\ cutOff = {}
  /\ pc = "idle"
  /\ route = "use" /\ safe = TRUE /\ confirmed = FALSE
  /\ carried = [p \in Places |-> None]
  /\ place = Bearer /\ user = None
  /\ wasValid = {} /\ wasEnough = {} /\ steady = {} /\ faulted = FALSE
  /\ changes = 0

-------------------------------------------------------------------------------
(* The gate.                                                                *)

\* An Authorization header exempts from the CSRF check on its own, as the
\* documents say ...
CsrfPassesAnyBearer(creds, reading, matches) ==
  reading \/ matches \/ creds[Bearer] # None

\* ... only when no cookie could be used instead.  Safe methods are not checked.
CsrfPasses(creds, reading, matches) ==
  \/ reading
  \/ matches
  \/ creds[Bearer] # None /\ creds[Session] = None /\ creds[Cookie] = None

MayCarry == {c \in [Places -> Credentials \cup {None}] :
               /\ c[Bearer] \in ApiTokens \cup Jwts \cup {None}
               /\ c[Session] \in Sessions \cup {None}
               /\ c[Cookie] \in ApiTokens \cup Jwts \cup {None}}

\* A request comes in and passes CSRFMiddleware, or not.
Arrive ==
  /\ pc = "idle"
  /\ route' \in Routes /\ safe' \in IF route' = "edit" THEN {FALSE} ELSE BOOLEAN
  /\ confirmed' \in BOOLEAN
  /\ carried' \in MayCarry
  /\ pc' = IF CsrfPasses(carried', safe', confirmed') THEN "check" ELSE "refused"
  /\ place' = Bearer
  /\ user' = None
  /\ wasValid' = ValidPlaces(carried')
  /\ wasEnough' = EnoughPlaces(carried', route')
  /\ steady' = GoodPlaces(carried')
  /\ faulted' = FALSE
  /\ UNCHANGED <<rowVars, changes>>

\* A bad credential is refused on the spot ...
NextPlaceRefusing == pc' = "unauthenticated" /\ UNCHANGED place

\* The credential of this place does not serve: the next place is tried.
NextPlace ==
  /\ pc' = IF place = Cookie THEN "unauthenticated" ELSE "check"
  /\ place' = IF place = Cookie THEN Cookie ELSE place + 1

KeepRequest ==
  UNCHANGED <<rowVars, route, safe, confirmed, carried, wasValid, wasEnough, steady, changes>>

\* GetApiTokenByHash, ValidateAccessTokenClaims, Manager().Authenticate.
Check ==
  /\ pc = "check"
  /\ IF carried[place] \in valid THEN pc' = "row" /\ UNCHANGED place ELSE NextPlace
  /\ UNCHANGED <<user, faulted>>
  /\ KeepRequest

\* The identity provider is down when the session's tokens are due: 503.
ProviderUnavailable ==
  /\ pc = "check" /\ place = Session /\ carried[Session] # None
  /\ pc' = "unavailable"
  /\ UNCHANGED <<place, user, faulted>>
  /\ KeepRequest

ReadUserUncut ==
  /\ pc = "row"
  /\ LET u == OwnerOf(carried[place]) IN
     IF /\ u \in Users /\ role[u] # Absent /\ active[u]
        /\ carried[place] \in Jwts => u \notin SsoUsers
     THEN /\ user' = u
          /\ pc' = IF Suffices(role[u], route) THEN "acting" ELSE "refused"
          /\ UNCHANGED place
     ELSE NextPlace /\ UNCHANGED user
  /\ UNCHANGED faulted
  /\ KeepRequest

\* GetUserByID; the rest of the request goes by this row.
ReadUser ==
  /\ pc = "row"
  /\ LET u == OwnerOf(carried[place]) IN
     IF Accepted(carried[place])
     THEN /\ user' = u
          /\ pc' = IF Suffices(role[u], route) THEN "acting" ELSE "refused"
          /\ UNCHANGED place
     ELSE NextPlace /\ UNCHANGED user
  /\ UNCHANGED faulted
  /\ KeepRequest

\* A database error counts as a credential that does not serve.
ReadFault ==
  /\ pc = "row" \/ (pc = "check" /\ carried[place] \in ApiTokens \cup Sessions)
  /\ NextPlace
  /\ faulted' = TRUE
  /\ UNCHANGED user
  /\ KeepRequest

\* The response is written.
Finish ==
  /\ pc \in {"done", "refused", "unauthenticated", "unavailable"}
  /\ pc' = "idle"
  /\ route' = "use" /\ safe' = TRUE /\ confirmed' = FALSE
  /\ carried' = [p \in Places |-> None]
  /\ place' = Bearer /\ user' = None
  /\ wasValid' = {} /\ wasEnough' = {} /\ steady' = {} /\ faulted' = FALSE
  /\ UNCHANGED <<rowVars, changes>>

-------------------------------------------------------------------------------
(* What admins' requests do, this one or others.                            *)

\* history after a change of the rows
Watch ==
  /\ wasValid' = wasValid \cup ValidPlaces(carried)'
  /\ wasEnough' = wasEnough \cup EnoughPlaces(carried, route)'
  /\ steady' = steady \cap GoodPlaces(carried)'
  /\ UNCHANGED faulted

UpdateUserUnchecked(u, r, on) ==
  /\ role[u] # Absent
  /\ role' = [role EXCEPT ![u] = r]
  /\ active' = [active EXCEPT ![u] = on]
  /\ UNCHANGED <<owner, valid, cutOff>>

\* HandleAdminUpdateUser, which writes role and active at once, and
\* HandleAdminDeleteUser, which clears active.
UpdateUser(u, r, on) ==
  /\ role[u] # Absent /\ r \in Roles
  /\ role' = [role EXCEPT ![u] = r]
  /\ active' = [active EXCEPT ![u] = on]
  /\ UNCHANGED <<owner, valid, cutOff>>

\* HandleAdminCreateUser; the email is checked, and unique in the table.
CreateUser(u, r) ==
  /\ u \notin SsoUsers /\ role[u] = Absent
  /\ r \in {"viewer", "editor", "admin"}
  /\ role' = [role EXCEPT ![u] = r]
  /\ active' = [active EXCEPT ![u] = TRUE]
  /\ UNCHANGED <<owner, valid, cutOff>>

\* HandleAdminCreateApiToken, for the admin who asks.
CreateApiToken(t, u) ==
  /\ owner[t] = None
  /\ owner' = [owner EXCEPT ![t] = u]
  /\ valid' = valid \cup {t}
  /\ UNCHANGED <<role, active, cutOff>>

\* HandleAdminRevokeApiToken; a token's expiry, a JWT's, the end of a session.
End(c) ==
  /\ c \in valid
  /\ valid' = valid \ {c}
  /\ UNCHANGED <<role, active, owner, cutOff>>

\* HandleUpdateSelf with a new password, which only a local user has.
CutOff(u) ==
  /\ u \notin SsoUsers
  /\ cutOff' = cutOff \cup {c \in Jwts : Holder[c] = u}
  /\ UNCHANGED <<role, active, owner, valid>>

AdminChange(u) ==
  \/ \E v \in Users, r \in Roles \cup {"superuser"} :
       \/ CreateUser(v, r)
       \/ \E on \in BOOLEAN : UpdateUser(v, r, on)
  \/ \E t \in ApiTokens : CreateApiToken(t, u) \/ End(t)

\* Another request's handler, or time.
Others ==
  /\ changes < MaxChanges /\ changes' = changes + 1
  /\ \/ \E u \in Users : AdminChange(u) \/ CutOff(u)
     \/ \E c \in valid : End(c)
  /\ UNCHANGED requestVars
  /\ Watch

\* What this request's own handler may do to the rows; HandleLogout ends the
\* session its cookie names, whichever credential it was let in by.
HandlerChange ==
  \/ route = "administer" /\ AdminChange(user)
  \/ route = "own" /\ (CutOff(user) \/ End(carried[Session]))

Act ==
  /\ pc = "acting"
  /\ pc' = "done"
  /\ \/ ~safe /\ HandlerChange /\ changes < MaxChanges /\ changes' = changes + 1
     \/ UNCHANGED <<rowVars, changes>>
  /\ UNCHANGED <<route, safe, confirmed, carried, place, user>>
  /\ Watch

Next ==
  \/ Arrive \/ Check \/ ProviderUnavailable \/ ReadUser \/ ReadFault
  \/ Act \/ Finish \/ Others

Spec == Init /\ [][Next]_vars

-------------------------------------------------------------------------------
\* Type invariant; a role is one that the gate knows.
TypeOK ==
  /\ role \in [Users -> Roles \cup {Absent}]
  /\ active \in [Users -> BOOLEAN]
  /\ owner \in [ApiTokens -> Users \cup {None}]
  /\ valid \subseteq Credentials
  /\ cutOff \subseteq Jwts
  /\ pc \in {"idle", "check", "row", "acting", "done", "refused", "unauthenticated", "unavailable"}
  /\ route \in Routes
  /\ safe \in BOOLEAN /\ confirmed \in BOOLEAN /\ faulted \in BOOLEAN
  /\ carried \in MayCarry
  /\ place \in Places
  /\ user \in Users \cup {None}
  /\ wasValid \subseteq Places /\ wasEnough \subseteq Places /\ steady \subseteq Places
  /\ changes \in 0 .. MaxChanges

\* A request acts as the owner of a credential it carries, which was valid, and
\* which that owner's row let in, at moments since it arrived: neither cut off
\* nor an SSO user's JWT, the owner active and of a role that may.  What is
\* revoked, cut off, deactivated or demoted before a request never serves it.
ActsOnHeldAuthority ==
  pc = "acting" =>
    place \in wasValid /\ place \in wasEnough /\ user = OwnerOf(carried[place])

\* A change made on the strength of a cookie was confirmed by the CSRF token,
\* whatever Authorization header came with it.  docs/authentication.md:164 and
\* README.md:106 say that header exempts any request; the code does not.
CookieChangesConfirmed ==
  pc = "acting" /\ ~safe /\ place # Bearer => confirmed

\* Of the credentials that were good all the time, the first place wins; one is
\* passed over, or the request refused as unauthenticated, only after a failed read.
FirstSteadyWins ==
  pc \in {"acting", "unauthenticated"} /\ ~faulted =>
    \A p \in steady : pc = "acting" /\ place <= p
===============================================================================
