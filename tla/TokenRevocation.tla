---------------------------- MODULE TokenRevocation ----------------------------
(***************************************************************************)
(* The sessions of one local account: the access and refresh JWTs minted   *)
(* by login, refresh and a password change, and the users.tokens_revoked_at *)
(* cut-off every later use of a token is compared with.  Handlers run      *)
(* concurrently and each reads the user row before it mints, so every      *)
(* database call and every reading of the clock is a step of its own.      *)
(*                                                                         *)
(* The two tokens of a pair differ only in how long they live; a pair is   *)
(* one record here.  Accounts share nothing but the code.  Passwords are   *)
(* numbered in the order they are set.  Time is whole seconds, as in `iat` *)
(* and in the DATETIME column.                                             *)
(***************************************************************************)
EXTENDS Integers

CONSTANTS
  HasApiToken,  \* an admin's account may have an API token, which no cut-off ends
  Handlers,     \* login, refresh and password-change requests in flight
  AccessTTL,    \* accessTokenExpiry, in seconds
  RefreshTTL,   \* refreshTokenExpiry, in seconds
  MaxTime,      \* bound of the clock
  MaxPassword   \* bound of the number of password changes

ASSUME TimesAssumption ==
  /\ AccessTTL \in Nat /\ RefreshTTL \in Nat
  /\ MaxTime \in Nat /\ MaxPassword \in Nat
  /\ HasApiToken \in BOOLEAN

VARIABLES
  now,        \* the clock
  password,   \* users.password_hash: which password it is the hash of
  active,     \* users.active
  revokedAt,  \* users.tokens_revoked_at, Never for NULL
  tokens,     \* the pairs issued, until both have expired
  pc,         \* where each handler is
  pv,         \* the password the handler's caller proved to know
  late,       \* history: the handler escapes the newest change (see Tokens)
  cutoff,     \* HandleUpdateSelf's cut-off
  ended       \* history: the password whose change wrote the current cut-off

rowVars == <<password, active, revokedAt>>
handlerVars == <<pc, pv, late, cutoff>>
vars == <<now, rowVars, tokens, handlerVars, ended>>

Never == -1
Times == 0 .. MaxTime
Passwords == 0 .. MaxPassword

\* iat, the password behind the chain of refreshes, whether a handler of the chain
\* escaped the newest password change by minting after its cut-off was taken on a
\* row read before it was written, and whether a change minted the pair.
Tokens == [iat : Times, pv : Passwords, late : BOOLEAN, own : BOOLEAN]

Init ==
  /\ now = 0
  /\ password = 0
  /\ active = TRUE
  /\ revokedAt = Never
  /\ tokens = {}
  /\ pc = [h \in Handlers |-> "idle"]
  /\ pv = [h \in Handlers |-> 0]
  /\ late = [h \in Handlers |-> FALSE]
  /\ cutoff = [h \in Handlers |-> 0]
  /\ ended = 0

-------------------------------------------------------------------------------
(* Checks shared by the handlers.                                           *)

RevokedIfBefore(t) == t.iat < revokedAt

\* A token issued in the same second as the cut-off counts as revoked.
Revoked(t) == t.iat <= revokedAt

\* middleware.validateToken for a local account.
Accepts(t) == now < t.iat + AccessTTL /\ active /\ ~Revoked(t)

\* A handler goes on holding what the row told it.
Hold(h, label, known, escapes) ==
  /\ pc' = [pc EXCEPT ![h] = label]
  /\ pv' = [pv EXCEPT ![h] = known]
  /\ late' = [late EXCEPT ![h] = escapes]

\* A handler answers; what it held is forgotten.
Answer(h) ==
  /\ Hold(h, "idle", 0, FALSE)
  /\ cutoff' = [cutoff EXCEPT ![h] = 0]

-------------------------------------------------------------------------------
(* Signing in and staying signed in.                                        *)

\* HandleLogin up to CheckPassword: the row is read and the password matches it.
Login(h) ==
  /\ pc[h] = "idle"
  /\ active
  /\ Hold(h, "mint", password, FALSE)
  /\ UNCHANGED <<now, rowVars, tokens, cutoff, ended>>

RefreshUnchecked(h, t) ==
  /\ pc[h] = "idle"
  /\ now < t.iat + RefreshTTL
  /\ active
  /\ Hold(h, "mint", t.pv, t.late)
  /\ UNCHANGED <<now, rowVars, tokens, cutoff, ended>>

\* HandleRefresh up to the cut-off: the cookie is valid and the row accepts it.
Refresh(h, t) ==
  /\ pc[h] = "idle"
  /\ now < t.iat + RefreshTTL
  /\ active
  /\ ~Revoked(t)
  /\ Hold(h, "mint", t.pv, t.late)
  /\ UNCHANGED <<now, rowVars, tokens, cutoff, ended>>

\* The newest change has taken its cut-off and not written it.
Unwritten == \E g \in Handlers : pc[g] = "stamp" /\ pv[g] = password

Minted(h) ==
  [iat |-> now, pv |-> pv[h], late |-> late[h] \/ Unwritten, own |-> pc[h] = "wait"]

MintAtOnce(h) ==
  /\ pc[h] \in {"mint", "wait"}
  /\ tokens' = tokens \cup {Minted(h)}
  /\ Answer(h)
  /\ UNCHANGED <<now, rowVars, ended>>

\* setAuthCookies: a pair issued now, whatever the row says by now.  A password
\* change sleeps into the second after its cut-off first.
Mint(h) ==
  /\ \/ pc[h] = "mint"
     \/ pc[h] = "wait" /\ now >= cutoff[h] + 1
  /\ tokens' = tokens \cup {Minted(h)}
  /\ Answer(h)
  /\ UNCHANGED <<now, rowVars, ended>>

-------------------------------------------------------------------------------
(* Changing the password (HandleUpdateSelf).                                *)

\* AuthMiddleware accepts a JWT or an API token and loads the row;
\* checkPasswordChange matches the current password with that row.
BeginChange(h) ==
  /\ pc[h] = "idle"
  /\ \/ \E t \in tokens : Accepts(t)
     \/ HasApiToken /\ active
  /\ Hold(h, "update", password, FALSE)
  /\ UNCHANGED <<now, rowVars, tokens, cutoff, ended>>

\* query.UpdateUser: the new hash.  The update can fail, and the read that follows
\* it can fail with the update done: both answer 500.  Nothing has escaped the
\* change yet.
UpdateUser(h) ==
  /\ pc[h] = "update"
  /\ \/ /\ password < MaxPassword
        /\ password' = password + 1
        /\ tokens' = {[t EXCEPT !.late = FALSE] : t \in tokens}
        /\ late' = [g \in Handlers |-> FALSE]
        /\ \/ /\ pc' = [pc EXCEPT ![h] = "cutoff"]
              /\ pv' = [pv EXCEPT ![h] = password + 1]
              /\ UNCHANGED cutoff
           \/ /\ pc' = [pc EXCEPT ![h] = "idle"]
              /\ pv' = [pv EXCEPT ![h] = 0]
              /\ cutoff' = [cutoff EXCEPT ![h] = 0]
     \/ Answer(h) /\ UNCHANGED <<password, tokens>>
  /\ UNCHANGED <<now, active, revokedAt, ended>>

NextSecondCutoff(h) ==
  /\ pc[h] = "cutoff"
  /\ cutoff' = [cutoff EXCEPT ![h] = now + 1]
  /\ pc' = [pc EXCEPT ![h] = "stamp"]
  /\ UNCHANGED <<now, rowVars, tokens, pv, late, ended>>

\* cutoff := time.Now().Truncate(time.Second)
TakeCutoff(h) ==
  /\ pc[h] = "cutoff"
  /\ cutoff' = [cutoff EXCEPT ![h] = now]
  /\ pc' = [pc EXCEPT ![h] = "stamp"]
  /\ UNCHANGED <<now, rowVars, tokens, pv, late, ended>>

\* query.RevokeUserTokensAt overwrites the cut-off, or fails and answers 500.
\* Handlers about to mint have read the row without it.
RevokeUserTokensAt(h) ==
  /\ pc[h] = "stamp"
  /\ \/ /\ revokedAt' = cutoff[h]
        /\ ended' = pv[h]
        /\ pc' = [pc EXCEPT ![h] = "wait"]
        /\ late' = [g \in Handlers |->
                       late[g] \/ (pc[g] \in {"mint", "wait"} /\ pv[h] = password)]
        /\ UNCHANGED <<pv, cutoff>>
     \/ Answer(h) /\ UNCHANGED <<revokedAt, ended>>
  /\ UNCHANGED <<now, password, active, tokens>>

-------------------------------------------------------------------------------
(* The rest of the system.                                                  *)

\* HandleAdminUpdateUser and HandleAdminDeleteUser.
SetActive(value) ==
  /\ active # value
  /\ active' = value
  /\ UNCHANGED <<now, password, revokedAt, tokens, handlerVars, ended>>

\* A pair whose refresh token has expired too is of no further use to anyone.
Tick ==
  /\ now < MaxTime
  /\ now' = now + 1
  /\ tokens' = {t \in tokens : now' < t.iat + RefreshTTL}
  /\ UNCHANGED <<rowVars, handlerVars, ended>>

\* The process stops, with handlers between any two of their steps.
Restart ==
  /\ pc' = [h \in Handlers |-> "idle"]
  /\ pv' = [h \in Handlers |-> 0]
  /\ late' = [h \in Handlers |-> FALSE]
  /\ cutoff' = [h \in Handlers |-> 0]
  /\ UNCHANGED <<now, rowVars, tokens, ended>>

HandlerStep(h) ==
  \/ Login(h)
  \/ \E t \in tokens : Refresh(h, t)
  \/ BeginChange(h)
  \/ UpdateUser(h)
  \/ TakeCutoff(h)
  \/ RevokeUserTokensAt(h)
  \/ Mint(h)

Next ==
  \/ \E h \in Handlers : HandlerStep(h)
  \/ \E value \in BOOLEAN : SetActive(value)
  \/ Tick
  \/ Restart

Spec == Init /\ [][Next]_vars

-------------------------------------------------------------------------------
(* Properties.                                                              *)

\* Every variable has its type, and no token or cut-off is from the future.
TypeOK ==
  /\ now \in Times
  /\ password \in Passwords
  /\ active \in BOOLEAN
  /\ revokedAt \in Times \cup {Never} /\ revokedAt <= now
  /\ tokens \subseteq {t \in Tokens : t.iat <= now}
  /\ pc \in [Handlers -> {"idle", "mint", "update", "cutoff", "stamp", "wait"}]
  /\ pv \in [Handlers -> Passwords]
  /\ late \in [Handlers -> BOOLEAN]
  /\ cutoff \in [Handlers -> Times] /\ \A h \in Handlers : cutoff[h] <= now
  /\ ended \in Passwords

\* HandleUpdateSelf and HandleRefresh together: while the cut-off is the one the
\* current password's change wrote, no token obtained with an earlier password is
\* good, directly or through any chain of refreshes - except when a handler of
\* the chain read the row before that cut-off was written and minted after it was
\* taken.
OldSessionsEndUnlessLate ==
  ended = password =>
    \A t \in tokens : t.pv # password /\ ~t.late => Revoked(t)

\* HandleUpdateSelf: "this browser gets fresh ones so it stays signed in": the
\* pair a change answers with is not cut off by the change's own cut-off.
ChangerStaysSignedIn ==
  \A t \in tokens : t.own /\ t.pv = ended => ~Revoked(t)

\* HandleUpdateSelf: "A new password ends every other session": with no change in
\* flight and the last one's cut-off written, no token of an earlier password works.
NewPasswordEndsOtherSessions ==
  ended = password => \A t \in tokens : t.pv # password => ~Accepts(t)
===============================================================================
