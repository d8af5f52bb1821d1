------------------------- MODULE TokenRevocationProofs -------------------------
(***************************************************************************)
(* Proofs about TokenRevocation, for any number of handlers, any token     *)
(* lifetimes and any bounds of the clock and of the password changes.      *)
(***************************************************************************)
EXTENDS TokenRevocation, TLAPS

(* What the invariants need to be inductive.                                *)

Changing(h) == pc[h] \in {"cutoff", "stamp", "wait"}

\* Nothing knows a password that has not been set yet.
KnownInv ==
  /\ ended <= password
  /\ \A t \in tokens : t.pv <= password
  /\ \A h \in Handlers : pv[h] <= password

\* A change that set the current password has, once it has its cut-off, every
\* token of the earlier passwords behind it, save the late ones.
CutoffInv ==
  \A h \in Handlers :
    pc[h] = "stamp" /\ pv[h] = password =>
      \A t \in tokens : t.pv # password /\ ~t.late => t.iat <= cutoff[h]

\* While the current password's cut-off stands, a handler about to mint for an
\* older password had read the row without it.
LateInv ==
  ended = password =>
    \A h \in Handlers : pc[h] \in {"mint", "wait"} /\ pv[h] # password => late[h]

\* Each change in flight has a password of its own, which no cut-off and no
\* change's token belongs to before the change has written its cut-off.
ChangeInv ==
  \A h \in Handlers :
    Changing(h) =>
      /\ \A g \in Handlers : Changing(g) /\ pv[g] = pv[h] => g = h
      /\ pc[h] # "wait" => ended # pv[h] /\ \A t \in tokens : t.own => t.pv # pv[h]
      /\ pc[h] = "wait" /\ ended = pv[h] => revokedAt = cutoff[h]

IInv ==
  /\ TypeOK
  /\ KnownInv
  /\ CutoffInv
  /\ LateInv
  /\ ChangeInv
  /\ OldSessionsEndUnlessLate
  /\ ChangerStaysSignedIn

-------------------------------------------------------------------------------

\* Handlers about to mint miss the cut-off a change writes.
Overtaken(h) ==
  late' = [g \in Handlers |-> late[g] \/ (pc[g] \in {"mint", "wait"} /\ pv[h] = password)]

\* A minted pair is issued now, on what the handler holds.
LEMMA MintedFacts ==
  ASSUME TypeOK, NEW h \in Handlers
  PROVE  /\ Minted(h) \in Tokens
         /\ Minted(h).iat = now /\ Minted(h).pv = pv[h]
         /\ Minted(h).late <=> late[h] \/ Unwritten
         /\ Minted(h).own <=> pc[h] = "wait"
  <1>1. Unwritten \in BOOLEAN
    BY DEF Unwritten
  <1> HIDE DEF Unwritten
  <1>2. QED
    BY <1>1 DEF TypeOK, Minted, Tokens

\* A handler that answers leaves its variables with their types.
LEMMA HoldFacts ==
  ASSUME TypeOK, NEW h \in Handlers, Answer(h), UNCHANGED now
  PROVE  /\ pc' \in [Handlers -> {"idle", "mint", "update", "cutoff", "stamp", "wait"}]
         /\ pv' \in [Handlers -> Passwords]
         /\ late' \in [Handlers -> BOOLEAN]
         /\ cutoff' \in [Handlers -> Times] /\ \A g \in Handlers : cutoff'[g] <= now'
  BY TimesAssumption DEF TypeOK, Answer, Hold, Times, Passwords

LEMMA TypeInit == Init => TypeOK
  BY TimesAssumption DEF Init, TypeOK, Times, Passwords, Never

LEMMA TypeStep == TypeOK /\ [Next]_vars => TypeOK'
  <1> SUFFICES ASSUME TypeOK, [Next]_vars PROVE TypeOK'
    OBVIOUS
  <1> USE TimesAssumption DEF TypeOK, Times, Passwords, Never
  <1>1. ASSUME NEW h \in Handlers, Login(h) PROVE TypeOK'
    BY <1>1 DEF Login, Hold, rowVars
  <1>2. ASSUME NEW h \in Handlers, NEW t \in tokens, Refresh(h, t) PROVE TypeOK'
    BY <1>2 DEF Refresh, Hold, rowVars, Tokens
  <1>3. ASSUME NEW h \in Handlers, BeginChange(h) PROVE TypeOK'
    BY <1>3 DEF BeginChange, Hold, rowVars
  <1>4. ASSUME NEW h \in Handlers, UpdateUser(h) PROVE TypeOK'
    <2>1. UNCHANGED <<now, active, revokedAt, ended>>
      BY <1>4 DEF UpdateUser
    <2>2. CASE Answer(h) /\ UNCHANGED <<password, tokens>>
      BY <2>1, <2>2, HoldFacts
    <2>3. CASE password < MaxPassword /\ password' = password + 1
      <3>1. password' \in Passwords
        <4>1. password \in 0 .. MaxPassword /\ MaxPassword \in Nat
          OBVIOUS
        <4>2. QED
          BY <2>3, <4>1
      <3>2. tokens' = {[t EXCEPT !.late = FALSE] : t \in tokens} /\ late' = [g \in Handlers |-> FALSE]
        <4>1. password' # password
          BY <2>3
        <4>2. QED
          BY <1>4, <4>1 DEF UpdateUser
      <3>3. \A t \in tokens : [t EXCEPT !.late = FALSE] \in {u \in Tokens : u.iat <= now}
        BY DEF Tokens
      <3>4. tokens' \subseteq {u \in Tokens : u.iat <= now'}
        BY <2>1, <3>2, <3>3
      <3>5. /\ pc' \in [Handlers -> {"idle", "mint", "update", "cutoff", "stamp", "wait"}]
            /\ pv' \in [Handlers -> Passwords]
            /\ cutoff' \in [Handlers -> Times] /\ \A g \in Handlers : cutoff'[g] <= now'
        BY <1>4, <2>1, <2>3, <3>1 DEF UpdateUser, Answer, Hold
      <3>6. QED
        BY <2>1, <3>1, <3>2, <3>4, <3>5
    <2>4. QED
      BY <1>4, <2>2, <2>3 DEF UpdateUser
  <1>5. ASSUME NEW h \in Handlers, TakeCutoff(h) PROVE TypeOK'
    BY <1>5 DEF TakeCutoff, rowVars
  <1>6. ASSUME NEW h \in Handlers, RevokeUserTokensAt(h) PROVE TypeOK'
    <2>1. /\ revokedAt' \in Times \cup {Never} /\ revokedAt' <= now
          /\ ended' \in Passwords
          /\ UNCHANGED <<now, password, active, tokens>>
      BY <1>6 DEF RevokeUserTokensAt
    <2>2. CASE Answer(h)
      BY <2>1, <2>2, HoldFacts
    <2>3. CASE pc' = [pc EXCEPT ![h] = "wait"] /\ UNCHANGED <<pv, cutoff>> /\ Overtaken(h)
      BY <2>1, <2>3 DEF Overtaken
    <2>4. QED
      BY <1>6, <2>2, <2>3 DEF RevokeUserTokensAt, Overtaken
  <1>7. ASSUME NEW h \in Handlers, Mint(h) PROVE TypeOK'
    BY <1>7, MintedFacts DEF Mint, Answer, Hold, rowVars
  <1>8. ASSUME NEW value \in BOOLEAN, SetActive(value) PROVE TypeOK'
    BY <1>8 DEF SetActive, handlerVars
  <1>9. CASE Tick
    BY <1>9 DEF Tick, rowVars, handlerVars, Tokens
  <1>10. CASE Restart
    BY <1>10 DEF Restart, rowVars
  <1>11. CASE UNCHANGED vars
    BY <1>11 DEF vars, rowVars, handlerVars
  <1>12. QED
    BY <1>1, <1>2, <1>3, <1>4, <1>5, <1>6, <1>7, <1>8, <1>9, <1>10, <1>11
       DEF Next, HandlerStep

\* The rest of the invariant, one action at a time.
Rest ==
  KnownInv /\ CutoffInv /\ LateInv /\ ChangeInv /\ OldSessionsEndUnlessLate /\ ChangerStaysSignedIn

\* A handler that starts, knowing no more than the current password, is harmless.
LEMMA StartStep ==
  ASSUME IInv, TypeOK', NEW h \in Handlers, NEW known \in Passwords, known <= password,
         NEW label \in {"mint", "update"}, NEW tainted \in BOOLEAN,
         ended = password /\ label = "mint" /\ known # password => tainted,
         pc[h] = "idle", Hold(h, label, known, tainted),
         UNCHANGED <<now, rowVars, tokens, cutoff, ended>>
  PROVE  Rest'
  <1> USE DEF IInv, TypeOK, Hold, rowVars
  <1>1. \A g \in Handlers : g # h => pc'[g] = pc[g] /\ pv'[g] = pv[g]
    OBVIOUS
  <1>2. pc'[h] = label /\ pv'[h] = known
    OBVIOUS
  <1>3. KnownInv'
    BY <1>1, <1>2 DEF KnownInv
  <1>4. CutoffInv'
    BY <1>1, <1>2 DEF CutoffInv
  <1>5. ChangeInv'
    BY <1>1, <1>2 DEF ChangeInv, Changing
  <1>6. OldSessionsEndUnlessLate' /\ ChangerStaysSignedIn'
    BY DEF OldSessionsEndUnlessLate, ChangerStaysSignedIn, Revoked
  <1>7. LateInv'
    <2>1. late'[h] = tainted /\ \A g \in Handlers : g # h => late'[g] = late[g]
      OBVIOUS
    <2>2. QED
      BY <1>1, <1>2, <2>1 DEF LateInv
  <1>8. QED
    BY <1>3, <1>4, <1>5, <1>6, <1>7 DEF Rest

\* A handler that ends without a token is harmless.
LEMMA AnswerStep ==
  ASSUME IInv, NEW h \in Handlers, Answer(h),
         UNCHANGED <<password, revokedAt, tokens, ended>>
  PROVE  Rest'
  <1> USE DEF IInv, TypeOK, Passwords
  <1>1. /\ pc'[h] = "idle" /\ pv'[h] = 0
        /\ \A g \in Handlers : g # h => /\ pc'[g] = pc[g] /\ pv'[g] = pv[g]
                                       /\ cutoff'[g] = cutoff[g] /\ late'[g] = late[g]
    BY DEF Answer, Hold
  <1>2. KnownInv'
    BY <1>1 DEF KnownInv
  <1>3. CutoffInv' /\ LateInv' /\ ChangeInv'
    BY <1>1 DEF CutoffInv, LateInv, ChangeInv, Changing
  <1>4. OldSessionsEndUnlessLate' /\ ChangerStaysSignedIn'
    BY DEF OldSessionsEndUnlessLate, ChangerStaysSignedIn, Revoked
  <1>5. QED
    BY <1>2, <1>3, <1>4 DEF Rest

LEMMA UpdateStep ==
  ASSUME IInv, TypeOK', NEW h \in Handlers, UpdateUser(h)
  PROVE  Rest'
  <1> USE DEF IInv, TypeOK, Passwords
  <1>1. /\ \A g \in Handlers : g # h => pc'[g] = pc[g] /\ pv'[g] = pv[g] /\ cutoff'[g] = cutoff[g]
        /\ UNCHANGED <<revokedAt, ended>>
    BY DEF UpdateUser, Answer, Hold
  <1>2. CASE password' = password + 1
    <2>1. /\ pc'[h] \in {"cutoff", "idle"} /\ pv'[h] \in {0, password + 1}
          /\ pc'[h] = "cutoff" => pv'[h] = password + 1
      BY <1>2 DEF UpdateUser, Answer, Hold
    <2>2. \A t \in tokens' : \E u \in tokens : t.pv = u.pv /\ t.iat = u.iat /\ t.own = u.own
      <3>1. tokens' = {[t EXCEPT !.late = FALSE] : t \in tokens}
        BY <1>2 DEF UpdateUser
      <3>2. \A u \in tokens : LET t == [u EXCEPT !.late = FALSE]
                              IN  t.pv = u.pv /\ t.iat = u.iat /\ t.own = u.own
        BY DEF Tokens
      <3>3. ASSUME NEW t \in tokens'
            PROVE  \E u \in tokens : t.pv = u.pv /\ t.iat = u.iat /\ t.own = u.own
        <4>1. PICK u \in tokens : t = [u EXCEPT !.late = FALSE]
          BY <3>1, <3>3
        <4>2. QED
          BY <3>2, <4>1
      <3>4. QED
        BY <3>3
    <2>3. ended < password'
      BY <1>2 DEF KnownInv
    <2>4. KnownInv'
      BY <1>1, <1>2, <2>1, <2>2, <2>3 DEF KnownInv, Tokens
    <2>5. CutoffInv' /\ LateInv'
      BY <1>1, <1>2, <2>1, <2>3 DEF CutoffInv, LateInv, KnownInv
    <2>6. ChangeInv'
      BY <1>1, <1>2, <2>1, <2>2 DEF ChangeInv, Changing, KnownInv, Tokens
    <2>7. OldSessionsEndUnlessLate'
      BY <1>1, <2>3 DEF OldSessionsEndUnlessLate
    <2>8. ChangerStaysSignedIn'
      BY <1>1, <2>2 DEF ChangerStaysSignedIn, Revoked
    <2>9. QED
      BY <2>4, <2>5, <2>6, <2>7, <2>8 DEF Rest
  <1>3. CASE Answer(h) /\ UNCHANGED <<password, tokens>>
    BY <1>1, <1>3, AnswerStep DEF UpdateUser
  <1>4. QED
    BY <1>2, <1>3 DEF UpdateUser

LEMMA CutoffStep ==
  ASSUME IInv, TypeOK', NEW h \in Handlers, TakeCutoff(h)
  PROVE  Rest'
  <1> USE DEF IInv, TypeOK, TakeCutoff, rowVars
  <1>1. KnownInv'
    BY DEF KnownInv
  <1>2. CutoffInv'
    BY DEF CutoffInv
  <1>3. ChangeInv' /\ LateInv'
    BY DEF ChangeInv, Changing, LateInv
  <1>4. OldSessionsEndUnlessLate' /\ ChangerStaysSignedIn'
    BY DEF OldSessionsEndUnlessLate, ChangerStaysSignedIn, Revoked
  <1>5. QED
    BY <1>1, <1>2, <1>3, <1>4 DEF Rest

LEMMA RevokeStep ==
  ASSUME IInv, TypeOK', NEW h \in Handlers, RevokeUserTokensAt(h)
  PROVE  Rest'
  <1> USE DEF IInv, TypeOK, Passwords
  <1>1. CASE /\ revokedAt' = cutoff[h] /\ ended' = pv[h] /\ UNCHANGED <<pv, cutoff>>
             /\ pc' = [pc EXCEPT ![h] = "wait"] /\ Overtaken(h)
    <2>0. pc[h] = "stamp" /\ UNCHANGED <<now, password, tokens>>
      BY DEF RevokeUserTokensAt
    <2>1. \A g \in Handlers : g # h => pc'[g] = pc[g] /\ pv'[g] = pv[g] /\ cutoff'[g] = cutoff[g]
      BY <1>1
    <2>2. KnownInv'
      BY <1>1, <2>0 DEF KnownInv
    <2>3. CutoffInv'
      BY <1>1, <2>0, <2>1 DEF CutoffInv
    <2>4. ChangeInv'
      BY <1>1, <2>0, <2>1 DEF ChangeInv, Changing
    <2>5. LateInv'
      BY <1>1, <2>0, <2>1 DEF LateInv, Overtaken
    <2>6. OldSessionsEndUnlessLate'
      BY <1>1, <2>0 DEF OldSessionsEndUnlessLate, CutoffInv, Revoked
    <2>7. ChangerStaysSignedIn'
      BY <1>1, <2>0 DEF ChangerStaysSignedIn, ChangeInv, Changing, Revoked
    <2>8. QED
      BY <2>2, <2>3, <2>4, <2>5, <2>6, <2>7 DEF Rest
  <1>2. CASE Answer(h) /\ UNCHANGED <<revokedAt, ended>>
    BY <1>2, AnswerStep DEF RevokeUserTokensAt
  <1>3. QED
    BY <1>1, <1>2 DEF RevokeUserTokensAt, Overtaken

LEMMA MintStep ==
  ASSUME IInv, TypeOK', NEW h \in Handlers, Mint(h)
  PROVE  Rest'
  <1> USE DEF IInv, TypeOK, Mint, Answer, Hold, rowVars, Passwords
  <1>1. \A g \in Handlers : g # h => pc'[g] = pc[g] /\ pv'[g] = pv[g] /\ cutoff'[g] = cutoff[g]
    OBVIOUS
  <1>2. pc'[h] = "idle" /\ pv'[h] = 0
    OBVIOUS
  <1> DEFINE new == Minted(h)
  <1>3. /\ new.iat = now /\ new.pv = pv[h]
        /\ new.late <=> late[h] \/ Unwritten
        /\ new.own <=> pc[h] = "wait"
    BY MintedFacts
  <1>4. tokens' = tokens \cup {new}
    OBVIOUS
  <1> HIDE DEF new
  <1>5. KnownInv'
    BY <1>1, <1>2, <1>3, <1>4 DEF KnownInv
  <1>6. CutoffInv'
    BY <1>1, <1>2, <1>3, <1>4 DEF CutoffInv, Unwritten
  <1>7. LateInv'
    <2>1. \A g \in Handlers : g # h => late'[g] = late[g]
      OBVIOUS
    <2>2. QED
      BY <1>1, <1>2, <2>1 DEF LateInv
  <1>8. ChangeInv'
    BY <1>1, <1>2, <1>3, <1>4 DEF ChangeInv, Changing
  <1>9. OldSessionsEndUnlessLate'
    <2>1. pc[h] \in {"mint", "wait"} /\ UNCHANGED <<password, revokedAt, ended>>
      OBVIOUS
    <2>2. ended = password /\ new.pv # password => new.late
      BY <1>3, <2>1 DEF LateInv
    <2>3. QED
      BY <1>4, <2>1, <2>2 DEF OldSessionsEndUnlessLate, Revoked
  <1>10. ChangerStaysSignedIn'
    <2>1. new.own /\ new.pv = ended => ~(new.iat <= revokedAt)
      <3>1. now \in Int /\ cutoff[h] \in Int
        BY TimesAssumption DEF Times
      <3>2. SUFFICES ASSUME pc[h] = "wait", pv[h] = ended PROVE ~(now <= revokedAt)
        BY <1>3
      <3>3. revokedAt = cutoff[h]
        BY <3>2 DEF ChangeInv, Changing
      <3>4. now >= cutoff[h] + 1
        BY <3>2
      <3>5. QED
        BY <3>1, <3>3, <3>4
    <2>2. QED
      BY <1>4, <2>1 DEF ChangerStaysSignedIn, Revoked
  <1>11. QED
    BY <1>5, <1>6, <1>7, <1>8, <1>9, <1>10 DEF Rest

LEMMA RestStep == IInv /\ TypeOK' /\ [Next]_vars => Rest'
  <1> SUFFICES ASSUME IInv, TypeOK', [Next]_vars PROVE Rest'
    OBVIOUS
  <1>1. ASSUME NEW h \in Handlers, Login(h) PROVE Rest'
    <2>1. password \in Passwords /\ password <= password
      BY TimesAssumption DEF IInv, TypeOK, Passwords
    <2>2. /\ pc[h] = "idle" /\ Hold(h, "mint", password, FALSE)
          /\ UNCHANGED <<now, rowVars, tokens, cutoff, ended>>
      BY <1>1 DEF Login
    <2>3. QED
      BY <2>1, <2>2, StartStep
  <1>2. ASSUME NEW h \in Handlers, NEW t \in tokens, Refresh(h, t) PROVE Rest'
    <2>1. t.pv \in Passwords /\ t.late \in BOOLEAN /\ t.pv <= password
      BY DEF IInv, TypeOK, KnownInv, Tokens
    <2>2. ended = password /\ t.pv # password => t.late
      BY <1>2 DEF Refresh, IInv, OldSessionsEndUnlessLate
    <2>3. /\ pc[h] = "idle" /\ Hold(h, "mint", t.pv, t.late)
          /\ UNCHANGED <<now, rowVars, tokens, cutoff, ended>>
      BY <1>2 DEF Refresh
    <2>4. QED
      BY <2>1, <2>2, <2>3, StartStep
  <1>3. ASSUME NEW h \in Handlers, BeginChange(h) PROVE Rest'
    <2>1. password \in Passwords /\ password <= password
      BY TimesAssumption DEF IInv, TypeOK, Passwords
    <2>2. /\ pc[h] = "idle" /\ Hold(h, "update", password, FALSE)
          /\ UNCHANGED <<now, rowVars, tokens, cutoff, ended>>
      BY <1>3 DEF BeginChange
    <2>3. QED
      BY <2>1, <2>2, StartStep
  <1>4. CASE Tick
    BY <1>4 DEF Tick, rowVars, handlerVars, IInv, Rest, KnownInv, CutoffInv, LateInv, ChangeInv, Changing,
       OldSessionsEndUnlessLate, ChangerStaysSignedIn, Revoked
  <1>5. CASE Restart
    BY <1>5 DEF Restart, rowVars, IInv, TypeOK, Passwords, Rest, KnownInv, CutoffInv, LateInv, ChangeInv,
       Changing, OldSessionsEndUnlessLate, ChangerStaysSignedIn, Revoked
  <1>6. CASE UNCHANGED <<password, revokedAt, tokens, handlerVars, ended>>
    BY <1>6 DEF handlerVars, IInv, Rest, KnownInv, CutoffInv, LateInv, ChangeInv, Changing,
       OldSessionsEndUnlessLate, ChangerStaysSignedIn, Revoked
  <1>7. QED
    BY <1>1, <1>2, <1>3, <1>4, <1>5, <1>6, UpdateStep, CutoffStep, RevokeStep, MintStep
       DEF Next, HandlerStep, SetActive, vars, rowVars

LEMMA InductiveInit == Init => IInv
  BY TypeInit DEF Init, IInv, KnownInv, CutoffInv, LateInv, ChangeInv, Changing,
     OldSessionsEndUnlessLate, ChangerStaysSignedIn

\* The strengthened invariant holds in every reachable state.
THEOREM Inductive == Spec => []IInv
  <1>1. IInv /\ [Next]_vars => IInv'
    BY TypeStep, RestStep DEF IInv, Rest
  <1>2. QED
    BY InductiveInit, <1>1, PTL DEF Spec

\* Type correctness; no token and no cut-off is from the future.
THEOREM TypeCorrect == Spec => []TypeOK
  BY Inductive, PTL DEF IInv

\* A new password ends every other session except those minted by a handler that
\* had read the user row before the change (HandleUpdateSelf, HandleRefresh).
THEOREM OldSessionsEnd == Spec => []OldSessionsEndUnlessLate
  BY Inductive, PTL DEF IInv

\* The browser that changed the password stays signed in (HandleUpdateSelf).
THEOREM ChangerSignedIn == Spec => []ChangerStaysSignedIn
  BY Inductive, PTL DEF IInv
===============================================================================
